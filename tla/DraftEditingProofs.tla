-------------------------- MODULE DraftEditingProofs --------------------------
(***************************************************************************)
(* The safety of DraftEditing, for any editors, documents, catalogs and    *)
(* bounds: what a page shows as saved is stored, a conflict it shows is    *)
(* real, a result it shows as current was calculated from the document on  *)
(* display, and the stored history loses no save and stores none twice.    *)
(*                                                                         *)
(* The inductive invariant ties each page to the requests and answers it   *)
(* still waits for, and those to the stored versions.  Its heart is the    *)
(* key of a save: a key names one document, in the page, on the network    *)
(* and in the audit events, and a page only repeats a key against the      *)
(* version it drew the key for.                                            *)
(***************************************************************************)
EXTENDS DraftEditing, TLAPS

\* The draft d is a stored version.
Recorded(d, s) ==
  /\ d.version \in DOMAIN s
  /\ s[d.version].content = d.content /\ s[d.version].catalog = d.catalog

\* A page waits for one save and for one task at a time.
SameLane(x, y) == x.editor = y.editor /\ (x.kind = "replace" <=> y.kind = "replace")

\* What ed sent last is not stored, and something newer is.
Missed(ed, d, s) ==
  /\ d.version > ed.acked.version
  /\ ed.failed # NoFailed => \A i \in DOMAIN s : s[i].key # ed.failed.key

History(d, s, c) ==
  /\ Len(s) = d.version /\ Recorded(d, s)
  /\ c = NoCalculation \/ Recorded(c, s)

\* Every version was made from the one before it.
Chained(s) == \A i \in DOMAIN s : s[i].base = i - 1

\* No key is stored twice.
StoredOnce(s) == \A i, j \in DOMAIN s : s[i].key = s[j].key => i = j

KeysDrawn(s, pages) == \A i \in DOMAIN s : s[i].key[2] <= pages[s[i].key[1]].number

\* Requests with one key carry one document, the one stored under that key.
KeysAgree(rs, s) ==
  \A r \in rs : r.kind = "replace" =>
    /\ \A i \in DOMAIN s : s[i].key = r.key => s[i].content = r.content
    /\ \A q \in rs : q.kind = "replace" /\ q.key = r.key => q.content = r.content

Lanes(rs, as) ==
  /\ \A r, q \in rs : r.open /\ q.open /\ SameLane(r, q) => r = q
  /\ \A r \in rs, a \in as : r.open => ~SameLane(r, a)
  /\ \A a, b \in as : SameLane(a, b) => a = b

\* The page ed waits for r.
Awaits(ed, r) ==
  IF r.kind = "replace" THEN ed.flight = "put" /\ r.key = ed.failed.key
  ELSE ed.task = "sent" /\ r.base = ed.taskOf.version

RequestFits(r, ed, d, s) ==
  /\ r.base <= d.version /\ Recorded(r.input, s)
  /\ r.kind = "calculate" /\ r.phase # "sent" => r.input.version = r.base
  /\ r.key[1] = r.editor /\ r.key[2] <= ed.number
  /\ r.open => Awaits(ed, r)

AnswerFits(a, ed, d, s) ==
  /\ Recorded(a.result, s)
  /\ IF a.kind = "replace"
     THEN /\ ed.flight = "put"
          /\ a.code = "ok" => a.result.content = ed.failed.content
          /\ a.code = "conflict" => Missed(ed, d, s)
     ELSE /\ ed.task = "sent"
          /\ a.kind = "calculate" /\ a.code = "conflict" => d.version > ed.taskOf.version

\* The key kept for a retry.
FailedFits(e, ed, s, rs) ==
  ed.failed # NoFailed =>
    /\ ed.failed.key[1] = e /\ ed.failed.key[2] <= ed.number
    /\ \A i \in DOMAIN s : s[i].key = ed.failed.key => s[i].content = ed.failed.content
    /\ \A r \in rs : r.kind = "replace" /\ r.key = ed.failed.key =>
         r.content = ed.failed.content /\ r.base = ed.acked.version

PageShape(ed) ==
  /\ ed.mode # "ready" => /\ ed.flight = "none" /\ ed.task = "none" /\ ed.status = "idle"
                          /\ ed.failed = NoFailed /\ ~ed.armed
  /\ ed.mode = "ready" => ed.doc \in Contents
  /\ ed.flight # "none" => ~ed.armed /\ ed.status \in {"saving", "unsaved"}
  /\ ed.flight = "put" => ed.failed # NoFailed
  /\ ed.status = "failed" => ed.failed # NoFailed
  /\ ed.mode = "ready" /\ ed.status \in {"saved", "idle"} => ed.doc = ed.acked.content

PageStored(ed, d, s) ==
  /\ ed.mode = "fetched" => Recorded(ed.project, s)
  /\ ed.mode = "ready" => /\ ed.acked.version \in DOMAIN s
                          /\ s[ed.acked.version].content = ed.acked.content
  /\ ed.shown = NoCalculation \/ Recorded(ed.shown, s)
  /\ ed.status = "conflict" => Missed(ed, d, s)
  /\ ed.task = "superseded" => d.version > ed.taskOf.version

PageFits(e, ed, d, s, rs) == FailedFits(e, ed, s, rs) /\ PageShape(ed) /\ PageStored(ed, d, s)

\* The history, and the keys with it.
ServerInv ==
  /\ History(draft, saves, calculated) /\ Chained(saves) /\ StoredOnce(saves)
  /\ KeysDrawn(saves, editor) /\ KeysAgree(requests, saves)

NetworkInv ==
  /\ Lanes(requests, answers)
  /\ \A r \in requests : RequestFits(r, editor[r.editor], draft, saves)
  /\ \A a \in answers : AnswerFits(a, editor[a.editor], draft, saves)

PageInv == \A e \in Editors : PageFits(e, editor[e], draft, saves, requests)

IInv == TypeOK /\ ServerInv /\ NetworkInv /\ PageInv
-----------------------------------------------------------------------------
(* The stored versions.                                                    *)

LEMMA SavedEntry ==
  ASSUME NEW s \in Seq(Saves), NEW i \in DOMAIN s
  PROVE  /\ s[i] \in Saves /\ i \in 1..Len(s)
         /\ s[i].key \in Keys /\ s[i].key[1] \in Editors /\ s[i].key[2] \in Nat
<1>1. s \in [1..Len(s) -> Saves]
  OBVIOUS
<1>2. s[i] \in Saves /\ i \in 1..Len(s)
  BY <1>1
<1> QED
  BY <1>2 DEF Saves, Keys
-----------------------------------------------------------------------------
(* Rendering.                                                              *)

\* Everything but the document, the timer and the status is as it was.
Rerendered(ed, new) ==
  /\ new \in Pages /\ new.doc \in Contents
  /\ new.mode = ed.mode /\ new.acked = ed.acked /\ new.number = ed.number
  /\ new.flight = ed.flight /\ new.failed = ed.failed /\ new.rebase = ed.rebase
  /\ new.buffered = ed.buffered /\ new.catalog = ed.catalog /\ new.project = ed.project
  /\ new.task = ed.task /\ new.taskKind = ed.taskKind /\ new.tries = ed.tries
  /\ new.taskOf = ed.taskOf /\ new.shown = ed.shown

LEMMA ReconciledFacts ==
  ASSUME NEW ed \in Pages, ed.doc \in Contents
  PROVE  Rerendered(ed, Reconciled(ed)) /\ Reconciled(ed).status = ed.status
         /\ Reconciled(ed).armed = ed.armed
<1>1. CASE ed.catalog = NoCatalog
  BY <1>1 DEF Reconciled, Rerendered
<1>2. CASE ed.catalog # NoCatalog
  <2>1. ed.catalog \in Catalogs
    BY <1>2 DEF Pages
  <2>2. Cleared[ed.catalog][ed.doc] \in Contents
    BY <2>1, EditingAssumption DEF EditingAssumption
  <2>3. PICK new : new = [ed EXCEPT !.doc = Cleared[ed.catalog][@]]
    OBVIOUS
  <2>4. new \in Pages
    BY <2>2, <2>3 DEF Pages
  <2>5. Rerendered(ed, new) /\ new.status = ed.status /\ new.armed = ed.armed
    BY <2>2, <2>3, <2>4 DEF Rerendered, Pages
  <2> QED
    BY <1>2, <2>3, <2>5 DEF Reconciled
<1> QED
  BY <1>1, <1>2

\* What the effect makes of the status and the timer.
Autosaved(ed, new) ==
  /\ ed.mode # "ready" \/ ed.flight # "none" => new.status = ed.status /\ ~new.armed
  /\ ed.mode = "ready" /\ ed.flight = "none" =>
       \/ new.status \in {"unsaved", "validationBlocked", "saved"}
       \/ new.status = ed.status /\ ed.status \in {"conflict", "failed"}
  /\ ed.mode = "ready" /\ ed.flight = "none" /\ new.status = "saved" => new.doc = new.acked.content

LEMMA EffectFacts ==
  ASSUME NEW ed \in Pages, ed.doc \in Contents
  PROVE  /\ Rerendered(ed, AutosaveEffect(ed)) /\ Autosaved(ed, AutosaveEffect(ed))
         /\ AutosaveEffect(ed).doc = ed.doc
<1> PICK new : new = AutosaveEffect(ed)
  OBVIOUS
<1>1. ASSUME NEW status \in AutosaveStatuses, NEW timer \in BOOLEAN,
             new = [ed EXCEPT !.armed = timer, !.status = status]
      PROVE  /\ Rerendered(ed, new) /\ new.doc = ed.doc
             /\ new.status = status /\ new.armed = timer
  <2>1. new \in Pages
    BY <1>1 DEF Pages
  <2>2. new.doc = ed.doc /\ new.status = status /\ new.armed = timer
    BY <1>1 DEF Pages
  <2> QED
    BY <1>1, <2>1, <2>2 DEF Rerendered, Pages
<1>2. CASE ed.mode # "ready" \/ ed.flight # "none"
  <2>1. new = [ed EXCEPT !.armed = FALSE, !.status = ed.status]
    BY <1>2 DEF AutosaveEffect
  <2>2. ed.status \in AutosaveStatuses
    BY DEF Pages
  <2> QED
    BY <1>1, <1>2, <2>1, <2>2 DEF Autosaved
<1>3. CASE ed.mode = "ready" /\ ed.flight = "none"
  <2>1. PICK status \in AutosaveStatuses, timer \in BOOLEAN :
          /\ new = [ed EXCEPT !.armed = timer, !.status = status]
          /\ \/ status \in {"unsaved", "validationBlocked"}
             \/ status = ed.status /\ ed.status \in {"conflict", "failed"}
             \/ status = "saved" /\ ed.doc = ed.acked.content
    <3>1. CASE ed.buffered
      BY <1>3, <3>1 DEF AutosaveEffect, AutosaveStatuses
    <3>2. CASE ~ed.buffered /\ ed.status \in {"conflict", "failed"}
      <4>1. new = [ed EXCEPT !.armed = FALSE, !.status = ed.status]
        BY <1>3, <3>2 DEF AutosaveEffect
      <4> QED
        BY <3>2, <4>1 DEF AutosaveStatuses
    <3>3. CASE ~ed.buffered /\ ed.status \notin {"conflict", "failed"} /\ ed.doc \notin Valid
      <4>1. new = [ed EXCEPT !.armed = FALSE, !.status = "validationBlocked"]
        BY <1>3, <3>3 DEF AutosaveEffect
      <4> QED
        BY <4>1 DEF AutosaveStatuses
    <3>4. CASE /\ ~ed.buffered /\ ed.status \notin {"conflict", "failed"} /\ ed.doc \in Valid
               /\ ~Dirty(ed)
      <4>1. new = [ed EXCEPT !.armed = FALSE, !.status = "saved"]
        BY <1>3, <3>4 DEF AutosaveEffect
      <4> QED
        BY <3>4, <4>1 DEF AutosaveStatuses, Dirty
    <3>5. CASE /\ ~ed.buffered /\ ed.status \notin {"conflict", "failed"} /\ ed.doc \in Valid
               /\ Dirty(ed)
      <4>1. new = [[ed EXCEPT !.armed = FALSE, !.status = "unsaved"] EXCEPT !.armed = TRUE]
        BY <1>3, <3>5 DEF AutosaveEffect
      <4>2. new = [ed EXCEPT !.armed = TRUE, !.status = "unsaved"]
        BY <4>1 DEF Pages
      <4> QED
        BY <4>2 DEF AutosaveStatuses
    <3> QED
      BY <3>1, <3>2, <3>3, <3>4, <3>5
  <2>2. /\ Rerendered(ed, new) /\ new.doc = ed.doc
        /\ new.status = status /\ new.armed = timer
    BY <1>1, <2>1
  <2> QED
    BY <1>3, <2>1, <2>2 DEF Autosaved, Rerendered
<1> QED
  BY <1>2, <1>3 DEF Pages

LEMMA RenderedFacts ==
  ASSUME NEW ed \in Pages, ed.doc \in Contents
  PROVE  Rerendered(ed, Rendered(ed)) /\ Autosaved(ed, Rendered(ed))
<1> PICK seen : seen = Reconciled(ed)
  OBVIOUS
<1>1. Rerendered(ed, seen) /\ seen.status = ed.status
  BY ReconciledFacts
<1>2. Rerendered(seen, AutosaveEffect(seen)) /\ Autosaved(seen, AutosaveEffect(seen))
  BY <1>1, EffectFacts DEF Rerendered
<1>3. Rerendered(ed, AutosaveEffect(seen))
  BY <1>1, <1>2 DEF Rerendered
<1>4. Autosaved(ed, AutosaveEffect(seen))
  BY <1>1, <1>2 DEF Rerendered, Autosaved
<1> QED
  BY <1>3, <1>4 DEF Rendered
-----------------------------------------------------------------------------
(* Steps of one page.                                                      *)

\* r is q, or q after its page has stopped waiting for it.
Older(r, q) == r = q \/ r = [q EXCEPT !.open = FALSE]

LEMMA OlderFacts ==
  ASSUME NEW q \in Requests, NEW r, Older(r, q)
  PROVE  /\ r \in Requests
         /\ r.kind = q.kind /\ r.editor = q.editor /\ r.number = q.number /\ r.key = q.key
         /\ r.base = q.base /\ r.content = q.content /\ r.phase = q.phase
         /\ r.input = q.input /\ r.seen = q.seen /\ (r.open => r = q)
<1>1. CASE r = q
  BY <1>1 DEF Requests
<1>2. CASE r = [q EXCEPT !.open = FALSE]
  <2>1. r \in Requests
    BY <1>2 DEF Requests
  <2> QED
    BY <1>2, <2>1 DEF Requests
<1> QED
  BY <1>1, <1>2 DEF Older

\* A page changes, stops waiting for some of its requests, or takes an answer.
LEMMA PageStep ==
  ASSUME IInv, NEW e \in Editors, NEW new \in Pages,
         UNCHANGED <<server, active>>, moves' \in Nat,
         editor' = [editor EXCEPT ![e] = new], new.number >= editor[e].number,
         \A r \in requests' : \E q \in requests : Older(r, q),
         answers' \subseteq answers,
         PageFits(e, new, draft, saves, requests),
         \A r \in requests' : r.open /\ r.editor = e => Awaits(new, r),
         \A a \in answers' : a.editor = e => AnswerFits(a, new, draft, saves)
  PROVE  IInv'
<1>1. draft' = draft /\ saves' = saves /\ calculated' = calculated /\ active' = active
  BY DEF server
<1>2. /\ draft \in Drafts /\ saves \in Seq(Saves) /\ editor \in [Editors -> Pages]
      /\ requests \subseteq Requests /\ answers \subseteq Answers
  BY DEF IInv, TypeOK, ServerTypeOK
<1>3. /\ editor' \in [Editors -> Pages] /\ editor'[e] = new
      /\ \A f \in Editors : f # e => editor'[f] = editor[f]
  BY <1>2
<1>4. \A f \in Editors : /\ editor[f].number \in Nat /\ editor'[f].number \in Nat
                         /\ editor'[f].number >= editor[f].number
  BY <1>2, <1>3 DEF Pages
<1>5. TypeOK'
  <2>1. requests' \subseteq Requests
    BY <1>2, OlderFacts
  <2> QED
    BY <1>1, <1>2, <1>3, <2>1 DEF IInv, TypeOK, ServerTypeOK
<1>6. ServerInv'
  <2>1. KeysDrawn(saves', editor')
    <3>1. SUFFICES ASSUME NEW i \in DOMAIN saves
                   PROVE  saves[i].key[2] <= editor'[saves[i].key[1]].number
      BY <1>1 DEF KeysDrawn
    <3>2. saves[i].key[1] \in Editors /\ saves[i].key[2] \in Nat
      BY <1>2, SavedEntry
    <3>3. saves[i].key[2] <= editor[saves[i].key[1]].number
      BY DEF IInv, ServerInv, KeysDrawn
    <3> QED
      BY <1>4, <3>2, <3>3
  <2>2. KeysAgree(requests', saves')
    <3>1. SUFFICES ASSUME NEW r \in requests', r.kind = "replace"
                   PROVE  /\ \A i \in DOMAIN saves : saves[i].key = r.key => saves[i].content = r.content
                          /\ \A q \in requests' : q.kind = "replace" /\ q.key = r.key => q.content = r.content
      BY <1>1 DEF KeysAgree
    <3>2. PICK x \in requests : Older(r, x)
      OBVIOUS
    <3>3. x.kind = "replace" /\ x.key = r.key /\ x.content = r.content
      BY <1>2, <3>1, <3>2, OlderFacts
    <3>4. ASSUME NEW q \in requests', q.kind = "replace", q.key = r.key
          PROVE  q.content = r.content
      <4>1. PICK y \in requests : Older(q, y)
        OBVIOUS
      <4>2. y.kind = "replace" /\ y.key = q.key /\ y.content = q.content
        BY <1>2, <3>4, <4>1, OlderFacts
      <4> QED
        BY <3>3, <3>4, <4>2 DEF IInv, ServerInv, KeysAgree
    <3>5. ASSUME NEW i \in DOMAIN saves, saves[i].key = r.key
          PROVE  saves[i].content = r.content
      BY <3>3, <3>5 DEF IInv, ServerInv, KeysAgree
    <3> QED
      BY <3>4, <3>5
  <2> QED
    BY <1>1, <2>1, <2>2 DEF IInv, ServerInv
<1>7. NetworkInv'
  <2>1. Lanes(requests', answers')
    <3>1. \A r \in requests' : r.open => r \in requests
      BY <1>2, OlderFacts
    <3> QED
      BY <3>1 DEF IInv, NetworkInv, Lanes
  <2>2. ASSUME NEW r \in requests'
        PROVE  RequestFits(r, editor'[r.editor], draft, saves)
    <3>1. PICK q \in requests : Older(r, q)
      OBVIOUS
    <3>2. /\ q \in Requests /\ r \in Requests
          /\ r.kind = q.kind /\ r.editor = q.editor /\ r.key = q.key
          /\ r.base = q.base /\ r.phase = q.phase /\ r.input = q.input /\ (r.open => r = q)
      BY <1>2, <3>1, OlderFacts
    <3>3. RequestFits(q, editor[q.editor], draft, saves)
      BY DEF IInv, NetworkInv
    <3>4. q.editor \in Editors /\ q.key \in Keys
      BY <3>2 DEF Requests
    <3>5. r.key[1] = r.editor /\ r.key[2] <= editor'[r.editor].number
      BY <1>4, <3>2, <3>3, <3>4 DEF RequestFits, Keys
    <3>6. r.open => Awaits(editor'[r.editor], r)
      <4>1. CASE r.editor = e
        BY <1>3, <4>1
      <4>2. CASE r.editor # e
        BY <1>3, <3>2, <3>3, <3>4, <4>2 DEF RequestFits
      <4> QED
        BY <4>1, <4>2
    <3> QED
      BY <3>2, <3>3, <3>5, <3>6 DEF RequestFits
  <2>3. ASSUME NEW a \in answers'
        PROVE  AnswerFits(a, editor'[a.editor], draft, saves)
    <3>1. a \in answers /\ a.editor \in Editors
      BY <1>2 DEF Answers
    <3>2. AnswerFits(a, editor[a.editor], draft, saves)
      BY <3>1 DEF IInv, NetworkInv
    <3> QED
      BY <1>3, <3>1, <3>2
  <2> QED
    BY <1>1, <2>1, <2>2, <2>3 DEF NetworkInv
<1>8. PageInv'
  <2>1. SUFFICES ASSUME NEW f \in Editors
                 PROVE  PageFits(f, editor'[f], draft, saves, requests')
    BY <1>1 DEF PageInv
  <2>2. PageFits(f, editor'[f], draft, saves, requests)
    BY <1>3 DEF IInv, PageInv
  <2>3. FailedFits(f, editor'[f], saves, requests')
    <3>1. SUFFICES ASSUME editor'[f].failed # NoFailed, NEW r \in requests', r.kind = "replace",
                          r.key = editor'[f].failed.key
                   PROVE  /\ r.content = editor'[f].failed.content
                          /\ r.base = editor'[f].acked.version
      BY <2>2 DEF FailedFits, PageFits
    <3>2. PICK q \in requests : Older(r, q)
      OBVIOUS
    <3>3. q.kind = r.kind /\ q.key = r.key /\ q.content = r.content /\ q.base = r.base
      BY <1>2, <3>2, OlderFacts
    <3> QED
      BY <2>2, <3>1, <3>3 DEF FailedFits, PageFits
  <2> QED
    BY <2>2, <2>3 DEF PageFits
<1> QED
  BY <1>5, <1>6, <1>7, <1>8 DEF IInv

\* A page sends a request in a lane where it waits for nothing.
LEMMA SendStep ==
  ASSUME IInv, NEW e \in Editors, NEW new \in Pages, NEW r \in Requests,
         UNCHANGED <<server, active, answers>>, moves' \in Nat,
         editor' = [editor EXCEPT ![e] = new], new.number >= editor[e].number,
         requests' = requests \cup {r}, r.editor = e,
         RequestFits(r, new, draft, saves),
         PageFits(e, new, draft, saves, requests \cup {r}),
         KeysAgree(requests \cup {r}, saves),
         \A q \in requests : q.open => ~SameLane(r, q),
         \A a \in answers : ~SameLane(r, a),
         \A q \in requests : q.open /\ q.editor = e => Awaits(new, q),
         \A a \in answers : a.editor = e => AnswerFits(a, new, draft, saves)
  PROVE  IInv'
<1>1. /\ draft' = draft /\ saves' = saves /\ calculated' = calculated /\ active' = active
      /\ answers' = answers
  BY DEF server
<1>2. /\ draft \in Drafts /\ saves \in Seq(Saves) /\ editor \in [Editors -> Pages]
      /\ requests \subseteq Requests /\ answers \subseteq Answers
  BY DEF IInv, TypeOK, ServerTypeOK
<1>3. /\ editor' \in [Editors -> Pages] /\ editor'[e] = new
      /\ \A f \in Editors : f # e => editor'[f] = editor[f]
  BY <1>2
<1>4. \A f \in Editors : /\ editor[f].number \in Nat /\ editor'[f].number \in Nat
                         /\ editor'[f].number >= editor[f].number
  BY <1>2, <1>3 DEF Pages
<1>5. TypeOK'
  BY <1>1, <1>2, <1>3 DEF IInv, TypeOK, ServerTypeOK
<1>6. ServerInv'
  <2>1. KeysDrawn(saves', editor')
    <3>1. SUFFICES ASSUME NEW i \in DOMAIN saves
                   PROVE  saves[i].key[2] <= editor'[saves[i].key[1]].number
      BY <1>1 DEF KeysDrawn
    <3>2. saves[i].key[1] \in Editors /\ saves[i].key[2] \in Nat
      BY <1>2, SavedEntry
    <3>3. saves[i].key[2] <= editor[saves[i].key[1]].number
      BY DEF IInv, ServerInv, KeysDrawn
    <3> QED
      BY <1>4, <3>2, <3>3
  <2> QED
    BY <1>1, <2>1 DEF IInv, ServerInv
<1>7. NetworkInv'
  <2>1. Lanes(requests', answers')
    BY <1>1 DEF IInv, NetworkInv, Lanes, SameLane
  <2>2. ASSUME NEW q \in requests
        PROVE  RequestFits(q, editor'[q.editor], draft, saves)
    <3>1. RequestFits(q, editor[q.editor], draft, saves)
      BY DEF IInv, NetworkInv
    <3>2. q.editor \in Editors /\ q.key \in Keys
      BY <1>2 DEF Requests
    <3>3. q.key[2] <= editor'[q.editor].number
      BY <1>4, <3>1, <3>2 DEF RequestFits, Keys
    <3>4. q.open => Awaits(editor'[q.editor], q)
      <4>1. CASE q.editor = e
        BY <1>3, <4>1
      <4>2. CASE q.editor # e
        BY <1>3, <3>1, <3>2, <4>2 DEF RequestFits
      <4> QED
        BY <4>1, <4>2
    <3> QED
      BY <3>1, <3>3, <3>4 DEF RequestFits
  <2>3. RequestFits(r, editor'[r.editor], draft, saves)
    BY <1>3
  <2>4. ASSUME NEW a \in answers
        PROVE  AnswerFits(a, editor'[a.editor], draft, saves)
    <3>1. a.editor \in Editors
      BY <1>2 DEF Answers
    <3>2. AnswerFits(a, editor[a.editor], draft, saves)
      BY DEF IInv, NetworkInv
    <3> QED
      BY <1>3, <3>1, <3>2
  <2> QED
    BY <1>1, <2>1, <2>2, <2>3, <2>4 DEF NetworkInv
<1>8. PageInv'
  <2>1. SUFFICES ASSUME NEW f \in Editors
                 PROVE  PageFits(f, editor'[f], draft, saves, requests \cup {r})
    BY <1>1 DEF PageInv
  <2>2. CASE f = e
    BY <1>3, <2>2
  <2>3. CASE f # e
    <3>1. PageFits(f, editor[f], draft, saves, requests)
      BY DEF IInv, PageInv
    <3>2. editor[f].failed # NoFailed => r.key # editor[f].failed.key
      BY <2>3, <3>1 DEF PageFits, FailedFits, RequestFits
    <3>3. FailedFits(f, editor[f], saves, requests \cup {r})
      BY <3>1, <3>2 DEF PageFits, FailedFits
    <3> QED
      BY <1>3, <2>3, <3>1, <3>3 DEF PageFits
  <2> QED
    BY <2>2, <2>3
<1> QED
  BY <1>5, <1>6, <1>7, <1>8 DEF IInv
-----------------------------------------------------------------------------
(* Saving.                                                                 *)

LEMMA Typed ==
  ASSUME IInv
  PROVE  /\ draft \in Drafts /\ saves \in Seq(Saves) /\ calculated \in Calculations
         /\ active \in Catalogs /\ requests \subseteq Requests /\ answers \subseteq Answers
         /\ editor \in [Editors -> Pages] /\ moves \in Nat
BY DEF IInv, TypeOK, ServerTypeOK

LEMMA NoSaveAwaited ==
  ASSUME IInv, NEW e \in Editors, editor[e].flight # "put"
  PROVE  /\ \A q \in requests : q.open /\ q.editor = e => q.kind # "replace"
         /\ \A a \in answers : a.editor = e => a.kind # "replace"
BY DEF IInv, NetworkInv, RequestFits, Awaits, AnswerFits

LEMMA NoTaskAwaited ==
  ASSUME IInv, NEW e \in Editors, editor[e].task # "sent"
  PROVE  /\ \A q \in requests : q.open /\ q.editor = e => q.kind = "replace"
         /\ \A a \in answers : a.editor = e => a.kind = "replace"
BY DEF IInv, NetworkInv, RequestFits, Awaits, AnswerFits

\* A key just drawn is nowhere yet.
LEMMA FreshKey ==
  ASSUME IInv, NEW e \in Editors, NEW key, key = <<e, editor[e].number + 1>>
  PROVE  /\ key \in Keys /\ key[1] = e /\ key[2] = editor[e].number + 1
         /\ \A i \in DOMAIN saves : saves[i].key # key
         /\ \A q \in requests : q.key # key
<1>1. editor[e].number \in Nat
  BY Typed DEF Pages
<1>2. key \in Keys /\ key[1] = e /\ key[2] = editor[e].number + 1
  BY <1>1 DEF Keys
<1>3. ASSUME NEW i \in DOMAIN saves, saves[i].key = key PROVE FALSE
  <2>1. saves[i].key[2] <= editor[saves[i].key[1]].number
    BY DEF IInv, ServerInv, KeysDrawn
  <2> QED
    BY <1>1, <1>2, <1>3, <2>1
<1>4. ASSUME NEW q \in requests, q.key = key PROVE FALSE
  <2>1. q.key[1] = q.editor /\ q.key[2] <= editor[q.editor].number
    BY DEF IInv, NetworkInv, RequestFits
  <2> QED
    BY <1>1, <1>2, <1>4, <2>1
<1> QED
  BY <1>2, <1>3, <1>4

LEMMA FailedRecord ==
  ASSUME NEW content, NEW key
  PROVE  [content |-> content, key |-> key] # NoFailed
<1>1. "key" \in DOMAIN [content |-> content, key |-> key] /\ "key" \notin DOMAIN NoFailed
  BY DEF NoFailed
<1> QED
  BY <1>1

LEMMA RequestFields ==
  ASSUME NEW kind, NEW e, NEW number, NEW key, NEW base, NEW content, NEW r,
         r = Request(kind, e, number, key, base, content)
  PROVE  /\ r.kind = kind /\ r.editor = e /\ r.number = number /\ r.key = key /\ r.base = base
         /\ r.content = content /\ r.open /\ r.phase = "sent" /\ r.input = draft
BY DEF Request

LEMMA FailedPage ==
  ASSUME NEW ed \in Pages, NEW failed \in [content : Contents, key : Keys] \cup {NoFailed}
  PROVE  [ed EXCEPT !.failed = failed] \in Pages
BY DEF Pages

LEMMA SavingPage ==
  ASSUME NEW ed \in Pages, NEW e, NEW content \in Contents, NEW key \in Keys
  PROVE  Saving(ed, e, content, key) \in Pages
<1>1. ed.number + 1 \in Nat
  BY DEF Pages
<1>2. PICK x : x = [ed EXCEPT !.number = ed.number + 1, !.status = "saving"]
  OBVIOUS
<1>3. PICK y : y = [x EXCEPT !.flight = "put"]
  OBVIOUS
<1>4. PICK z : z = [y EXCEPT !.armed = FALSE]
  OBVIOUS
<1>5. x \in Pages
  BY <1>1, <1>2 DEF Pages, AutosaveStatuses
<1>6. y \in Pages
  BY <1>3, <1>5 DEF Pages
<1>7. z \in Pages
  BY <1>4, <1>6 DEF Pages
<1>8. [z EXCEPT !.failed = [content |-> content, key |-> key]] \in Pages
  BY <1>7, FailedPage
<1>9. Saving(ed, e, content, key) = [z EXCEPT !.failed = [content |-> content, key |-> key]]
  BY <1>2, <1>3, <1>4 DEF Saving
<1> QED
  BY <1>8, <1>9

\* The page e, with no save in flight, saves a document under a new key, or the
\* document of a failed save under its key.
LEMMA SaveStep ==
  ASSUME IInv, NEW e \in Editors, NEW t \in Nat, NEW ed, ed = [editor[e] EXCEPT !.tries = t],
         ed.mode = "ready", ed.flight = "none", NEW content \in Contents, NEW key,
         Save(e, ed, content, key), moves' \in Nat,
         \/ key = NewKey(ed, e)
         \/ ed.failed # NoFailed /\ key = ed.failed.key /\ content = ed.failed.content
  PROVE  IInv'
<1> PICK new : new = Saving(ed, e, content, key)
  OBVIOUS
<1> PICK r : r = SaveRequest(ed, e, content, key)
  OBVIOUS
<1>1. editor[e] \in Pages /\ ed \in Pages
  <2>1. editor[e] \in Pages
    BY Typed
  <2> QED
    BY <2>1 DEF Pages
<1>2. /\ ed.number = editor[e].number /\ ed.acked = editor[e].acked /\ ed.failed = editor[e].failed
      /\ ed.task = editor[e].task /\ ed.taskOf = editor[e].taskOf /\ ed.mode = editor[e].mode
      /\ ed.flight = editor[e].flight /\ ed.doc = editor[e].doc /\ ed.shown = editor[e].shown
      /\ ed.project = editor[e].project
  BY <1>1 DEF Pages
<1>3. /\ editor' = [editor EXCEPT ![e] = new] /\ requests' = requests \cup {r}
      /\ UNCHANGED <<server, active, answers>>
  BY DEF Save
<1>4. PageFits(e, editor[e], draft, saves, requests)
  BY DEF IInv, PageInv
<1>5. key \in Keys /\ key[1] = e /\ key[2] <= ed.number + 1
  <2>1. CASE key = NewKey(ed, e)
    <3>1. ed.number \in Nat
      BY <1>1 DEF Pages
    <3> QED
      BY <1>2, <2>1, <3>1 DEF NewKey, Keys
  <2>2. CASE ed.failed # NoFailed /\ key = ed.failed.key
    <3>1. ed.failed \in [content : Contents, key : Keys] /\ ed.number \in Nat
      BY <1>1, <2>2 DEF Pages
    <3>2. key[1] = e /\ key[2] <= ed.number /\ key \in Keys
      BY <1>2, <1>4, <2>2, <3>1 DEF PageFits, FailedFits
    <3> QED
      BY <3>1, <3>2 DEF Keys
  <2> QED
    BY <2>1, <2>2
<1>6. /\ \A i \in DOMAIN saves : saves[i].key = key => saves[i].content = content
      /\ \A q \in requests : q.kind = "replace" /\ q.key = key =>
           q.content = content /\ q.base = ed.acked.version
  <2>1. CASE key = NewKey(ed, e)
    BY <1>2, <2>1, FreshKey DEF NewKey
  <2>2. CASE ed.failed # NoFailed /\ key = ed.failed.key /\ content = ed.failed.content
    BY <1>2, <1>4, <2>2 DEF PageFits, FailedFits
  <2> QED
    BY <2>1, <2>2
<1>7. /\ new.number = ed.number + 1 /\ new.status = "saving" /\ new.flight = "put" /\ new.armed = FALSE
      /\ new.failed = [content |-> content, key |-> key] /\ new.mode = ed.mode /\ new.doc = ed.doc
      /\ new.acked = ed.acked /\ new.task = ed.task /\ new.taskOf = ed.taskOf
      /\ new.shown = ed.shown /\ new.project = ed.project
  BY <1>1 DEF Saving, Pages
<1>8. new \in Pages
  BY <1>1, <1>5, SavingPage
<1>9. new.failed # NoFailed /\ new.failed.key = key /\ new.failed.content = content
  BY <1>7, FailedRecord
<1>10. /\ r.kind = "replace" /\ r.editor = e /\ r.key = key /\ r.base = ed.acked.version
       /\ r.content = content /\ r.open /\ r.phase = "sent" /\ r.input = draft
  BY RequestFields DEF SaveRequest
<1>11. r \in Requests
  <2>1. ed.number + 1 \in Nat /\ ed.acked.version \in Nat
    BY <1>1 DEF Pages
  <2> QED
    BY <1>5, <2>1, Typed DEF SaveRequest, Request, Requests, RequestKinds, Phases
<1>12. ed.acked.version \in DOMAIN saves /\ ed.acked.version <= draft.version
  <2>1. ed.acked.version \in DOMAIN saves
    BY <1>2, <1>4 DEF PageFits, PageStored
  <2>2. Len(saves) = draft.version
    BY DEF IInv, ServerInv, History
  <2> QED
    BY <2>1, <2>2, Typed, SavedEntry
<1>13. RequestFits(r, new, draft, saves)
  <2>1. Recorded(draft, saves)
    BY DEF IInv, ServerInv, History
  <2> QED
    BY <1>5, <1>7, <1>9, <1>10, <1>12, <2>1 DEF RequestFits, Awaits
<1>14. PageFits(e, new, draft, saves, requests \cup {r})
  <2>1. FailedFits(e, new, saves, requests \cup {r})
    BY <1>5, <1>6, <1>7, <1>9, <1>10 DEF FailedFits
  <2>2. PageShape(new)
    BY <1>2, <1>4, <1>7, <1>9 DEF PageFits, PageShape
  <2>3. PageStored(new, draft, saves)
    BY <1>2, <1>4, <1>7 DEF PageFits, PageStored
  <2> QED
    BY <2>1, <2>2, <2>3 DEF PageFits
<1>15. KeysAgree(requests \cup {r}, saves)
  BY <1>6, <1>10 DEF IInv, ServerInv, KeysAgree
<1>16. /\ \A q \in requests : q.open /\ q.editor = e => q.kind # "replace"
       /\ \A a \in answers : a.editor = e => a.kind # "replace"
  BY <1>2, NoSaveAwaited
<1>17. /\ \A q \in requests : q.open => ~SameLane(r, q)
       /\ \A a \in answers : ~SameLane(r, a)
  BY <1>10, <1>16 DEF SameLane
<1>18. ASSUME NEW q \in requests, q.open, q.editor = e
       PROVE  Awaits(new, q)
  <2>1. RequestFits(q, editor[e], draft, saves)
    BY <1>18 DEF IInv, NetworkInv
  <2> QED
    BY <1>2, <1>7, <1>16, <1>18, <2>1 DEF RequestFits, Awaits
<1>19. ASSUME NEW a \in answers, a.editor = e
       PROVE  AnswerFits(a, new, draft, saves)
  <2>1. AnswerFits(a, editor[e], draft, saves)
    BY <1>19 DEF IInv, NetworkInv
  <2> QED
    BY <1>2, <1>7, <1>16, <1>19, <2>1 DEF AnswerFits
<1>20. new.number >= editor[e].number
  <2>1. ed.number \in Nat
    BY <1>1 DEF Pages
  <2> QED
    BY <1>2, <1>7, <2>1
<1> QED
  BY <1>3, <1>8, <1>10, <1>11, <1>13, <1>14, <1>15, <1>17, <1>18, <1>19, <1>20, SendStep
-----------------------------------------------------------------------------
(* Handlers that send nothing.                                             *)

\* The page still waits for what it waited for.
KeepsWaiting(ed, new) ==
  /\ new.number = ed.number
  /\ ed.flight = "put" => new.flight = "put" /\ new.failed = ed.failed /\ new.acked = ed.acked
  /\ ed.task = "sent" => new.task = "sent" /\ new.taskOf = ed.taskOf

LEMMA StillAwaited ==
  ASSUME IInv, NEW e \in Editors, NEW new, KeepsWaiting(editor[e], new)
  PROVE  /\ \A r \in requests : r.open /\ r.editor = e => Awaits(new, r)
         /\ \A a \in answers : a.editor = e => AnswerFits(a, new, draft, saves)
<1>1. ASSUME NEW r \in requests, r.open, r.editor = e
      PROVE  Awaits(new, r)
  BY <1>1 DEF IInv, NetworkInv, RequestFits, Awaits, KeepsWaiting
<1>2. ASSUME NEW a \in answers, a.editor = e
      PROVE  AnswerFits(a, new, draft, saves)
  <2>1. AnswerFits(a, editor[e], draft, saves)
    BY <1>2 DEF IInv, NetworkInv
  <2> QED
    BY <2>1 DEF AnswerFits, KeepsWaiting, Missed
<1> QED
  BY <1>1, <1>2

LEMMA LocalStep ==
  ASSUME IInv, NEW e \in Editors, NEW new \in Pages,
         UNCHANGED <<server, active, network>>, moves' \in Nat,
         editor' = [editor EXCEPT ![e] = new], KeepsWaiting(editor[e], new),
         PageFits(e, new, draft, saves, requests)
  PROVE  IInv'
<1>1. requests' = requests /\ answers' = answers /\ UNCHANGED <<server, active>>
  BY DEF network
<1>2. \A r \in requests' : \E q \in requests : Older(r, q)
  BY <1>1 DEF Older
<1>3. new.number >= editor[e].number
  <2>1. editor[e].number \in Nat
    BY Typed DEF Pages
  <2> QED
    BY <2>1 DEF KeepsWaiting
<1> QED
  BY <1>1, <1>2, <1>3, StillAwaited, PageStep

LEMMA RenderedFits ==
  ASSUME NEW e, NEW mid \in Pages, NEW d, NEW s, NEW rs, mid.doc \in Contents, mid.mode = "ready",
         FailedFits(e, mid, s, rs), PageStored(mid, d, s),
         mid.flight # "none" => mid.status \in {"saving", "unsaved"},
         mid.flight = "put" \/ mid.status = "failed" => mid.failed # NoFailed
  PROVE  /\ Rendered(mid) \in Pages /\ PageFits(e, Rendered(mid), d, s, rs)
         /\ KeepsWaiting(mid, Rendered(mid))
<1> PICK new : new = Rendered(mid)
  OBVIOUS
<1>1. Rerendered(mid, new) /\ Autosaved(mid, new)
  BY RenderedFacts
<1>2. FailedFits(e, new, s, rs)
  BY <1>1 DEF FailedFits, Rerendered
<1>3. PageShape(new)
  <2>1. CASE mid.flight = "none"
    BY <1>1, <2>1 DEF PageShape, Rerendered, Autosaved
  <2>2. CASE mid.flight # "none"
    BY <1>1, <2>2 DEF PageShape, Rerendered, Autosaved
  <2> QED
    BY <2>1, <2>2
<1>4. PageStored(new, d, s)
  <2>1. new.status = "conflict" => mid.status = "conflict"
    BY <1>1 DEF Autosaved
  <2> QED
    BY <1>1, <2>1 DEF PageStored, Rerendered, Missed
<1>5. new \in Pages /\ KeepsWaiting(mid, new)
  BY <1>1 DEF Rerendered, KeepsWaiting
<1> QED
  BY <1>2, <1>3, <1>4, <1>5 DEF PageFits

LEMMA EndedPage ==
  ASSUME NEW ed \in Pages, NEW status \in AutosaveStatuses, NEW task \in TaskPhases
  PROVE  [ed EXCEPT !.flight = "none", !.status = status, !.task = task] \in Pages
<1> PICK x : x = [ed EXCEPT !.flight = "none", !.status = status]
  OBVIOUS
<1>1. x \in Pages
  BY DEF Pages
<1>2. [x EXCEPT !.task = task] \in Pages
  BY <1>1 DEF Pages
<1> QED
  BY <1>2

LEMMA AfterFlightFits ==
  ASSUME NEW e, NEW ed \in Pages, NEW d, NEW s, NEW rs, ed.doc \in Contents, ed.mode = "ready",
         NEW status \in {"saved", "unsaved", "conflict", "failed"}, NEW ok \in BOOLEAN,
         FailedFits(e, ed, s, rs), PageStored(ed, d, s),
         status = "conflict" => Missed(ed, d, s),
         status = "failed" => ed.failed # NoFailed,
         status = "saved" => ed.doc = ed.acked.content
  PROVE  /\ AfterFlight(ed, status, ok) \in Pages
         /\ PageFits(e, AfterFlight(ed, status, ok), d, s, rs)
         /\ AfterFlight(ed, status, ok).number = ed.number
         /\ ed.task = "sent" => /\ AfterFlight(ed, status, ok).task = "sent"
                                /\ AfterFlight(ed, status, ok).taskOf = ed.taskOf
<1> PICK task : task = IF ed.task = "flushing" /\ ~ok THEN "none" ELSE ed.task
  OBVIOUS
<1> PICK ended : ended = [ed EXCEPT !.flight = "none", !.status = status, !.task = task]
  OBVIOUS
<1>1. task \in TaskPhases /\ (task = ed.task \/ task = "none") /\ (ed.task = "sent" => task = "sent")
  BY DEF Pages, TaskPhases
<1>2. ended \in Pages
  BY <1>1, EndedPage DEF AutosaveStatuses
<1>3. /\ ended.mode = "ready" /\ ended.doc = ed.doc /\ ended.acked = ed.acked
      /\ ended.status = status /\ ended.number = ed.number /\ ended.flight = "none"
      /\ ended.failed = ed.failed /\ ended.project = ed.project /\ ended.task = task
      /\ ended.taskOf = ed.taskOf /\ ended.shown = ed.shown
  BY DEF Pages
<1>4. FailedFits(e, ended, s, rs)
  BY <1>3 DEF FailedFits
<1>5. PageStored(ended, d, s)
  BY <1>1, <1>3 DEF PageStored, Missed
<1>6. CASE status = "unsaved"
  <2>1. AfterFlight(ed, status, ok) = Rendered(ended)
    BY <1>6 DEF AfterFlight
  <2>2. /\ Rendered(ended) \in Pages /\ PageFits(e, Rendered(ended), d, s, rs)
        /\ KeepsWaiting(ended, Rendered(ended))
    BY <1>2, <1>3, <1>4, <1>5, <1>6, RenderedFits
  <2> QED
    BY <1>1, <1>3, <2>1, <2>2 DEF KeepsWaiting
<1>7. CASE status # "unsaved"
  <2>1. AfterFlight(ed, status, ok) = ended
    BY <1>7 DEF AfterFlight
  <2>2. PageShape(ended)
    BY <1>3, <1>7 DEF PageShape
  <2> QED
    BY <1>1, <1>2, <1>3, <1>4, <1>5, <2>1, <2>2 DEF PageFits
<1> QED
  BY <1>6, <1>7
-----------------------------------------------------------------------------
(* Users.                                                                  *)

LEMMA MoveFact ==
  ASSUME IInv, Move
  PROVE  moves' \in Nat
BY Typed DEF Move

LEMMA PageFact ==
  ASSUME IInv, NEW e \in Editors
  PROVE  /\ editor[e] \in Pages /\ PageFits(e, editor[e], draft, saves, requests)
         /\ editor[e].number \in Nat
BY Typed DEF IInv, PageInv, Pages

\* A ready page is edited and rendered again.
LEMMA EditedFits ==
  ASSUME IInv, NEW e \in Editors, editor[e].mode = "ready",
         NEW content \in Contents, NEW typed \in BOOLEAN, NEW mid,
         mid = [editor[e] EXCEPT !.doc = content, !.buffered = typed]
  PROVE  /\ Rendered(mid) \in Pages /\ PageFits(e, Rendered(mid), draft, saves, requests)
         /\ KeepsWaiting(editor[e], Rendered(mid))
<1>1. editor[e] \in Pages /\ PageFits(e, editor[e], draft, saves, requests)
  BY PageFact
<1>2. mid \in Pages /\ mid.doc = content
  BY <1>1 DEF Pages
<1>3. /\ mid.mode = "ready" /\ mid.acked = editor[e].acked /\ mid.status = editor[e].status
      /\ mid.number = editor[e].number /\ mid.flight = editor[e].flight
      /\ mid.failed = editor[e].failed /\ mid.task = editor[e].task
      /\ mid.taskOf = editor[e].taskOf /\ mid.shown = editor[e].shown
  BY <1>1 DEF Pages
<1>4. FailedFits(e, mid, saves, requests)
  BY <1>1, <1>3 DEF PageFits, FailedFits
<1>5. PageStored(mid, draft, saves)
  BY <1>1, <1>3 DEF PageFits, PageStored, Missed
<1>6. /\ mid.flight # "none" => mid.status \in {"saving", "unsaved"}
      /\ mid.flight = "put" \/ mid.status = "failed" => mid.failed # NoFailed
  BY <1>1, <1>3 DEF PageFits, PageShape
<1>7. /\ Rendered(mid) \in Pages /\ PageFits(e, Rendered(mid), draft, saves, requests)
      /\ KeepsWaiting(mid, Rendered(mid))
  BY <1>2, <1>3, <1>4, <1>5, <1>6, RenderedFits
<1> QED
  BY <1>3, <1>7 DEF KeepsWaiting

LEMMA EditKeeps ==
  ASSUME IInv, NEW e \in Editors, NEW content \in Contents, Edit(e, content)
  PROVE  IInv'
<1> PICK mid : mid = [editor[e] EXCEPT !.doc = content, !.buffered = FALSE]
  OBVIOUS
<1>1. editor' = [editor EXCEPT ![e] = Rendered(mid)]
  BY DEF Edit
<1>2. /\ Rendered(mid) \in Pages /\ PageFits(e, Rendered(mid), draft, saves, requests)
      /\ KeepsWaiting(editor[e], Rendered(mid))
  BY EditedFits DEF Edit, Runs
<1> QED
  BY <1>1, <1>2, LocalStep, MoveFact DEF Edit

LEMMA DocAsItIs ==
  ASSUME NEW ed \in Pages
  PROVE  [ed EXCEPT !.doc = ed.doc, !.buffered = TRUE] = [ed EXCEPT !.buffered = TRUE]
BY DEF Pages

LEMMA TypeKeeps ==
  ASSUME IInv, NEW e \in Editors, Type(e)
  PROVE  IInv'
<1> PICK mid : mid = [editor[e] EXCEPT !.doc = editor[e].doc, !.buffered = TRUE]
  OBVIOUS
<1>1. mid = [editor[e] EXCEPT !.buffered = TRUE]
  <2>1. editor[e] \in Pages
    BY PageFact
  <2>2. [editor[e] EXCEPT !.doc = editor[e].doc, !.buffered = TRUE]
          = [editor[e] EXCEPT !.buffered = TRUE]
    BY <2>1, DocAsItIs
  <2> QED
    BY <2>2
<1>2. editor' = [editor EXCEPT ![e] = Rendered(mid)]
  BY <1>1 DEF Type
<1>3. editor[e].doc \in Contents
  BY PageFact DEF Type, Runs, PageFits, PageShape
<1>4. /\ Rendered(mid) \in Pages /\ PageFits(e, Rendered(mid), draft, saves, requests)
      /\ KeepsWaiting(editor[e], Rendered(mid))
  BY <1>3, EditedFits DEF Type, Runs
<1> QED
  BY <1>2, <1>4, LocalStep, MoveFact DEF Type

LEMMA TriesAsTheyAre ==
  ASSUME NEW ed \in Pages
  PROVE  ed.tries \in Nat /\ ed = [ed EXCEPT !.tries = ed.tries]
BY DEF Pages

LEMMA RetryKeeps ==
  ASSUME IInv, NEW e \in Editors, Retry(e)
  PROVE  IInv'
<1>1. editor[e] \in Pages /\ PageFits(e, editor[e], draft, saves, requests)
  BY PageFact
<1>2. editor[e].mode = "ready" /\ editor[e].flight = "none" /\ editor[e].failed # NoFailed
  BY <1>1 DEF Retry, Runs, PageFits, PageShape
<1>3. editor[e].failed.content \in Contents
  BY <1>1, <1>2 DEF Pages
<1>4. Save(e, editor[e], editor[e].failed.content, editor[e].failed.key)
  BY DEF Retry
<1> QED
  BY <1>1, <1>2, <1>3, <1>4, TriesAsTheyAre, SaveStep, MoveFact DEF Retry

LEMMA StartedPage ==
  ASSUME NEW ed \in Pages, NEW kind \in {"validate", "calculate"}, NEW tries \in Nat
  PROVE  [ed EXCEPT !.task = "flushing", !.taskKind = kind, !.armed = FALSE, !.tries = tries]
           \in Pages
<1>1. PICK x : x = [ed EXCEPT !.task = "flushing"]
  OBVIOUS
<1>2. PICK y : y = [x EXCEPT !.taskKind = kind]
  OBVIOUS
<1>3. PICK z : z = [y EXCEPT !.armed = FALSE]
  OBVIOUS
<1>4. x \in Pages
  BY <1>1 DEF Pages, TaskPhases
<1>5. y \in Pages
  BY <1>2, <1>4 DEF Pages
<1>6. z \in Pages
  BY <1>3, <1>5 DEF Pages
<1>7. [z EXCEPT !.tries = tries] \in Pages
  BY <1>6 DEF Pages
<1> QED
  BY <1>1, <1>2, <1>3, <1>7

LEMMA StartTaskKeeps ==
  ASSUME IInv, NEW e \in Editors, NEW kind \in {"validate", "calculate"}, StartTask(e, kind)
  PROVE  IInv'
<1> PICK tries : tries = IF editor[e].flight = "none" THEN 0 ELSE 1
  OBVIOUS
<1> PICK new : new = [editor[e] EXCEPT !.task = "flushing", !.taskKind = kind, !.armed = FALSE,
                                       !.tries = tries]
  OBVIOUS
<1>1. editor[e] \in Pages /\ PageFits(e, editor[e], draft, saves, requests)
  BY PageFact
<1>2. editor' = [editor EXCEPT ![e] = new]
  BY DEF StartTask
<1>3. new \in Pages
  BY <1>1, StartedPage
<1>4. /\ new.mode = editor[e].mode /\ new.acked = editor[e].acked /\ new.doc = editor[e].doc
      /\ new.status = editor[e].status /\ new.project = editor[e].project
      /\ new.number = editor[e].number /\ new.flight = editor[e].flight
      /\ new.failed = editor[e].failed /\ new.shown = editor[e].shown
      /\ new.task = "flushing" /\ new.armed = FALSE
  BY <1>1 DEF Pages
<1>5. PageFits(e, new, draft, saves, requests)
  <2>1. FailedFits(e, new, saves, requests)
    BY <1>1, <1>4 DEF PageFits, FailedFits
  <2>2. PageShape(new)
    BY <1>1, <1>4 DEF PageFits, PageShape, StartTask, Runs
  <2>3. PageStored(new, draft, saves)
    BY <1>1, <1>4 DEF PageFits, PageStored, Missed
  <2> QED
    BY <2>1, <2>2, <2>3 DEF PageFits
<1>6. KeepsWaiting(editor[e], new)
  BY <1>4 DEF KeepsWaiting, StartTask
<1> QED
  BY <1>2, <1>3, <1>5, <1>6, LocalStep, MoveFact DEF StartTask

\* Requests that are given up stay as they were, or get lost.
LEMMA AbandonFacts ==
  ASSUME IInv, NEW gone, gone \subseteq requests, Abandon(gone)
  PROVE  /\ \A r \in requests' : \E q \in requests : Older(r, q)
         /\ \A r \in requests' : r.open => r \in requests /\ r \notin gone
<1>1. PICK lost \in SUBSET gone :
        requests' = (requests \ gone) \cup {[r EXCEPT !.open = FALSE] : r \in gone \ lost}
  BY DEF Abandon
<1>2. ASSUME NEW r \in requests'
      PROVE  /\ \E q \in requests : Older(r, q)
             /\ r.open => r \in requests /\ r \notin gone
  <2>1. CASE r \in requests \ gone
    BY <2>1 DEF Older
  <2>2. CASE r \in {[q EXCEPT !.open = FALSE] : q \in gone \ lost}
    <3>1. PICK q \in gone : r = [q EXCEPT !.open = FALSE]
      BY <2>2
    <3>2. q \in requests /\ q \in Requests
      BY Typed
    <3>3. r.open = FALSE
      BY <3>1, <3>2 DEF Requests
    <3> QED
      BY <3>1, <3>2, <3>3 DEF Older
  <2> QED
    BY <1>1, <2>1, <2>2
<1> QED
  BY <1>2

LEMMA BlankFacts ==
  ASSUME NEW ed, ed.number \in Nat
  PROVE  /\ Blank(ed) \in Pages /\ Blank(ed).mode = "loading" /\ Blank(ed).number = ed.number
         /\ Blank(ed).flight = "none" /\ Blank(ed).task = "none" /\ Blank(ed).status = "idle"
         /\ Blank(ed).failed = NoFailed /\ Blank(ed).armed = FALSE
         /\ Blank(ed).shown = NoCalculation
BY DEF Blank, Pages, Modes, AutosaveStatuses, TaskPhases, RequestKinds, Calculations

LEMMA ReloadKeeps ==
  ASSUME IInv, NEW e \in Editors, Reload(e)
  PROVE  IInv'
<1> PICK new : new = [Blank(editor[e]) EXCEPT !.number = @ + 1]
  OBVIOUS
<1>1. editor[e].number \in Nat /\ editor[e] \in Pages
  BY PageFact
<1>2. editor' = [editor EXCEPT ![e] = new]
  BY DEF Reload
<1> PICK blank : blank = Blank(editor[e])
  OBVIOUS
<1>3. /\ blank \in Pages /\ blank.mode = "loading" /\ blank.number = editor[e].number
      /\ blank.flight = "none" /\ blank.task = "none" /\ blank.status = "idle"
      /\ blank.failed = NoFailed /\ blank.armed = FALSE /\ blank.shown = NoCalculation
  BY <1>1, BlankFacts
<1>4. /\ new \in Pages /\ new.number = editor[e].number + 1
      /\ PageFits(e, new, draft, saves, requests)
  <2>1. new = [blank EXCEPT !.number = editor[e].number + 1]
    BY <1>3
  <2>2. /\ new \in Pages /\ new.number = editor[e].number + 1
        /\ new.mode = "loading" /\ new.flight = "none" /\ new.task = "none"
        /\ new.status = "idle" /\ new.failed = NoFailed /\ new.armed = FALSE
        /\ new.shown = NoCalculation
    BY <1>1, <1>3, <2>1 DEF Pages
  <2> QED
    BY <2>2 DEF PageFits, FailedFits, PageShape, PageStored
<1>5. /\ \A r \in requests' : \E q \in requests : Older(r, q)
      /\ \A r \in requests' : r.open => r.editor # e
  <2>1. OpenRequests(e) \subseteq requests
    BY DEF OpenRequests
  <2>2. /\ \A r \in requests' : \E q \in requests : Older(r, q)
        /\ \A r \in requests' : r.open => r \in requests /\ r \notin OpenRequests(e)
    BY <2>1, AbandonFacts DEF Reload
  <2> QED
    BY <2>2 DEF OpenRequests
<1>6. answers' \subseteq answers /\ \A a \in answers' : a.editor # e
  BY DEF Reload
<1>7. moves' \in Nat /\ UNCHANGED <<server, active>>
  BY MoveFact DEF Reload
<1>8. new.number >= editor[e].number
  BY <1>1, <1>4
<1> QED
  BY <1>2, <1>4, <1>5, <1>6, <1>7, <1>8, PageStep
-----------------------------------------------------------------------------
(* Loading.                                                                *)

LEMMA LoadFailsKeeps ==
  ASSUME IInv, NEW e \in Editors, LoadFails(e)
  PROVE  IInv'
<1> PICK new : new = [Blank(editor[e]) EXCEPT !.mode = "failed"]
  OBVIOUS
<1>1. editor[e].number \in Nat /\ PageFits(e, editor[e], draft, saves, requests)
  BY PageFact
<1> PICK blank : blank = Blank(editor[e])
  OBVIOUS
<1>2. /\ blank \in Pages /\ blank.number = editor[e].number
      /\ blank.flight = "none" /\ blank.task = "none" /\ blank.status = "idle"
      /\ blank.failed = NoFailed /\ blank.armed = FALSE /\ blank.shown = NoCalculation
  BY <1>1, BlankFacts
<1>3. /\ new \in Pages /\ new.number = editor[e].number
      /\ PageFits(e, new, draft, saves, requests)
  <2>1. /\ new \in Pages /\ new.number = editor[e].number
        /\ new.mode = "failed" /\ new.flight = "none" /\ new.task = "none"
        /\ new.status = "idle" /\ new.failed = NoFailed /\ new.armed = FALSE
        /\ new.shown = NoCalculation
    BY <1>1, <1>2 DEF Pages, Modes
  <2> QED
    BY <2>1 DEF PageFits, FailedFits, PageShape, PageStored
<1>4. KeepsWaiting(editor[e], new)
  BY <1>1, <1>3 DEF KeepsWaiting, LoadFails, PageFits, PageShape
<1> QED
  BY <1>3, <1>4, LocalStep, MoveFact DEF LoadFails

LEMMA ProjectArrivesKeeps ==
  ASSUME IInv, NEW e \in Editors, ProjectArrives(e)
  PROVE  IInv'
<1> PICK new : new = [editor[e] EXCEPT !.mode = "fetched", !.project = draft]
  OBVIOUS
<1>1. editor[e] \in Pages /\ PageFits(e, editor[e], draft, saves, requests)
  BY PageFact
<1>2. new \in Pages
  BY <1>1, Typed DEF Pages, Modes
<1>3. /\ new.mode = "fetched" /\ new.project = draft /\ new.acked = editor[e].acked
      /\ new.doc = editor[e].doc /\ new.armed = editor[e].armed
      /\ new.status = editor[e].status /\ new.number = editor[e].number
      /\ new.flight = editor[e].flight /\ new.failed = editor[e].failed
      /\ new.task = editor[e].task /\ new.taskOf = editor[e].taskOf
      /\ new.shown = editor[e].shown
  BY <1>1 DEF Pages
<1>4. PageFits(e, new, draft, saves, requests)
  <2>1. Recorded(draft, saves)
    BY DEF IInv, ServerInv, History
  <2>2. FailedFits(e, new, saves, requests)
    BY <1>1, <1>3 DEF PageFits, FailedFits
  <2>3. PageShape(new)
    BY <1>1, <1>3 DEF PageFits, PageShape, ProjectArrives
  <2>4. PageStored(new, draft, saves)
    BY <1>1, <1>3, <2>1 DEF PageFits, PageStored, Missed
  <2> QED
    BY <2>2, <2>3, <2>4 DEF PageFits
<1>5. KeepsWaiting(editor[e], new)
  BY <1>3 DEF KeepsWaiting
<1> QED
  BY <1>2, <1>4, <1>5, LocalStep, Typed DEF ProjectArrives

LEMMA ShownPage ==
  ASSUME NEW ed \in Pages, NEW shown \in Calculations
  PROVE  [ed EXCEPT !.shown = shown] \in Pages
BY DEF Pages

LEMMA LoadedPage ==
  ASSUME NEW ed \in Pages, NEW catalog \in Catalogs \cup {NoCatalog}, NEW project \in Drafts,
         NEW rebase \in BOOLEAN, NEW shown \in Calculations
  PROVE  [ed EXCEPT !.mode = "ready", !.catalog = catalog, !.doc = project.content,
                    !.acked = [version |-> project.version, content |-> project.content],
                    !.rebase = rebase, !.shown = shown] \in Pages
<1>1. PICK acked : acked = [version |-> project.version, content |-> project.content]
  OBVIOUS
<1>2. acked \in [version : Nat, content : Contents \cup {NoContent}] /\ project.content \in Contents
  BY <1>1 DEF Drafts
<1>3. PICK x : x = [ed EXCEPT !.mode = "ready", !.catalog = catalog]
  OBVIOUS
<1>4. PICK y : y = [x EXCEPT !.doc = project.content, !.acked = acked]
  OBVIOUS
<1>5. PICK z : z = [y EXCEPT !.rebase = rebase]
  OBVIOUS
<1>6. x \in Pages
  BY <1>3 DEF Pages, Modes
<1>7. y \in Pages
  BY <1>2, <1>4, <1>6 DEF Pages
<1>8. z \in Pages
  BY <1>5, <1>7 DEF Pages
<1>9. [z EXCEPT !.shown = shown] \in Pages
  BY <1>8, ShownPage
<1> QED
  BY <1>1, <1>3, <1>4, <1>5, <1>9

LEMMA LoadSettlesKeeps ==
  ASSUME IInv, NEW e \in Editors, NEW catalog \in Catalogs \cup {NoCatalog},
         LoadSettles(e, catalog), moves' \in Nat
  PROVE  IInv'
<1> PICK ed : ed = editor[e]
  OBVIOUS
<1> PICK rebase : rebase = (catalog # NoCatalog /\ ed.project.catalog # catalog)
  OBVIOUS
<1> PICK loaded : loaded = [ed EXCEPT !.mode = "ready", !.catalog = catalog,
      !.doc = ed.project.content,
      !.acked = [version |-> ed.project.version, content |-> ed.project.content],
      !.rebase = rebase, !.shown = calculated]
  OBVIOUS
<1>1. ed \in Pages /\ PageFits(e, ed, draft, saves, requests) /\ ed.mode = "fetched"
  BY PageFact DEF LoadSettles
<1>2. Recorded(ed.project, saves)
  BY <1>1 DEF PageFits, PageStored
<1>3. ed.project \in Drafts
  <2>1. ed.project.version # 0
    BY <1>2, Typed, SavedEntry DEF Recorded
  <2> QED
    BY <1>1, <2>1 DEF Pages, NoCalculation
<1>4. loaded \in Pages
  <2>1. rebase \in BOOLEAN /\ calculated \in Calculations
    BY Typed
  <2> QED
    BY <1>1, <1>3, <2>1, LoadedPage
<1>5. /\ loaded.mode = "ready" /\ loaded.doc = ed.project.content
      /\ loaded.acked = [version |-> ed.project.version, content |-> ed.project.content]
      /\ loaded.shown = calculated /\ loaded.status = ed.status /\ loaded.number = ed.number
      /\ loaded.flight = ed.flight /\ loaded.failed = ed.failed /\ loaded.task = ed.task
      /\ loaded.taskOf = ed.taskOf
  BY <1>1 DEF Pages
<1>6. /\ ed.flight = "none" /\ ed.task = "none" /\ ed.status = "idle" /\ ed.failed = NoFailed
  BY <1>1 DEF PageFits, PageShape
<1>7. editor' = [editor EXCEPT ![e] = Rendered(loaded)]
  BY DEF LoadSettles
<1>8. loaded.doc \in Contents
  BY <1>3, <1>5 DEF Drafts
<1>9. FailedFits(e, loaded, saves, requests)
  BY <1>5, <1>6 DEF FailedFits
<1>10. PageStored(loaded, draft, saves)
  <2>1. calculated = NoCalculation \/ Recorded(calculated, saves)
    BY DEF IInv, ServerInv, History
  <2> QED
    BY <1>2, <1>5, <1>6, <2>1 DEF PageStored, Recorded
<1>11. /\ Rendered(loaded) \in Pages /\ PageFits(e, Rendered(loaded), draft, saves, requests)
       /\ KeepsWaiting(loaded, Rendered(loaded))
  BY <1>4, <1>5, <1>6, <1>8, <1>9, <1>10, RenderedFits
<1>12. KeepsWaiting(editor[e], Rendered(loaded))
  BY <1>5, <1>6, <1>11 DEF KeepsWaiting
<1> QED
  BY <1>7, <1>11, <1>12, LocalStep DEF LoadSettles
-----------------------------------------------------------------------------
(* Autosave.                                                               *)

LEMMA TimerFiresKeeps ==
  ASSUME IInv, NEW e \in Editors, TimerFires(e)
  PROVE  IInv'
<1>1. editor[e] \in Pages /\ PageFits(e, editor[e], draft, saves, requests)
  BY PageFact
<1>2. editor[e].mode = "ready" /\ editor[e].flight = "none" /\ editor[e].doc \in Contents
  BY <1>1 DEF TimerFires, Runs, PageFits, PageShape
<1>3. Save(e, editor[e], editor[e].doc, NewKey(editor[e], e)) /\ moves' \in Nat
  BY Typed DEF TimerFires
<1> QED
  BY <1>1, <1>2, <1>3, TriesAsTheyAre, SaveStep

\* A task goes on as long as its page says so.
LEMMA TaskStillAwaited ==
  ASSUME IInv, NEW e \in Editors, NEW new,
         editor[e].task = "sent" => new.task = "sent" /\ new.taskOf = editor[e].taskOf
  PROVE  /\ \A r \in requests : r.open /\ r.editor = e /\ r.kind # "replace" => Awaits(new, r)
         /\ \A a \in answers : a.editor = e /\ a.kind # "replace" =>
              AnswerFits(a, new, draft, saves)
BY DEF IInv, NetworkInv, RequestFits, Awaits, AnswerFits

LEMMA SaveStillAwaited ==
  ASSUME IInv, NEW e \in Editors, NEW new,
         editor[e].flight = "put" =>
           new.flight = "put" /\ new.failed = editor[e].failed /\ new.acked = editor[e].acked
  PROVE  /\ \A r \in requests : r.open /\ r.editor = e /\ r.kind = "replace" => Awaits(new, r)
         /\ \A a \in answers : a.editor = e /\ a.kind = "replace" =>
              AnswerFits(a, new, draft, saves)
<1>1. ASSUME NEW r \in requests, r.open, r.editor = e, r.kind = "replace"
      PROVE  Awaits(new, r)
  BY <1>1 DEF IInv, NetworkInv, RequestFits, Awaits
<1>2. ASSUME NEW a \in answers, a.editor = e, a.kind = "replace"
      PROVE  AnswerFits(a, new, draft, saves)
  <2>1. AnswerFits(a, editor[e], draft, saves)
    BY <1>2 DEF IInv, NetworkInv
  <2> QED
    BY <1>2, <2>1 DEF AnswerFits, Missed
<1> QED
  BY <1>1, <1>2

\* The answer a was the only thing its page waited for in its lane.
LEMMA LastInLane ==
  ASSUME IInv, NEW a \in answers, answers' = answers \ {a}
  PROVE  /\ \A r \in requests : r.open => ~SameLane(r, a)
         /\ \A b \in answers' : b \in answers /\ ~SameLane(b, a)
BY DEF IInv, NetworkInv, Lanes

LEMMA UnchangedOlder ==
  ASSUME UNCHANGED requests
  PROVE  \A r \in requests' : \E q \in requests : Older(r, q)
BY DEF Older

LEMMA AcknowledgedPage ==
  ASSUME NEW ed \in Pages, NEW result \in Drafts, NEW content \in Contents
  PROVE  [ed EXCEPT !.flight = "catalog", !.project = result,
                    !.acked = [version |-> result.version, content |-> content],
                    !.failed = NoFailed] \in Pages
<1>1. PICK acked : acked = [version |-> result.version, content |-> content]
  OBVIOUS
<1>2. acked \in [version : Nat, content : Contents \cup {NoContent}]
  BY <1>1 DEF Drafts
<1>3. PICK x : x = [ed EXCEPT !.flight = "catalog", !.project = result]
  OBVIOUS
<1>4. PICK y : y = [x EXCEPT !.acked = acked]
  OBVIOUS
<1>5. x \in Pages
  BY <1>3 DEF Pages
<1>6. y \in Pages
  BY <1>2, <1>4, <1>5 DEF Pages
<1>7. [y EXCEPT !.failed = NoFailed] \in Pages
  BY <1>6, FailedPage
<1> QED
  BY <1>1, <1>3, <1>4, <1>7

\* A page whose save is answered.
LEMMA SavingFacts ==
  ASSUME IInv, NEW e \in Editors, NEW a \in answers, a.editor = e, a.kind = "replace"
  PROVE  /\ AnswerFits(a, editor[e], draft, saves) /\ a.result \in Drafts
         /\ editor[e].flight = "put" /\ editor[e].mode = "ready" /\ editor[e].doc \in Contents
         /\ editor[e].failed # NoFailed /\ editor[e].failed.content \in Contents
         /\ editor[e].status \in {"saving", "unsaved"}
<1>1. editor[e] \in Pages /\ PageFits(e, editor[e], draft, saves, requests)
  BY PageFact
<1>2. AnswerFits(a, editor[e], draft, saves) /\ a.result \in Drafts
  BY Typed DEF IInv, NetworkInv, Answers
<1>3. /\ editor[e].flight = "put" /\ editor[e].mode = "ready" /\ editor[e].doc \in Contents
      /\ editor[e].failed # NoFailed /\ editor[e].status \in {"saving", "unsaved"}
  BY <1>1, <1>2 DEF AnswerFits, PageFits, PageShape
<1>4. editor[e].failed.content \in Contents
  BY <1>1, <1>3 DEF Pages
<1> QED
  BY <1>2, <1>3, <1>4

LEMMA AcknowledgedFits ==
  ASSUME IInv, NEW e \in Editors, NEW a \in answers, a.editor = e, a.kind = "replace",
         a.code = "ok"
  PROVE  \E new \in Pages :
           /\ new = Rendered([editor[e] EXCEPT !.flight = "catalog", !.project = a.result,
                                               !.acked = Acknowledged(editor[e], a.result),
                                               !.failed = NoFailed])
           /\ PageFits(e, new, draft, saves, requests) /\ new.number = editor[e].number
           /\ editor[e].task = "sent" => new.task = "sent" /\ new.taskOf = editor[e].taskOf
<1> PICK ed : ed = editor[e]
  OBVIOUS
<1>1. PICK mid : mid = [ed EXCEPT !.flight = "catalog", !.project = a.result,
                 !.acked = [version |-> a.result.version, content |-> ed.failed.content],
                 !.failed = NoFailed]
  OBVIOUS
<1>2. ed \in Pages /\ PageFits(e, ed, draft, saves, requests)
  BY PageFact
<1>3. /\ AnswerFits(a, ed, draft, saves) /\ a.result \in Drafts
      /\ ed.flight = "put" /\ ed.mode = "ready" /\ ed.doc \in Contents
      /\ ed.failed.content \in Contents /\ ed.status \in {"saving", "unsaved"}
  BY SavingFacts
<1>4. mid \in Pages
  BY <1>2, <1>3, <1>1, AcknowledgedPage
<1>5. /\ mid.mode = "ready" /\ mid.doc = ed.doc /\ mid.number = ed.number
      /\ mid.acked = [version |-> a.result.version, content |-> ed.failed.content]
      /\ mid.flight = "catalog" /\ mid.failed = NoFailed /\ mid.status = ed.status
      /\ mid.task = ed.task /\ mid.taskOf = ed.taskOf /\ mid.shown = ed.shown
  BY <1>2, <1>3, <1>1 DEF Pages
<1>6. FailedFits(e, mid, saves, requests)
  BY <1>5 DEF FailedFits
<1>7. PageStored(mid, draft, saves)
  BY <1>2, <1>3, <1>5 DEF PageFits, PageStored, AnswerFits, Recorded
<1>8. /\ Rendered(mid) \in Pages /\ PageFits(e, Rendered(mid), draft, saves, requests)
      /\ KeepsWaiting(mid, Rendered(mid))
  BY <1>3, <1>4, <1>5, <1>6, <1>7, RenderedFits
<1>9. /\ Rendered(mid).number = ed.number
      /\ ed.task = "sent" => Rendered(mid).task = "sent" /\ Rendered(mid).taskOf = ed.taskOf
  BY <1>5, <1>8 DEF KeepsWaiting
<1>10. mid = [editor[e] EXCEPT !.flight = "catalog", !.project = a.result,
                               !.acked = Acknowledged(editor[e], a.result),
                               !.failed = NoFailed]
  BY <1>1 DEF Acknowledged
<1> QED
  BY <1>8, <1>9, <1>10

\* A save that has not gone through.
LEMMA UnsavedFits ==
  ASSUME IInv, NEW e \in Editors, NEW status \in {"conflict", "failed"},
         editor[e].flight = "put", status = "conflict" => Missed(editor[e], draft, saves)
  PROVE  /\ AfterFlight(editor[e], status, FALSE) \in Pages
         /\ PageFits(e, AfterFlight(editor[e], status, FALSE), draft, saves, requests)
         /\ AfterFlight(editor[e], status, FALSE).number = editor[e].number
         /\ editor[e].task = "sent" =>
              /\ AfterFlight(editor[e], status, FALSE).task = "sent"
              /\ AfterFlight(editor[e], status, FALSE).taskOf = editor[e].taskOf
<1>1. /\ editor[e] \in Pages /\ editor[e].mode = "ready" /\ editor[e].doc \in Contents
      /\ editor[e].failed # NoFailed /\ FailedFits(e, editor[e], saves, requests)
      /\ PageStored(editor[e], draft, saves)
  BY PageFact DEF PageFits, PageShape
<1>2. status \in {"saved", "unsaved", "conflict", "failed"} /\ status # "saved"
  OBVIOUS
<1>3. status = "failed" => editor[e].failed # NoFailed
  BY <1>1
<1>4. ASSUME NEW ok \in BOOLEAN
      PROVE  /\ AfterFlight(editor[e], status, ok) \in Pages
             /\ PageFits(e, AfterFlight(editor[e], status, ok), draft, saves, requests)
             /\ AfterFlight(editor[e], status, ok).number = editor[e].number
             /\ editor[e].task = "sent" =>
                  /\ AfterFlight(editor[e], status, ok).task = "sent"
                  /\ AfterFlight(editor[e], status, ok).taskOf = editor[e].taskOf
  BY <1>1, <1>2, <1>3, AfterFlightFits
<1> QED
  BY <1>4

LEMMA SaveAnsweredKeeps ==
  ASSUME IInv, NEW e \in Editors, NEW a \in answers, SaveAnswered(e, a)
  PROVE  IInv'
<1>1. /\ a.editor = e /\ a.kind = "replace" /\ answers' = answers \ {a}
      /\ UNCHANGED <<server, active, requests, moves>>
  BY DEF SaveAnswered
<1>2. AnswerFits(a, editor[e], draft, saves) /\ editor[e].flight = "put"
  BY <1>1, SavingFacts
<1>3. PICK new \in Pages :
        /\ editor' = [editor EXCEPT ![e] = new]
        /\ PageFits(e, new, draft, saves, requests) /\ new.number = editor[e].number
        /\ editor[e].task = "sent" => new.task = "sent" /\ new.taskOf = editor[e].taskOf
  <2>1. CASE a.code = "ok"
    <3>1. editor' = [editor EXCEPT ![e] =
            Rendered([editor[e] EXCEPT !.flight = "catalog", !.project = a.result,
                                       !.acked = Acknowledged(editor[e], a.result),
                                       !.failed = NoFailed])]
      BY <2>1 DEF SaveAnswered
    <3> QED
      BY <1>1, <2>1, <3>1, AcknowledgedFits
  <2>2. CASE a.code = "conflict"
    <3>1. editor' = [editor EXCEPT ![e] = AfterFlight(editor[e], "conflict", FALSE)]
      BY <2>2 DEF SaveAnswered
    <3>2. Missed(editor[e], draft, saves)
      BY <1>1, <1>2, <2>2 DEF AnswerFits
    <3> QED
      BY <1>2, <3>1, <3>2, UnsavedFits
  <2>3. CASE a.code \notin {"ok", "conflict"}
    <3>1. editor' = [editor EXCEPT ![e] = AfterFlight(editor[e], "failed", FALSE)]
      BY <2>3 DEF SaveAnswered
    <3> QED
      BY <1>2, <3>1, UnsavedFits
  <2> QED
    BY <2>1, <2>2, <2>3
<1>4. /\ \A r \in requests : r.open /\ r.editor = e => r.kind # "replace"
      /\ \A b \in answers' : b.editor = e => b \in answers /\ b.kind # "replace"
  BY <1>1, LastInLane DEF SameLane
<1>5. /\ \A r \in requests' : r.open /\ r.editor = e => Awaits(new, r)
      /\ \A b \in answers' : b.editor = e => AnswerFits(b, new, draft, saves)
  BY <1>1, <1>3, <1>4, TaskStillAwaited
<1>6. new.number >= editor[e].number
  BY <1>3, PageFact
<1> QED
  BY <1>1, <1>3, <1>5, <1>6, UnchangedOlder, Typed, PageStep

LEMMA SaveFailsKeeps ==
  ASSUME IInv, NEW e \in Editors, SaveFails(e)
  PROVE  IInv'
<1>1. PICK new : new = AfterFlight(editor[e], "failed", FALSE)
  OBVIOUS
<1>2. editor[e].flight = "put" /\ editor[e].number \in Nat
  BY PageFact DEF SaveFails
<1>3. /\ new \in Pages /\ PageFits(e, new, draft, saves, requests)
      /\ new.number = editor[e].number
      /\ editor[e].task = "sent" => new.task = "sent" /\ new.taskOf = editor[e].taskOf
  BY <1>1, <1>2, UnsavedFits
<1>4. editor' = [editor EXCEPT ![e] = new] /\ UNCHANGED <<server, active>> /\ moves' \in Nat
  BY <1>1, MoveFact DEF SaveFails
<1>5. /\ \A r \in requests' : \E q \in requests : Older(r, q)
      /\ \A r \in requests' : r.open /\ r.editor = e => r \in requests /\ r.kind # "replace"
  <2>1. PICK gone : gone = {r \in OpenRequests(e) : r.kind = "replace"}
    OBVIOUS
  <2>2. gone \subseteq requests /\ Abandon(gone)
    BY <2>1 DEF SaveFails, OpenRequests
  <2>3. /\ \A r \in requests' : \E q \in requests : Older(r, q)
        /\ \A r \in requests' : r.open => r \in requests /\ r \notin gone
    BY <2>2, AbandonFacts
  <2> QED
    BY <2>1, <2>3 DEF OpenRequests
<1>6. \A a \in answers' : a \in answers /\ (a.editor = e => a.kind # "replace")
  BY DEF SaveFails
<1>7. /\ \A r \in requests' : r.open /\ r.editor = e => Awaits(new, r)
      /\ \A a \in answers' : a.editor = e => AnswerFits(a, new, draft, saves)
  BY <1>3, <1>5, <1>6, TaskStillAwaited
<1>8. new.number >= editor[e].number /\ answers' \subseteq answers
  BY <1>2, <1>3, <1>6
<1> QED
  BY <1>3, <1>4, <1>5, <1>7, <1>8, PageStep

\* The catalog read of an acknowledged save ends.
LEMMA CatalogReadFits ==
  ASSUME IInv, NEW e \in Editors, editor[e].flight = "catalog",
         NEW catalog \in Catalogs \cup {NoCatalog}, NEW rebase \in BOOLEAN, NEW ok \in BOOLEAN
  PROVE  \E read \in Pages, status \in {"saved", "unsaved"} :
           /\ read = Reconciled([editor[e] EXCEPT !.catalog = catalog, !.rebase = rebase])
           /\ status = (IF Dirty(read) THEN "unsaved" ELSE "saved")
           /\ AfterFlight(read, status, ok) \in Pages
           /\ PageFits(e, AfterFlight(read, status, ok), draft, saves, requests)
           /\ KeepsWaiting(editor[e], AfterFlight(read, status, ok))
<1>1. PICK mid : mid = [editor[e] EXCEPT !.catalog = catalog, !.rebase = rebase]
  OBVIOUS
<1>2. PICK read : read = Reconciled(mid)
  OBVIOUS
<1>3. PICK status : status = (IF Dirty(read) THEN "unsaved" ELSE "saved")
  OBVIOUS
<1>4. /\ editor[e] \in Pages /\ editor[e].mode = "ready" /\ editor[e].doc \in Contents
      /\ FailedFits(e, editor[e], saves, requests) /\ PageStored(editor[e], draft, saves)
  BY PageFact DEF PageFits, PageShape
<1>5. /\ mid \in Pages /\ mid.mode = "ready" /\ mid.doc \in Contents
      /\ mid.failed = editor[e].failed /\ mid.acked = editor[e].acked
      /\ mid.number = editor[e].number /\ mid.task = editor[e].task
      /\ mid.taskOf = editor[e].taskOf /\ mid.shown = editor[e].shown
      /\ mid.status = editor[e].status
  BY <1>1, <1>4 DEF Pages
<1>6. Rerendered(mid, read) /\ read.status = mid.status
  BY <1>2, <1>5, ReconciledFacts
<1>7. /\ read \in Pages /\ read.mode = "ready" /\ read.doc \in Contents
      /\ read.failed = editor[e].failed /\ read.acked = editor[e].acked
      /\ read.number = editor[e].number /\ read.task = editor[e].task
      /\ read.taskOf = editor[e].taskOf /\ read.shown = editor[e].shown
      /\ read.status = editor[e].status
  BY <1>5, <1>6 DEF Rerendered
<1>8. FailedFits(e, read, saves, requests)
  BY <1>4, <1>7 DEF FailedFits
<1>9. PageStored(read, draft, saves)
  BY <1>4, <1>7 DEF PageStored, Missed
<1>10. /\ status \in {"saved", "unsaved"} /\ status # "conflict" /\ status # "failed"
       /\ status = "saved" => read.doc = read.acked.content
  BY <1>3 DEF Dirty
<1>11. /\ AfterFlight(read, status, ok) \in Pages
       /\ PageFits(e, AfterFlight(read, status, ok), draft, saves, requests)
       /\ AfterFlight(read, status, ok).number = read.number
       /\ read.task = "sent" => /\ AfterFlight(read, status, ok).task = "sent"
                                /\ AfterFlight(read, status, ok).taskOf = read.taskOf
  BY <1>7, <1>8, <1>9, <1>10, AfterFlightFits
<1>12. KeepsWaiting(editor[e], AfterFlight(read, status, ok))
  BY <1>7, <1>11 DEF KeepsWaiting
<1> QED
  BY <1>1, <1>2, <1>3, <1>7, <1>10, <1>11, <1>12

LEMMA CatalogArrivesKeeps ==
  ASSUME IInv, NEW e \in Editors, CatalogArrives(e)
  PROVE  IInv'
<1>1. PICK rebase \in BOOLEAN : rebase = (editor[e].project.catalog # active)
  OBVIOUS
<1>2. active \in Catalogs \cup {NoCatalog} /\ TRUE \in BOOLEAN
  BY Typed
<1>3. PICK read \in Pages, status \in {"saved", "unsaved"} :
        /\ read = Reconciled([editor[e] EXCEPT !.catalog = active, !.rebase = rebase])
        /\ status = (IF Dirty(read) THEN "unsaved" ELSE "saved")
        /\ AfterFlight(read, status, TRUE) \in Pages
        /\ PageFits(e, AfterFlight(read, status, TRUE), draft, saves, requests)
        /\ KeepsWaiting(editor[e], AfterFlight(read, status, TRUE))
  BY <1>2, CatalogReadFits DEF CatalogArrives
<1>4. editor' = [editor EXCEPT ![e] = AfterFlight(read, status, TRUE)]
  BY <1>1, <1>3 DEF CatalogArrives
<1> QED
  BY <1>3, <1>4, LocalStep, Typed DEF CatalogArrives

LEMMA UnreconciledFact ==
  ASSUME NEW ed, ed.catalog = NoCatalog
  PROVE  Reconciled(ed) = ed
BY DEF Reconciled

LEMMA CatalogFailsKeeps ==
  ASSUME IInv, NEW e \in Editors, CatalogFails(e)
  PROVE  IInv'
<1>1. NoCatalog \in Catalogs \cup {NoCatalog} /\ FALSE \in BOOLEAN
  OBVIOUS
<1>2. PICK read \in Pages, status \in {"saved", "unsaved"} :
        /\ read = Reconciled([editor[e] EXCEPT !.catalog = NoCatalog, !.rebase = FALSE])
        /\ status = (IF Dirty(read) THEN "unsaved" ELSE "saved")
        /\ AfterFlight(read, status, FALSE) \in Pages
        /\ PageFits(e, AfterFlight(read, status, FALSE), draft, saves, requests)
        /\ KeepsWaiting(editor[e], AfterFlight(read, status, FALSE))
  BY <1>1, CatalogReadFits DEF CatalogFails
<1>3. read = [editor[e] EXCEPT !.catalog = NoCatalog, !.rebase = FALSE]
  <2>1. [editor[e] EXCEPT !.catalog = NoCatalog, !.rebase = FALSE].catalog = NoCatalog
    BY PageFact DEF Pages
  <2> QED
    BY <1>2, <2>1, UnreconciledFact
<1>4. editor' = [editor EXCEPT ![e] = AfterFlight(read, status, FALSE)]
  BY <1>2, <1>3 DEF CatalogFails
<1> QED
  BY <1>2, <1>4, LocalStep, MoveFact DEF CatalogFails
-----------------------------------------------------------------------------
(* Calculation and validation.                                             *)

LEMMA JudgeConflictKeeps ==
  ASSUME IInv, NEW e \in Editors, JudgeConflict(e)
  PROVE  IInv'
<1>1. PICK ed : ed = editor[e]
  OBVIOUS
<1>2. PICK status : status = IF ed.failed = NoFailed /\ ed.taskOf.version = ed.acked.version
                             THEN "conflict" ELSE ed.status
  OBVIOUS
<1>3. PICK new : new = [ed EXCEPT !.task = "none", !.status = status]
  OBVIOUS
<1>4. editor' = [editor EXCEPT ![e] = new] /\ ed.task = "superseded" /\ ed.flight = "none"
  BY <1>1, <1>2, <1>3 DEF JudgeConflict
<1>5. ed \in Pages /\ PageFits(e, ed, draft, saves, requests)
  BY <1>1, PageFact
<1>6. status \in AutosaveStatuses
  BY <1>2, <1>5 DEF Pages, AutosaveStatuses
<1>7. /\ new \in Pages /\ new.mode = ed.mode /\ new.doc = ed.doc /\ new.acked = ed.acked
      /\ new.status = status /\ new.number = ed.number /\ new.flight = "none"
      /\ new.failed = ed.failed /\ new.armed = ed.armed /\ new.project = ed.project
      /\ new.task = "none" /\ new.taskOf = ed.taskOf /\ new.shown = ed.shown
  BY <1>3, <1>4, <1>5, <1>6 DEF Pages, TaskPhases
<1>8. ed.mode = "ready" /\ draft.version > ed.taskOf.version
  BY <1>4, <1>5 DEF PageFits, PageShape, PageStored
<1>9. FailedFits(e, new, saves, requests)
  BY <1>5, <1>7 DEF PageFits, FailedFits
<1>10. PageShape(new)
  BY <1>2, <1>5, <1>7, <1>8 DEF PageFits, PageShape
<1>11. status = "conflict" => Missed(new, draft, saves)
  <2>1. CASE ed.failed = NoFailed /\ ed.taskOf.version = ed.acked.version
    BY <1>7, <1>8, <2>1 DEF Missed
  <2>2. CASE ~(ed.failed = NoFailed /\ ed.taskOf.version = ed.acked.version)
    BY <1>2, <1>5, <1>7, <2>2 DEF Missed, PageFits, PageStored
  <2> QED
    BY <2>1, <2>2
<1>12. PageStored(new, draft, saves)
  BY <1>5, <1>7, <1>8, <1>11 DEF PageFits, PageStored
<1>13. KeepsWaiting(editor[e], new)
  BY <1>1, <1>4, <1>7 DEF KeepsWaiting
<1> QED
  BY <1>4, <1>7, <1>9, <1>10, <1>12, <1>13, LocalStep, Typed DEF JudgeConflict, PageFits

\* The task of a page is over, or waits for a save in flight.
LEMMA TaskEndedFits ==
  ASSUME IInv, NEW e \in Editors, NEW task \in {"none", "superseded"},
         task = "superseded" => draft.version > editor[e].taskOf.version,
         editor[e].task # "none"
  PROVE  \E new \in Pages :
           /\ new = [editor[e] EXCEPT !.task = task]
           /\ PageFits(e, new, draft, saves, requests) /\ new.number = editor[e].number
           /\ new.mode = "ready" /\ new.doc \in Contents /\ new.task = task
           /\ new.flight = editor[e].flight /\ new.failed = editor[e].failed
           /\ new.acked = editor[e].acked
<1>1. PICK new : new = [editor[e] EXCEPT !.task = task]
  OBVIOUS
<1>2. editor[e] \in Pages /\ PageFits(e, editor[e], draft, saves, requests)
  BY PageFact
<1>3. /\ new \in Pages /\ new.mode = editor[e].mode /\ new.doc = editor[e].doc
      /\ new.acked = editor[e].acked /\ new.status = editor[e].status
      /\ new.number = editor[e].number /\ new.flight = editor[e].flight
      /\ new.failed = editor[e].failed /\ new.armed = editor[e].armed
      /\ new.project = editor[e].project /\ new.task = task
      /\ new.taskOf = editor[e].taskOf /\ new.shown = editor[e].shown
  BY <1>1, <1>2 DEF Pages, TaskPhases
<1>4. editor[e].mode = "ready" /\ editor[e].doc \in Contents
  BY <1>2 DEF PageFits, PageShape
<1>5. FailedFits(e, new, saves, requests)
  BY <1>2, <1>3 DEF PageFits, FailedFits
<1>6. PageShape(new)
  BY <1>2, <1>3, <1>4 DEF PageFits, PageShape
<1>7. PageStored(new, draft, saves)
  BY <1>2, <1>3 DEF PageFits, PageStored, Missed
<1> QED
  BY <1>1, <1>3, <1>4, <1>5, <1>6, <1>7 DEF PageFits

LEMMA TaskFailsKeeps ==
  ASSUME IInv, NEW e \in Editors, TaskFails(e)
  PROVE  IInv'
<1>1. PICK new \in Pages :
        /\ new = [editor[e] EXCEPT !.task = "none"]
        /\ PageFits(e, new, draft, saves, requests) /\ new.number = editor[e].number
        /\ new.flight = editor[e].flight /\ new.failed = editor[e].failed
        /\ new.acked = editor[e].acked
  BY TaskEndedFits DEF TaskFails
<1>2. editor' = [editor EXCEPT ![e] = new] /\ UNCHANGED <<server, active>> /\ moves' \in Nat
  BY <1>1, MoveFact DEF TaskFails
<1>3. /\ \A r \in requests' : \E q \in requests : Older(r, q)
      /\ \A r \in requests' : r.open /\ r.editor = e => r \in requests /\ r.kind = "replace"
  <2>1. PICK gone : gone = {r \in OpenRequests(e) : r.kind # "replace"}
    OBVIOUS
  <2>2. gone \subseteq requests /\ Abandon(gone)
    BY <2>1 DEF TaskFails, OpenRequests
  <2>3. /\ \A r \in requests' : \E q \in requests : Older(r, q)
        /\ \A r \in requests' : r.open => r \in requests /\ r \notin gone
    BY <2>2, AbandonFacts
  <2> QED
    BY <2>1, <2>3 DEF OpenRequests
<1>4. \A a \in answers' : a \in answers /\ (a.editor = e => a.kind = "replace")
  BY DEF TaskFails
<1>5. /\ \A r \in requests' : r.open /\ r.editor = e => Awaits(new, r)
      /\ \A a \in answers' : a.editor = e => AnswerFits(a, new, draft, saves)
  BY <1>1, <1>3, <1>4, SaveStillAwaited
<1>6. new.number >= editor[e].number /\ answers' \subseteq answers
  BY <1>1, <1>4, PageFact
<1> QED
  BY <1>1, <1>2, <1>3, <1>5, <1>6, PageStep

LEMMA RebaseFits ==
  ASSUME NEW e, NEW done \in Pages, done.mode = "ready", done.doc \in Contents,
         NEW d, NEW s, NEW rs, PageFits(e, done, d, s, rs)
  PROVE  \E new \in Pages :
           /\ new = RequestRebase(done)
           /\ PageFits(e, new, d, s, rs) /\ new.number = done.number
           /\ done.flight = "put" =>
                new.flight = "put" /\ new.failed = done.failed /\ new.acked = done.acked
<1>1. PICK wanted : wanted = [done EXCEPT !.rebase = TRUE]
  OBVIOUS
<1>2. PICK mid : mid = [wanted EXCEPT !.status = "unsaved"]
  OBVIOUS
<1>3. /\ wanted \in Pages /\ wanted.mode = "ready" /\ wanted.doc = done.doc
      /\ wanted.acked = done.acked /\ wanted.status = done.status
      /\ wanted.number = done.number /\ wanted.flight = done.flight
      /\ wanted.failed = done.failed /\ wanted.armed = done.armed
      /\ wanted.project = done.project /\ wanted.task = done.task
      /\ wanted.taskOf = done.taskOf /\ wanted.shown = done.shown
  BY <1>1 DEF Pages
<1>4. /\ mid \in Pages /\ mid.mode = "ready" /\ mid.doc = done.doc
      /\ mid.acked = done.acked /\ mid.status = "unsaved"
      /\ mid.number = done.number /\ mid.flight = done.flight
      /\ mid.failed = done.failed /\ mid.task = done.task
      /\ mid.taskOf = done.taskOf /\ mid.shown = done.shown
  BY <1>2, <1>3 DEF Pages, AutosaveStatuses
<1>5. CASE wanted = RequestRebase(done)
  <2>1. FailedFits(e, wanted, s, rs)
    BY <1>3 DEF PageFits, FailedFits
  <2>2. PageShape(wanted)
    BY <1>3 DEF PageFits, PageShape
  <2>3. PageStored(wanted, d, s)
    BY <1>3 DEF PageFits, PageStored, Missed
  <2> QED
    BY <1>3, <1>5, <2>1, <2>2, <2>3 DEF PageFits
<1>6. CASE Rendered(mid) = RequestRebase(done)
  <2>1. FailedFits(e, mid, s, rs)
    BY <1>4 DEF PageFits, FailedFits
  <2>2. PageStored(mid, d, s)
    BY <1>4 DEF PageFits, PageStored
  <2>3. mid.flight = "put" => mid.failed # NoFailed
    BY <1>4 DEF PageFits, PageShape
  <2>4. /\ Rendered(mid) \in Pages /\ PageFits(e, Rendered(mid), d, s, rs)
        /\ KeepsWaiting(mid, Rendered(mid))
    BY <1>4, <2>1, <2>2, <2>3, RenderedFits
  <2> QED
    BY <1>4, <1>6, <2>4 DEF KeepsWaiting
<1> QED
  BY <1>1, <1>2, <1>5, <1>6 DEF RequestRebase

\* A result on display.
LEMMA ResultFits ==
  ASSUME IInv, NEW e \in Editors, NEW done \in Pages, PageFits(e, done, draft, saves, requests),
         NEW result \in Drafts, Recorded(result, saves)
  PROVE  \E new \in Pages :
           /\ new = [done EXCEPT !.shown = result]
           /\ PageFits(e, new, draft, saves, requests) /\ new.number = done.number
           /\ new.flight = done.flight /\ new.failed = done.failed /\ new.acked = done.acked
<1>1. PICK new : new = [done EXCEPT !.shown = result]
  OBVIOUS
<1>2. new \in Pages
  BY <1>1, ShownPage DEF Calculations
<1>3. /\ new.mode = done.mode /\ new.doc = done.doc
      /\ new.acked = done.acked /\ new.status = done.status
      /\ new.number = done.number /\ new.flight = done.flight
      /\ new.failed = done.failed /\ new.armed = done.armed
      /\ new.project = done.project /\ new.task = done.task
      /\ new.taskOf = done.taskOf /\ new.shown = result
  BY <1>1 DEF Pages
<1>4. FailedFits(e, new, saves, requests)
  BY <1>3 DEF PageFits, FailedFits
<1>5. PageShape(new)
  BY <1>3 DEF PageFits, PageShape
<1>6. PageStored(new, draft, saves)
  BY <1>3 DEF PageFits, PageStored, Missed
<1> QED
  BY <1>1, <1>2, <1>3, <1>4, <1>5, <1>6 DEF PageFits

LEMMA TaskAnsweredKeeps ==
  ASSUME IInv, NEW e \in Editors, NEW a \in answers, TaskAnswered(e, a)
  PROVE  IInv'
<1>1. /\ a.editor = e /\ a.kind # "replace" /\ a.kind \in {"validate", "calculate"}
      /\ answers' = answers \ {a} /\ UNCHANGED <<server, active, requests, moves>>
  BY DEF TaskAnswered
<1>2. AnswerFits(a, editor[e], draft, saves) /\ a.result \in Drafts
  BY <1>1, Typed DEF IInv, NetworkInv, Answers
<1>3. editor[e].task = "sent" /\ Recorded(a.result, saves)
  BY <1>1, <1>2 DEF AnswerFits
<1>4. PICK done \in Pages :
        /\ done = [editor[e] EXCEPT !.task = "none"]
        /\ PageFits(e, done, draft, saves, requests) /\ done.number = editor[e].number
        /\ done.mode = "ready" /\ done.doc \in Contents
        /\ done.flight = editor[e].flight /\ done.failed = editor[e].failed
        /\ done.acked = editor[e].acked
  BY <1>3, TaskEndedFits
<1>5. PICK new \in Pages :
        /\ editor' = [editor EXCEPT ![e] = new]
        /\ PageFits(e, new, draft, saves, requests) /\ new.number = editor[e].number
        /\ editor[e].flight = "put" =>
             new.flight = "put" /\ new.failed = editor[e].failed /\ new.acked = editor[e].acked
  <2>1. CASE a.code = "ok" /\ a.kind = "calculate"
    <3>1. editor' = [editor EXCEPT ![e] = [done EXCEPT !.shown = a.result]]
      BY <1>4, <2>1 DEF TaskAnswered
    <3>2. PICK new \in Pages :
            /\ new = [done EXCEPT !.shown = a.result]
            /\ PageFits(e, new, draft, saves, requests) /\ new.number = done.number
            /\ new.flight = done.flight /\ new.failed = done.failed /\ new.acked = done.acked
      <4>1. PageFits(e, done, draft, saves, requests)
        BY <1>4
      <4>2. a.result \in Drafts /\ Recorded(a.result, saves)
        BY <1>2, <1>3
      <4> QED
        BY <4>1, <4>2, ResultFits
    <3> QED
      BY <1>4, <3>1, <3>2
  <2>2. CASE a.code = "ok" /\ a.kind # "calculate"
    <3>1. editor' = [editor EXCEPT ![e] = done]
      BY <1>4, <2>2 DEF TaskAnswered
    <3> QED
      BY <1>4, <3>1
  <2>3. CASE a.code = "conflict" /\ a.kind = "calculate"
    <3>1. editor' = [editor EXCEPT ![e] = [editor[e] EXCEPT !.task = "superseded"]]
      BY <2>3 DEF TaskAnswered, TaskRefused
    <3>2. draft.version > editor[e].taskOf.version
      BY <1>1, <1>2, <2>3 DEF AnswerFits
    <3>3. PICK new \in Pages :
            /\ new = [editor[e] EXCEPT !.task = "superseded"]
            /\ PageFits(e, new, draft, saves, requests) /\ new.number = editor[e].number
            /\ new.flight = editor[e].flight /\ new.failed = editor[e].failed
            /\ new.acked = editor[e].acked
      BY <1>3, <3>2, TaskEndedFits
    <3> QED
      BY <3>1, <3>3
  <2>4. CASE a.code = "noSnapshot"
    <3>1. editor' = [editor EXCEPT ![e] = RequestRebase(done)]
      BY <1>4, <2>4 DEF TaskAnswered, TaskRefused
    <3>2. PICK new \in Pages :
            /\ new = RequestRebase(done)
            /\ PageFits(e, new, draft, saves, requests) /\ new.number = done.number
            /\ done.flight = "put" =>
                 new.flight = "put" /\ new.failed = done.failed /\ new.acked = done.acked
      <4>1. done.mode = "ready" /\ done.doc \in Contents /\ PageFits(e, done, draft, saves, requests)
        BY <1>4
      <4> QED
        BY <4>1, RebaseFits
    <3> QED
      BY <1>4, <3>1, <3>2
  <2>5. CASE a.code \notin {"ok", "noSnapshot"} /\ ~(a.code = "conflict" /\ a.kind = "calculate")
    <3>1. editor' = [editor EXCEPT ![e] = done]
      BY <1>4, <2>5 DEF TaskAnswered, TaskRefused
    <3> QED
      BY <1>4, <3>1
  <2> QED
    BY <2>1, <2>2, <2>3, <2>4, <2>5
<1>6. /\ \A r \in requests : r.open /\ r.editor = e => r.kind = "replace"
      /\ \A b \in answers' : b.editor = e => b \in answers /\ b.kind = "replace"
  BY <1>1, LastInLane DEF SameLane
<1>7. /\ \A r \in requests' : r.open /\ r.editor = e => Awaits(new, r)
      /\ \A b \in answers' : b.editor = e => AnswerFits(b, new, draft, saves)
  BY <1>1, <1>5, <1>6, SaveStillAwaited
<1>8. new.number >= editor[e].number
  BY <1>5, PageFact
<1> QED
  BY <1>1, <1>5, <1>7, <1>8, UnchangedOlder, Typed, PageStep

\* The request of a task, once everything is saved.
LEMMA SendTaskKeeps ==
  ASSUME IInv, NEW e \in Editors, editor[e].mode = "ready", editor[e].task = "flushing",
         editor[e].flight = "none", UNCHANGED <<server, active, answers>>, moves' \in Nat,
         editor' = [editor EXCEPT ![e] =
           [editor[e] EXCEPT !.task = "sent", !.taskOf = editor[e].acked, !.number = @ + 1]],
         requests' = requests \cup
           {Request(editor[e].taskKind, e, editor[e].number + 1, NewKey(editor[e], e),
                    editor[e].acked.version, editor[e].acked.content)}
  PROVE  IInv'
<1>1. PICK ed : ed = editor[e]
  OBVIOUS
<1>2. PICK new : new = [ed EXCEPT !.task = "sent", !.taskOf = ed.acked, !.number = ed.number + 1]
  OBVIOUS
<1>3. PICK key : key = <<e, editor[e].number + 1>>
  OBVIOUS
<1>4. PICK r : r = Request(ed.taskKind, e, ed.number + 1, key, ed.acked.version, ed.acked.content)
  OBVIOUS
<1>5. editor' = [editor EXCEPT ![e] = new] /\ requests' = requests \cup {r}
  BY <1>1, <1>2, <1>3, <1>4 DEF NewKey
<1>6. ed \in Pages /\ PageFits(e, ed, draft, saves, requests) /\ ed.number \in Nat
  BY <1>1, PageFact
<1>7. /\ new \in Pages /\ new.mode = "ready" /\ new.doc = ed.doc /\ new.acked = ed.acked
      /\ new.status = ed.status /\ new.number = ed.number + 1 /\ new.flight = "none"
      /\ new.failed = ed.failed /\ new.armed = ed.armed /\ new.project = ed.project
      /\ new.task = "sent" /\ new.taskOf = ed.acked /\ new.shown = ed.shown
  <2>1. ed.mode = "ready" /\ ed.flight = "none" /\ ed.number + 1 \in Nat
    BY <1>1, <1>6
  <2>2. ed.acked \in [version : Nat, content : Contents \cup {NoContent}]
    BY <1>6 DEF Pages
  <2>3. new \in Pages
    BY <1>2, <1>6, <2>1, <2>2 DEF Pages, TaskPhases
  <2> QED
    BY <1>2, <1>6, <2>1, <2>3 DEF Pages
<1>8. /\ key \in Keys /\ key[1] = e /\ key[2] = ed.number + 1
      /\ \A i \in DOMAIN saves : saves[i].key # key
      /\ \A q \in requests : q.key # key
  BY <1>1, <1>3, FreshKey
<1>9. /\ r.kind = ed.taskKind /\ r.editor = e /\ r.key = key /\ r.base = ed.acked.version
      /\ r.content = ed.acked.content /\ r.open /\ r.phase = "sent" /\ r.input = draft
  BY <1>4, RequestFields
<1>10. r.kind \in {"validate", "calculate"} /\ r.kind # "replace"
  BY <1>6, <1>9 DEF Pages
<1>11. /\ ed.acked.version \in DOMAIN saves /\ ed.acked.version <= draft.version
       /\ ed.acked.content \in Contents /\ ed.acked.version \in Nat
  <2>1. ed.acked.version \in DOMAIN saves /\ saves[ed.acked.version].content = ed.acked.content
    BY <1>1, <1>6 DEF PageFits, PageStored
  <2>2. Len(saves) = draft.version
    BY DEF IInv, ServerInv, History
  <2>3. saves[ed.acked.version] \in Saves /\ ed.acked.version \in 1..Len(saves)
    BY <2>1, Typed, SavedEntry
  <2> QED
    BY <2>1, <2>2, <2>3 DEF Saves
<1>12. r \in Requests
  <2>1. ed.number + 1 \in Nat /\ ed.taskKind \in RequestKinds /\ "sent" \in Phases
    BY <1>6, <1>9, <1>10 DEF RequestKinds, Phases
  <2> QED
    BY <1>4, <1>8, <1>11, <2>1, Typed DEF Request, Requests
<1>13. RequestFits(r, new, draft, saves)
  <2>1. Recorded(draft, saves)
    BY DEF IInv, ServerInv, History
  <2>2. key[2] <= new.number
    BY <1>6, <1>7, <1>8
  <2> QED
    BY <1>7, <1>8, <1>9, <1>10, <1>11, <2>1, <2>2 DEF RequestFits, Awaits
<1>14. PageFits(e, new, draft, saves, requests \cup {r})
  <2>1. FailedFits(e, new, saves, requests \cup {r})
    <3>1. ed.failed # NoFailed => ed.failed.key[2] <= new.number
      <4>1. SUFFICES ASSUME ed.failed # NoFailed
                     PROVE  ed.failed.key[2] <= new.number
        OBVIOUS
      <4>2. ed.failed.key \in Keys /\ ed.failed.key[2] <= ed.number
        BY <1>6, <4>1 DEF Pages, PageFits, FailedFits
      <4>3. ed.failed.key[2] \in Nat
        BY <4>2 DEF Keys
      <4> QED
        BY <1>6, <1>7, <4>2, <4>3
    <3> QED
      BY <1>6, <1>7, <1>10, <3>1 DEF PageFits, FailedFits
  <2>2. PageShape(new)
    BY <1>6, <1>7, <1>1 DEF PageFits, PageShape
  <2>3. PageStored(new, draft, saves)
    BY <1>1, <1>6, <1>7 DEF PageFits, PageStored, Missed
  <2> QED
    BY <2>1, <2>2, <2>3 DEF PageFits
<1>15. KeysAgree(requests \cup {r}, saves)
  BY <1>10 DEF IInv, ServerInv, KeysAgree
<1>16. /\ \A q \in requests : q.open => ~SameLane(r, q)
       /\ \A a \in answers : ~SameLane(r, a)
  BY <1>9, <1>10, NoTaskAwaited DEF SameLane
<1>17. /\ \A q \in requests : q.open /\ q.editor = e => q.kind = "replace"
       /\ \A a \in answers : a.editor = e => a.kind = "replace"
  BY NoTaskAwaited
<1>18. /\ \A q \in requests : q.open /\ q.editor = e => Awaits(new, q)
       /\ \A a \in answers : a.editor = e => AnswerFits(a, new, draft, saves)
  BY <1>17, SaveStillAwaited
<1>19. new.number >= editor[e].number
  BY <1>1, <1>6, <1>7
<1> QED
  BY <1>5, <1>7, <1>9, <1>12, <1>13, <1>14, <1>15, <1>16, <1>18, <1>19, SendStep

\* The rounds are used up, or there is nothing to save.
LEMMA StoppedFits ==
  ASSUME IInv, NEW e \in Editors, editor[e].mode = "ready", editor[e].task = "flushing",
         editor[e].flight = "none",
         NEW status \in {"unsaved", "validationBlocked", editor[e].status}
  PROVE  \E mid \in Pages :
           /\ mid = [editor[e] EXCEPT !.task = "none", !.status = status]
           /\ PageFits(e, mid, draft, saves, requests) /\ KeepsWaiting(editor[e], mid)
           /\ mid.mode = "ready" /\ mid.doc \in Contents /\ mid.flight = "none"
           /\ mid.number = editor[e].number
<1>1. PICK mid : mid = [editor[e] EXCEPT !.task = "none", !.status = status]
  OBVIOUS
<1>2. editor[e] \in Pages /\ PageFits(e, editor[e], draft, saves, requests)
  BY PageFact
<1>3. status \in AutosaveStatuses
  BY <1>2 DEF Pages, AutosaveStatuses
<1>4. /\ mid \in Pages /\ mid.mode = editor[e].mode /\ mid.doc = editor[e].doc
      /\ mid.acked = editor[e].acked /\ mid.status = status
      /\ mid.number = editor[e].number /\ mid.flight = editor[e].flight
      /\ mid.failed = editor[e].failed /\ mid.armed = editor[e].armed
      /\ mid.project = editor[e].project /\ mid.task = "none"
      /\ mid.taskOf = editor[e].taskOf /\ mid.shown = editor[e].shown
  BY <1>1, <1>2, <1>3 DEF Pages, TaskPhases
<1>5. FailedFits(e, mid, saves, requests)
  BY <1>2, <1>4 DEF PageFits, FailedFits
<1>6. PageShape(mid) /\ mid.doc \in Contents
  BY <1>2, <1>4 DEF PageFits, PageShape
<1>7. PageStored(mid, draft, saves)
  BY <1>2, <1>4 DEF PageFits, PageStored, Missed
<1>8. KeepsWaiting(editor[e], mid)
  BY <1>4 DEF KeepsWaiting
<1> QED
  BY <1>1, <1>4, <1>5, <1>6, <1>7, <1>8 DEF PageFits

LEMMA FlushKeeps ==
  ASSUME IInv, NEW e \in Editors, Flush(e)
  PROVE  IInv'
<1>1. /\ editor[e].mode = "ready" /\ editor[e].task = "flushing" /\ editor[e].flight = "none"
      /\ moves' \in Nat
  BY Typed DEF Flush
<1>2. editor[e] \in Pages /\ editor[e].doc \in Contents /\ editor[e].tries \in Nat
  BY <1>1, PageFact DEF PageFits, PageShape, Pages
<1>3. PICK goes \in BOOLEAN :
        goes = (/\ editor[e].tries < FlushAttempts /\ editor[e].status \notin {"conflict", "failed"}
                /\ editor[e].doc \in Valid)
  OBVIOUS
<1>4. CASE goes /\ ~Dirty(editor[e])
  <2>1. /\ editor' = [editor EXCEPT ![e] =
             [editor[e] EXCEPT !.task = "sent", !.taskOf = editor[e].acked, !.number = @ + 1]]
        /\ requests' = requests \cup
             {Request(editor[e].taskKind, e, editor[e].number + 1, NewKey(editor[e], e),
                      editor[e].acked.version, editor[e].acked.content)}
        /\ UNCHANGED <<server, active, answers>>
    BY <1>3, <1>4 DEF Flush
  <2> QED
    BY <1>1, <2>1, SendTaskKeeps
<1>5. CASE goes /\ Dirty(editor[e])
  <2>1. PICK ed : ed = [editor[e] EXCEPT !.tries = editor[e].tries + 1]
    OBVIOUS
  <2>2. Save(e, ed, editor[e].doc, NewKey(editor[e], e))
    BY <1>3, <1>5, <2>1 DEF Flush
  <2>3. ed.mode = "ready" /\ ed.flight = "none" /\ ed.number = editor[e].number
    BY <1>1, <1>2, <2>1 DEF Pages
  <2>4. Save(e, ed, editor[e].doc, NewKey(ed, e))
    BY <2>2, <2>3 DEF NewKey
  <2>5. editor[e].tries + 1 \in Nat
    BY <1>2
  <2> QED
    BY <1>1, <1>2, <2>1, <2>3, <2>4, <2>5, SaveStep
<1>6. CASE ~goes
  <2>1. UNCHANGED <<server, active, network>>
    BY <1>3, <1>6 DEF Flush
  <2>2. PICK status : status = IF editor[e].tries = FlushAttempts THEN "unsaved"
                               ELSE IF editor[e].doc \notin Valid THEN "validationBlocked"
                               ELSE editor[e].status
    OBVIOUS
  <2>3. PICK mid \in Pages :
          /\ mid = [editor[e] EXCEPT !.task = "none", !.status = status]
          /\ PageFits(e, mid, draft, saves, requests) /\ KeepsWaiting(editor[e], mid)
          /\ mid.mode = "ready" /\ mid.doc \in Contents /\ mid.flight = "none"
          /\ mid.number = editor[e].number
    <3>1. status \in {"unsaved", "validationBlocked", editor[e].status}
      BY <2>2
    <3>2. /\ editor[e].mode = "ready" /\ editor[e].task = "flushing"
          /\ editor[e].flight = "none"
      BY <1>1
    <3> QED
      BY <3>1, <3>2, StoppedFits
  <2>4. CASE editor[e].tries = FlushAttempts
    <3>1. editor' = [editor EXCEPT ![e] = Rendered(mid)]
      BY <1>3, <1>6, <2>2, <2>3, <2>4 DEF Flush
    <3>2. /\ Rendered(mid) \in Pages /\ PageFits(e, Rendered(mid), draft, saves, requests)
          /\ KeepsWaiting(mid, Rendered(mid))
      <4>1. FailedFits(e, mid, saves, requests) /\ PageStored(mid, draft, saves)
            /\ (mid.status = "failed" => mid.failed # NoFailed)
        BY <2>3 DEF PageFits, PageShape
      <4> QED
        BY <2>3, <4>1, RenderedFits
    <3>3. KeepsWaiting(editor[e], Rendered(mid))
      BY <1>1, <2>3, <3>2 DEF KeepsWaiting
    <3> QED
      BY <1>1, <2>1, <3>1, <3>2, <3>3, LocalStep
  <2>5. CASE editor[e].tries # FlushAttempts
    <3>1. editor' = [editor EXCEPT ![e] = mid]
      <4>1. CASE editor[e].doc \notin Valid
        BY <1>3, <1>6, <2>2, <2>3, <2>5, <4>1 DEF Flush
      <4>2. CASE editor[e].doc \in Valid
        BY <1>3, <1>6, <2>2, <2>3, <2>5, <4>2 DEF Flush
      <4> QED
        BY <4>1, <4>2
    <3> QED
      BY <1>1, <2>1, <2>3, <3>1, LocalStep
  <2> QED
    BY <2>4, <2>5
<1> QED
  BY <1>4, <1>5, <1>6
-----------------------------------------------------------------------------
(* The server.                                                             *)

\* A request goes on: what its page waits for stays.
LEMMA ProgressStep ==
  ASSUME IInv, NEW r \in requests, NEW n \in Requests,
         requests' = (requests \ {r}) \cup {n},
         UNCHANGED <<server, active, answers, editor, moves>>,
         n.kind = r.kind, n.editor = r.editor, n.key = r.key, n.base = r.base,
         n.content = r.content, n.open = r.open,
         RequestFits(n, editor[n.editor], draft, saves)
  PROVE  IInv'
<1>1. /\ draft' = draft /\ saves' = saves /\ calculated' = calculated /\ active' = active
      /\ answers' = answers /\ editor' = editor /\ moves' = moves
  BY DEF server
<1>2. TypeOK'
  BY <1>1 DEF IInv, TypeOK, ServerTypeOK
<1>3. KeysAgree(requests', saves)
  <2>1. SUFFICES ASSUME NEW x \in requests', x.kind = "replace"
                 PROVE  /\ \A i \in DOMAIN saves : saves[i].key = x.key => saves[i].content = x.content
                        /\ \A q \in requests' : q.kind = "replace" /\ q.key = x.key => q.content = x.content
    BY DEF KeysAgree
  <2>2. PICK y \in requests : y.kind = x.kind /\ y.key = x.key /\ y.content = x.content
    OBVIOUS
  <2>3. ASSUME NEW q \in requests', q.kind = "replace", q.key = x.key
        PROVE  q.content = x.content
    <3>1. PICK p \in requests : p.kind = q.kind /\ p.key = q.key /\ p.content = q.content
      OBVIOUS
    <3> QED
      BY <2>1, <2>2, <2>3, <3>1 DEF IInv, ServerInv, KeysAgree
  <2>4. ASSUME NEW i \in DOMAIN saves, saves[i].key = x.key
        PROVE  saves[i].content = x.content
    BY <2>1, <2>2, <2>4 DEF IInv, ServerInv, KeysAgree
  <2> QED
    BY <2>3, <2>4
<1>4. ServerInv'
  BY <1>1, <1>3 DEF IInv, ServerInv
<1>5. Lanes(requests', answers)
  BY DEF IInv, NetworkInv, Lanes, SameLane
<1>6. NetworkInv'
  BY <1>1, <1>5 DEF IInv, NetworkInv
<1>7. PageInv'
  <2>1. SUFFICES ASSUME NEW f \in Editors
                 PROVE  PageFits(f, editor[f], draft, saves, requests')
    BY <1>1 DEF PageInv
  <2>2. PageFits(f, editor[f], draft, saves, requests)
    BY DEF IInv, PageInv
  <2>3. FailedFits(f, editor[f], saves, requests')
    BY <2>2 DEF PageFits, FailedFits
  <2> QED
    BY <2>2, <2>3 DEF PageFits
<1> QED
  BY <1>2, <1>4, <1>6, <1>7 DEF IInv

\* A transaction ends with a reply, and may have stored a calculation.
LEMMA ReplyStep ==
  ASSUME IInv, NEW r \in requests, NEW code \in Codes, NEW result \in Drafts,
         Reply(r, code, result), UNCHANGED <<draft, saves, active, editor, moves>>,
         calculated' \in Calculations, calculated' = NoCalculation \/ Recorded(calculated', saves),
         Recorded(result, saves),
         \A a \in Answers : a.kind = r.kind /\ a.editor = r.editor /\ a.code = code
                              /\ a.result = result /\ r.open =>
           AnswerFits(a, editor[r.editor], draft, saves)
  PROVE  IInv'
<1>1. r \in Requests /\ r.editor \in Editors /\ requests' = requests \ {r}
  BY Typed DEF Requests, Reply
<1>2. PICK a : a = [kind |-> r.kind, editor |-> r.editor, number |-> r.number,
                    code |-> code, result |-> result]
  OBVIOUS
<1>3. /\ a \in Answers /\ a.kind = r.kind /\ a.editor = r.editor /\ a.code = code
      /\ a.result = result
  BY <1>1, <1>2 DEF Requests, Answers
<1>4. answers' = IF r.open THEN answers \cup {a} ELSE answers
  BY <1>2 DEF Reply
<1>5. TypeOK'
  BY <1>1, <1>3, <1>4 DEF IInv, TypeOK, ServerTypeOK
<1>6. ServerInv'
  <2>1. KeysAgree(requests', saves)
    BY <1>1 DEF IInv, ServerInv, KeysAgree
  <2>2. History(draft, saves, calculated')
    BY DEF IInv, ServerInv, History
  <2> QED
    BY <2>1, <2>2 DEF IInv, ServerInv
<1>7. NetworkInv'
  <2>1. Lanes(requests', answers')
    <3>1. CASE r.open
      <4>1. /\ \A q \in requests' : q.open => ~SameLane(q, a)
            /\ \A b \in answers : ~SameLane(a, b) /\ ~SameLane(b, a)
        BY <1>1, <1>3, <3>1 DEF IInv, NetworkInv, Lanes, SameLane
      <4>2. Lanes(requests', answers)
        BY <1>1 DEF IInv, NetworkInv, Lanes
      <4> QED
        BY <1>4, <3>1, <4>1, <4>2 DEF Lanes
    <3>2. CASE ~r.open
      BY <1>1, <1>4, <3>2 DEF IInv, NetworkInv, Lanes
    <3> QED
      BY <3>1, <3>2
  <2>2. \A q \in requests' : RequestFits(q, editor[q.editor], draft, saves)
    BY <1>1 DEF IInv, NetworkInv
  <2>3. r.open => AnswerFits(a, editor[a.editor], draft, saves)
    BY <1>3
  <2>4. \A b \in answers' : AnswerFits(b, editor[b.editor], draft, saves)
    BY <1>4, <2>3 DEF IInv, NetworkInv
  <2> QED
    BY <2>1, <2>2, <2>4 DEF NetworkInv
<1>8. PageInv'
  <2>1. SUFFICES ASSUME NEW f \in Editors
                 PROVE  PageFits(f, editor[f], draft, saves, requests')
    BY DEF PageInv
  <2>2. PageFits(f, editor[f], draft, saves, requests)
    BY DEF IInv, PageInv
  <2>3. FailedFits(f, editor[f], saves, requests')
    BY <1>1, <2>2 DEF PageFits, FailedFits
  <2> QED
    BY <2>2, <2>3 DEF PageFits
<1> QED
  BY <1>5, <1>6, <1>7, <1>8 DEF IInv

LEMMA RequestFact ==
  ASSUME IInv, NEW r \in requests
  PROVE  /\ r \in Requests /\ r.editor \in Editors /\ r.base \in Nat
         /\ RequestFits(r, editor[r.editor], draft, saves)
         /\ PageFits(r.editor, editor[r.editor], draft, saves, requests)
         /\ draft \in Drafts /\ draft.version \in Nat /\ Recorded(draft, saves)
         /\ calculated \in Calculations
         /\ (calculated = NoCalculation \/ Recorded(calculated, saves))
<1>1. r \in Requests /\ r.editor \in Editors /\ r.base \in Nat
  BY Typed DEF Requests
<1> QED
  BY <1>1, Typed DEF IInv, NetworkInv, PageInv, ServerInv, History, Drafts

LEMMA BeginKeeps ==
  ASSUME IInv, NEW r \in requests, Begin(r), UNCHANGED <<editor, moves>>
  PROVE  IInv'
<1>1. PICK n : n = [r EXCEPT !.phase = "begun", !.seen = draft.catalog]
  OBVIOUS
<1>2. r \in Requests /\ draft.catalog \in Catalogs
  BY RequestFact DEF Drafts
<1>3. /\ n \in Requests /\ n.kind = r.kind /\ n.editor = r.editor /\ n.key = r.key
      /\ n.base = r.base /\ n.content = r.content /\ n.open = r.open /\ n.input = r.input
  BY <1>1, <1>2 DEF Requests, Phases
<1>4. requests' = (requests \ {r}) \cup {n}
  BY <1>1 DEF Begin
<1>5. RequestFits(n, editor[n.editor], draft, saves)
  <2>1. RequestFits(r, editor[r.editor], draft, saves)
    BY RequestFact
  <2>2. r.kind = "calculate" => r.phase # "sent"
    BY DEF Begin
  <2>3. n.open => Awaits(editor[n.editor], n)
    BY <1>3, <2>1 DEF RequestFits, Awaits
  <2> QED
    BY <1>3, <2>1, <2>2, <2>3 DEF RequestFits
<1> QED
  BY <1>3, <1>4, <1>5, ProgressStep DEF Begin

LEMMA ReadContextKeeps ==
  ASSUME IInv, NEW r \in requests, ReadContext(r), UNCHANGED <<editor, moves>>
  PROVE  IInv'
<1>1. /\ r.kind \in {"validate", "calculate"} /\ r.kind # "replace"
      /\ UNCHANGED <<draft, saves, calculated, active, editor, moves>>
  BY DEF ReadContext, server
<1>2. /\ r \in Requests /\ r.base \in Nat /\ RequestFits(r, editor[r.editor], draft, saves)
      /\ draft \in Drafts /\ draft.version \in Nat /\ Recorded(draft, saves)
      /\ calculated \in Calculations /\ (calculated = NoCalculation \/ Recorded(calculated, saves))
  BY RequestFact
<1>3. ASSUME NEW code \in Codes, Reply(r, code, draft),
             code = "conflict" => draft.version # r.base
      PROVE  IInv'
  <2>1. ASSUME NEW a \in Answers, a.kind = r.kind, a.editor = r.editor, a.code = code,
               a.result = draft, r.open
        PROVE  AnswerFits(a, editor[r.editor], draft, saves)
    <3>1. editor[r.editor].task = "sent" /\ r.base = editor[r.editor].taskOf.version
      BY <1>1, <1>2, <2>1 DEF RequestFits, Awaits
    <3>2. code = "conflict" => draft.version > editor[r.editor].taskOf.version
      BY <1>2, <1>3, <3>1 DEF RequestFits
    <3> QED
      BY <1>1, <1>2, <2>1, <3>1, <3>2 DEF AnswerFits
  <2> QED
    BY <1>1, <1>2, <1>3, <2>1, ReplyStep
<1>4. CASE Stale(r)
  BY <1>3, <1>4 DEF ReadContext, Stale, Codes
<1>5. CASE ~Stale(r) /\ draft.catalog # active
  BY <1>3, <1>5 DEF ReadContext, Codes
<1>6. CASE ~Stale(r) /\ draft.catalog = active /\ r.kind = "validate"
  BY <1>3, <1>6 DEF ReadContext, Codes
<1>7. CASE ~Stale(r) /\ draft.catalog = active /\ r.kind # "validate" /\ draft.content \notin Calculable
  BY <1>3, <1>7 DEF ReadContext, Codes
<1>8. CASE ~Stale(r) /\ draft.catalog = active /\ r.kind # "validate" /\ draft.content \in Calculable
  <2>1. PICK n : n = [r EXCEPT !.phase = "computed", !.input = draft]
    OBVIOUS
  <2>2. requests' = (requests \ {r}) \cup {n} /\ UNCHANGED <<server, active, answers>>
    BY <1>8, <2>1 DEF ReadContext
  <2>3. /\ n \in Requests /\ n.kind = r.kind /\ n.editor = r.editor /\ n.key = r.key
        /\ n.base = r.base /\ n.content = r.content /\ n.open = r.open /\ n.input = draft
    BY <1>2, <2>1 DEF Requests, Phases
  <2>4. RequestFits(n, editor[n.editor], draft, saves)
    <3>1. n.open => Awaits(editor[n.editor], n)
      BY <1>2, <2>3 DEF RequestFits, Awaits
    <3> QED
      BY <1>2, <1>8, <2>3, <3>1 DEF RequestFits, Stale
  <2> QED
    BY <1>1, <2>2, <2>3, <2>4, ProgressStep
<1> QED
  BY <1>4, <1>5, <1>6, <1>7, <1>8

LEMMA StoreKeeps ==
  ASSUME IInv, NEW r \in requests, Store(r), UNCHANGED <<editor, moves>>
  PROVE  IInv'
<1>1. r.kind = "calculate" /\ UNCHANGED <<draft, saves, active, editor, moves>>
  BY DEF Store
<1>2. /\ r \in Requests /\ r.base \in Nat /\ RequestFits(r, editor[r.editor], draft, saves)
      /\ draft \in Drafts /\ draft.version \in Nat /\ Recorded(draft, saves)
      /\ calculated \in Calculations /\ (calculated = NoCalculation \/ Recorded(calculated, saves))
  BY RequestFact
<1>3. r.input \in Drafts /\ Recorded(r.input, saves)
  BY <1>2 DEF Requests, RequestFits
<1>4. ASSUME NEW code \in Codes, NEW result \in Drafts, Recorded(result, saves),
             Reply(r, code, result), code = "conflict" => draft.version # r.base,
             calculated' \in Calculations, calculated' = NoCalculation \/ Recorded(calculated', saves)
      PROVE  IInv'
  <2>1. ASSUME NEW a \in Answers, a.kind = r.kind, a.editor = r.editor, a.code = code,
               a.result = result, r.open
        PROVE  AnswerFits(a, editor[r.editor], draft, saves)
    <3>1. editor[r.editor].task = "sent" /\ r.base = editor[r.editor].taskOf.version
      BY <1>1, <1>2, <2>1 DEF RequestFits, Awaits
    <3>2. code = "conflict" => draft.version > editor[r.editor].taskOf.version
      BY <1>2, <1>4, <3>1 DEF RequestFits
    <3> QED
      BY <1>1, <1>4, <2>1, <3>1, <3>2 DEF AnswerFits
  <2> QED
    BY <1>1, <1>4, <2>1, ReplyStep
<1>5. CASE ~RowDropsOut(r) /\ ~Stale(r) /\ r.input.catalog = active
  <2>1. calculated' = r.input /\ Reply(r, "ok", r.input)
    BY <1>5 DEF Store
  <2>2. r.input \in Calculations
    BY <1>3 DEF Calculations
  <2> QED
    BY <1>3, <1>4, <2>1, <2>2 DEF Codes
<1>6. CASE ~(~RowDropsOut(r) /\ ~Stale(r) /\ r.input.catalog = active)
  <2>1. calculated' = calculated
    BY <1>6 DEF Store
  <2>2. CASE RowDropsOut(r)
    BY <1>2, <1>4, <1>6, <2>1, <2>2 DEF Store, Codes
  <2>3. CASE ~RowDropsOut(r) /\ Stale(r)
    BY <1>2, <1>4, <1>6, <2>1, <2>3 DEF Store, Stale, Codes
  <2>4. CASE ~RowDropsOut(r) /\ ~Stale(r)
    BY <1>2, <1>4, <1>6, <2>1, <2>4 DEF Store, Codes
  <2> QED
    BY <2>2, <2>3, <2>4
<1> QED
  BY <1>5, <1>6

\* A replacement that stores nothing.
LEMMA UnwrittenKeeps ==
  ASSUME IInv, NEW r \in requests, Replace(r), UNCHANGED <<editor, moves>>,
         RowDropsOut(r) \/ Replayed(r) \/ Stale(r)
  PROVE  IInv'
<1>1. r.kind = "replace" /\ UNCHANGED <<draft, saves, calculated, active, editor, moves>>
  BY DEF Replace, server
<1>2. /\ r \in Requests /\ r.base \in Nat /\ RequestFits(r, editor[r.editor], draft, saves)
      /\ PageFits(r.editor, editor[r.editor], draft, saves, requests)
      /\ draft \in Drafts /\ draft.version \in Nat /\ Recorded(draft, saves)
      /\ calculated \in Calculations /\ (calculated = NoCalculation \/ Recorded(calculated, saves))
  BY RequestFact
<1>3. r.open => /\ editor[r.editor].flight = "put" /\ r.key = editor[r.editor].failed.key
                /\ r.content = editor[r.editor].failed.content
                /\ r.base = editor[r.editor].acked.version
  <2>1. r.open => /\ editor[r.editor].flight = "put" /\ r.key = editor[r.editor].failed.key
                  /\ editor[r.editor].failed # NoFailed
    BY <1>1, <1>2 DEF RequestFits, Awaits, PageFits, PageShape
  <2> QED
    BY <1>1, <1>2, <2>1 DEF PageFits, FailedFits
<1>4. ASSUME NEW code \in Codes, NEW result \in Drafts, Recorded(result, saves),
             Reply(r, code, result), code = "ok" => result.content = r.content,
             code = "conflict" => Stale(r) /\ ~Replayed(r)
      PROVE  IInv'
  <2>1. ASSUME NEW a \in Answers, a.kind = r.kind, a.editor = r.editor, a.code = code,
               a.result = result, r.open
        PROVE  AnswerFits(a, editor[r.editor], draft, saves)
    <3>1. code = "conflict" => Missed(editor[r.editor], draft, saves)
      <4>1. SUFFICES ASSUME code = "conflict"
                     PROVE  Missed(editor[r.editor], draft, saves)
        OBVIOUS
      <4>2. draft.version > editor[r.editor].acked.version
        BY <1>2, <1>3, <1>4, <2>1, <4>1 DEF Stale, RequestFits
      <4>3. \A i \in DOMAIN saves : saves[i].key # editor[r.editor].failed.key
        BY <1>3, <1>4, <2>1, <4>1 DEF Replayed, Stored
      <4> QED
        BY <4>2, <4>3 DEF Missed
    <3> QED
      BY <1>1, <1>3, <1>4, <2>1, <3>1 DEF AnswerFits
  <2> QED
    BY <1>1, <1>2, <1>4, <2>1, ReplyStep
<1>5. CASE RowDropsOut(r)
  BY <1>2, <1>4, <1>5 DEF Replace, Codes
<1>6. CASE ~RowDropsOut(r) /\ Replayed(r)
  <2>1. Reply(r, "ok", RecordedResult(r))
    BY <1>6 DEF Replace
  <2>2. PICK i \in Stored(r.key) :
          RecordedResult(r) = [version |-> i, content |-> saves[i].content,
                               catalog |-> saves[i].catalog]
    BY <1>6 DEF Replayed, RecordedResult
  <2>3. /\ i \in DOMAIN saves /\ saves[i].key = r.key /\ saves[i] \in Saves
        /\ i \in 1..Len(saves)
    BY Typed, SavedEntry DEF Stored
  <2>4. saves[i].content = r.content
    BY <1>1, <2>3 DEF IInv, ServerInv, KeysAgree
  <2>5. /\ RecordedResult(r) \in Drafts /\ Recorded(RecordedResult(r), saves)
        /\ RecordedResult(r).content = r.content
    BY <2>2, <2>3, <2>4 DEF Drafts, Saves, Recorded
  <2> QED
    BY <1>4, <2>1, <2>5 DEF Codes
<1>7. CASE ~RowDropsOut(r) /\ ~Replayed(r) /\ Stale(r)
  BY <1>2, <1>4, <1>7 DEF Replace, Codes
<1> QED
  BY <1>5, <1>6, <1>7

\* What a new version does to the stored ones.
LEMMA Appended ==
  ASSUME NEW s \in Seq(Saves), NEW x \in Saves, NEW t, t = Append(s, x)
  PROVE  /\ t \in Seq(Saves) /\ Len(t) = Len(s) + 1 /\ Len(s) \in Nat
         /\ Len(s) + 1 \in DOMAIN t /\ t[Len(s) + 1] = x
         /\ \A i \in DOMAIN s : i \in DOMAIN t /\ t[i] = s[i] /\ i \in Nat
         /\ \A i \in DOMAIN t : i \in DOMAIN s \/ i = Len(s) + 1
OBVIOUS

LEMMA RecordedGrows ==
  ASSUME NEW s, NEW t, \A i \in DOMAIN s : i \in DOMAIN t /\ t[i] = s[i],
         NEW d, Recorded(d, s)
  PROVE  Recorded(d, t)
BY DEF Recorded

\* A key is not stored once its page has been told of a conflict: what is left of
\* its requests was made for a version that has passed.
LEMMA NeverRepeated ==
  ASSUME IInv, NEW r \in requests, r.kind = "replace", ~Stale(r),
         NEW f \in Editors, editor[f].failed # NoFailed, Missed(editor[f], draft, saves)
  PROVE  r.key # editor[f].failed.key
<1>1. SUFFICES ASSUME r.key = editor[f].failed.key
               PROVE  FALSE
  OBVIOUS
<1>2. FailedFits(f, editor[f], saves, requests)
  BY PageFact DEF PageFits
<1>3. r.base = editor[f].acked.version
  BY <1>1, <1>2 DEF FailedFits
<1>4. draft.version > editor[f].acked.version /\ draft.version = r.base
  BY DEF Missed, Stale
<1>5. r.base \in Nat
  BY RequestFact
<1> QED
  BY <1>3, <1>4, <1>5

LEMMA WriteKeeps ==
  ASSUME IInv, NEW r \in requests, r.kind = "replace", ~Replayed(r), ~Stale(r), Write(r),
         UNCHANGED <<active, editor, moves>>
  PROVE  IInv'
<1>1. PICK new : new = [version |-> draft.version + 1, content |-> r.content, catalog |-> active]
  OBVIOUS
<1>2. PICK entry : entry = [key |-> r.key, base |-> r.base, content |-> r.content,
                            catalog |-> active]
  OBVIOUS
<1>3. PICK a : a = [kind |-> r.kind, editor |-> r.editor, number |-> r.number,
                    code |-> "ok", result |-> new]
  OBVIOUS
<1>4. /\ draft' = new /\ saves' = Append(saves, entry) /\ calculated' = calculated
      /\ active' = active /\ editor' = editor /\ moves' = moves
      /\ requests' = requests \ {r}
      /\ answers' = IF r.open THEN answers \cup {a} ELSE answers
  BY <1>1, <1>2, <1>3 DEF Write, Reply
<1>5. /\ r \in Requests /\ r.editor \in Editors /\ r.base \in Nat
      /\ RequestFits(r, editor[r.editor], draft, saves)
      /\ draft.version \in Nat /\ draft.version = r.base
  BY RequestFact DEF Stale
<1>6. /\ saves \in Seq(Saves) /\ requests \subseteq Requests /\ answers \subseteq Answers
      /\ active \in Catalogs /\ editor \in [Editors -> Pages]
  BY Typed
<1>7. new \in Drafts /\ entry \in Saves /\ r.key \in Keys
  BY <1>1, <1>2, <1>5, <1>6 DEF Drafts, Saves, Requests
<1>8. /\ a \in Answers /\ a.kind = "replace" /\ a.editor = r.editor /\ a.code = "ok"
      /\ a.result = new
  BY <1>3, <1>5, <1>7 DEF Requests, Answers, Codes
<1>9. /\ entry.key = r.key /\ entry.base = r.base /\ entry.content = r.content
      /\ entry.catalog = active /\ new.version = draft.version + 1 /\ new.content = r.content
      /\ new.catalog = active
  BY <1>1, <1>2
<1>10. /\ saves' \in Seq(Saves) /\ Len(saves') = Len(saves) + 1 /\ Len(saves) \in Nat
       /\ Len(saves) + 1 \in DOMAIN saves' /\ saves'[Len(saves) + 1] = entry
       /\ \A i \in DOMAIN saves : i \in DOMAIN saves' /\ saves'[i] = saves[i] /\ i \in Nat
       /\ \A i \in DOMAIN saves' : i \in DOMAIN saves \/ i = Len(saves) + 1
  BY <1>4, <1>6, <1>7, Appended
<1>11. Len(saves) = draft.version
  BY DEF IInv, ServerInv, History
<1>12. \A d : Recorded(d, saves) => Recorded(d, saves')
  BY <1>10, RecordedGrows
<1>13. \A i \in DOMAIN saves : saves[i].key # r.key
  BY DEF Replayed, Stored
<1>14. TypeOK'
  BY <1>4, <1>7, <1>8, <1>10 DEF IInv, TypeOK, ServerTypeOK
<1>15. ServerInv'
  <2>1. Recorded(new, saves')
    BY <1>9, <1>10, <1>11 DEF Recorded
  <2>2. History(draft', saves', calculated')
    <3>1. calculated = NoCalculation \/ Recorded(calculated, saves')
      BY <1>12 DEF IInv, ServerInv, History
    <3>2. Len(saves') = new.version
      BY <1>9, <1>10, <1>11
    <3> QED
      BY <1>4, <2>1, <3>1, <3>2 DEF History
  <2>3. Chained(saves')
    <3>1. saves'[Len(saves) + 1].base = (Len(saves) + 1) - 1
      BY <1>5, <1>9, <1>10, <1>11
    <3>2. \A i \in DOMAIN saves : saves'[i].base = i - 1
      BY <1>10 DEF IInv, ServerInv, Chained
    <3> QED
      BY <1>10, <3>1, <3>2 DEF Chained
  <2>4. StoredOnce(saves')
    <3>1. SUFFICES ASSUME NEW i \in DOMAIN saves', NEW j \in DOMAIN saves',
                          saves'[i].key = saves'[j].key
                   PROVE  i = j
      BY DEF StoredOnce
    <3>2. CASE i \in DOMAIN saves /\ j \in DOMAIN saves
      BY <1>10, <3>1, <3>2 DEF IInv, ServerInv, StoredOnce
    <3>3. CASE i = Len(saves) + 1 \/ j = Len(saves) + 1
      BY <1>9, <1>10, <1>13, <3>1, <3>3
    <3> QED
      BY <1>10, <3>2, <3>3
  <2>5. KeysDrawn(saves', editor')
    <3>1. r.key[2] <= editor[r.key[1]].number
      BY <1>5 DEF RequestFits
    <3> QED
      BY <1>4, <1>9, <1>10, <3>1 DEF IInv, ServerInv, KeysDrawn
  <2>6. KeysAgree(requests', saves')
    <3>1. SUFFICES ASSUME NEW q \in requests, q.kind = "replace"
                   PROVE  /\ \A i \in DOMAIN saves' : saves'[i].key = q.key => saves'[i].content = q.content
                          /\ \A p \in requests : p.kind = "replace" /\ p.key = q.key => p.content = q.content
      BY <1>4 DEF KeysAgree
    <3>2. /\ \A i \in DOMAIN saves : saves[i].key = q.key => saves[i].content = q.content
          /\ \A p \in requests : p.kind = "replace" /\ p.key = q.key => p.content = q.content
      BY <3>1 DEF IInv, ServerInv, KeysAgree
    <3> QED
      BY <1>9, <1>10, <3>2
  <2> QED
    BY <2>2, <2>3, <2>4, <2>5, <2>6 DEF ServerInv
<1>16. ASSUME NEW f \in Editors
       PROVE  /\ editor[f].failed # NoFailed =>
                   \A i \in DOMAIN saves' : saves'[i].key = editor[f].failed.key =>
                     saves'[i].content = editor[f].failed.content
              /\ Missed(editor[f], draft, saves) => Missed(editor[f], draft', saves')
  <2>1. FailedFits(f, editor[f], saves, requests)
    BY PageFact DEF PageFits
  <2>2. ASSUME editor[f].failed # NoFailed, NEW i \in DOMAIN saves',
               saves'[i].key = editor[f].failed.key
        PROVE  saves'[i].content = editor[f].failed.content
    BY <1>9, <1>10, <2>1, <2>2 DEF FailedFits
  <2>3. ASSUME Missed(editor[f], draft, saves)
        PROVE  Missed(editor[f], draft', saves')
    <3>1. editor[f].failed # NoFailed => r.key # editor[f].failed.key
      BY <2>3, NeverRepeated
    <3>2. draft'.version > editor[f].acked.version
      <4>1. editor[f].acked.version \in Nat
        BY <1>6 DEF Pages
      <4> QED
        BY <1>4, <1>5, <1>9, <2>3, <4>1 DEF Missed
    <3> QED
      BY <1>9, <1>10, <2>3, <3>1, <3>2 DEF Missed
  <2> QED
    BY <2>2, <2>3
<1>17. NetworkInv'
  <2>1. Lanes(requests', answers')
    <3>1. CASE r.open
      <4>1. /\ \A q \in requests' : q.open => ~SameLane(q, a)
            /\ \A b \in answers : ~SameLane(a, b) /\ ~SameLane(b, a)
        BY <1>4, <1>8, <3>1 DEF IInv, NetworkInv, Lanes, SameLane
      <4>2. Lanes(requests', answers)
        BY <1>4 DEF IInv, NetworkInv, Lanes
      <4> QED
        BY <1>4, <3>1, <4>1, <4>2 DEF Lanes
    <3>2. CASE ~r.open
      BY <1>4, <3>2 DEF IInv, NetworkInv, Lanes
    <3> QED
      BY <3>1, <3>2
  <2>2. ASSUME NEW q \in requests'
        PROVE  RequestFits(q, editor[q.editor], draft', saves')
    <3>1. RequestFits(q, editor[q.editor], draft, saves) /\ q.base \in Nat
      BY <1>4, RequestFact
    <3> QED
      BY <1>4, <1>5, <1>9, <1>12, <3>1 DEF RequestFits
  <2>3. ASSUME NEW b \in answers
        PROVE  AnswerFits(b, editor[b.editor], draft', saves')
    <3>1. AnswerFits(b, editor[b.editor], draft, saves) /\ b.editor \in Editors
      BY <1>6 DEF IInv, NetworkInv, Answers
    <3>2. editor[b.editor].taskOf.version \in Nat
      BY <1>6, <3>1 DEF Pages
    <3> QED
      BY <1>4, <1>5, <1>9, <1>12, <1>16, <3>1, <3>2 DEF AnswerFits
  <2>4. r.open => AnswerFits(a, editor[a.editor], draft', saves')
    <3>1. SUFFICES ASSUME r.open
                   PROVE  AnswerFits(a, editor[r.editor], draft', saves')
      BY <1>8
    <3>2. editor[r.editor].flight = "put" /\ r.key = editor[r.editor].failed.key
      BY <1>5, <3>1 DEF RequestFits, Awaits
    <3>3. PageFits(r.editor, editor[r.editor], draft, saves, requests)
      BY RequestFact
    <3>4. r.content = editor[r.editor].failed.content
      BY <3>2, <3>3 DEF PageFits, PageShape, FailedFits
    <3>5. Recorded(new, saves')
      BY <1>9, <1>10, <1>11 DEF Recorded
    <3> QED
      BY <1>8, <1>9, <3>2, <3>4, <3>5 DEF AnswerFits
  <2> QED
    BY <1>4, <2>1, <2>2, <2>3, <2>4 DEF NetworkInv
<1>18. PageInv'
  <2>1. SUFFICES ASSUME NEW f \in Editors
                 PROVE  PageFits(f, editor[f], draft', saves', requests')
    BY <1>4 DEF PageInv
  <2>2. PageFits(f, editor[f], draft, saves, requests) /\ editor[f] \in Pages
    BY PageFact
  <2>3. FailedFits(f, editor[f], saves', requests')
    BY <1>4, <1>16, <2>2 DEF PageFits, FailedFits
  <2>4. PageStored(editor[f], draft', saves')
    <3>1. editor[f].taskOf.version \in Nat
      BY <2>2 DEF Pages
    <3>2. editor[f].task = "superseded" => draft'.version > editor[f].taskOf.version
      BY <1>4, <1>5, <1>9, <2>2, <3>1 DEF PageFits, PageStored
    <3> QED
      BY <1>10, <1>12, <1>16, <2>2, <3>2 DEF PageFits, PageStored
  <2> QED
    BY <2>2, <2>3, <2>4 DEF PageFits
<1> QED
  BY <1>14, <1>15, <1>17, <1>18 DEF IInv

LEMMA ReplaceKeeps ==
  ASSUME IInv, NEW r \in requests, Replace(r), UNCHANGED <<editor, moves>>
  PROVE  IInv'
<1>1. CASE RowDropsOut(r) \/ Replayed(r) \/ Stale(r)
  BY <1>1, UnwrittenKeeps
<1>2. CASE ~(RowDropsOut(r) \/ Replayed(r) \/ Stale(r))
  <2>1. Write(r) /\ r.kind = "replace" /\ UNCHANGED active
    BY <1>2 DEF Replace
  <2> QED
    BY <1>2, <2>1, WriteKeeps
<1> QED
  BY <1>1, <1>2

LEMMA ActivatingKeeps ==
  ASSUME IInv, Activating
  PROVE  IInv'
<1>1. /\ draft' = draft /\ saves' = saves /\ calculated' = calculated /\ editor' = editor
      /\ requests' = requests /\ answers' = answers /\ moves' \in Nat
      /\ active' = active + 1 /\ active < MaxCatalogs
  BY MoveFact DEF Activating, ActivateCatalog, server, network
<1>2. active' \in Catalogs
  BY <1>1, Typed, ContentsAssumption DEF ContentsAssumption, Catalogs
<1>3. TypeOK'
  BY <1>1, <1>2 DEF IInv, TypeOK, ServerTypeOK
<1> QED
  BY <1>1, <1>3 DEF IInv, ServerInv, NetworkInv, PageInv
-----------------------------------------------------------------------------
(* The invariant.                                                          *)

LEMMA OwnerFact ==
  Owner \in Editors
BY EditingAssumption DEF EditingAssumption, Owner

LEMMA InitHolds ==
  ASSUME Init
  PROVE  IInv
<1>1. PICK c \in Calculable : draft = [version |-> 1, content |-> c, catalog |-> 1]
  BY DEF Init
<1>2. c \in Contents /\ 1 \in Catalogs
  BY ContentsAssumption DEF ContentsAssumption, Catalogs
<1>3. PICK entry : entry = [key |-> <<Owner, 0>>, base |-> 0, content |-> c, catalog |-> 1]
  OBVIOUS
<1>4. entry \in Saves /\ <<Owner, 0>> \in Keys
  BY <1>2, <1>3, OwnerFact DEF Saves, Keys
<1>5. saves = <<entry>> /\ draft.content = c /\ draft.version = 1 /\ draft.catalog = 1
  BY <1>1, <1>3 DEF Init
<1>6. /\ saves \in Seq(Saves) /\ Len(saves) = 1 /\ DOMAIN saves = {1} /\ saves[1] = entry
  BY <1>4, <1>5
<1>7. /\ entry.key = <<Owner, 0>> /\ entry.base = 0 /\ entry.content = c /\ entry.catalog = 1
  BY <1>3
<1>8. draft \in Drafts
  BY <1>1, <1>2 DEF Drafts
<1>9. /\ calculated = NoCalculation /\ active = 1 /\ requests = {} /\ answers = {} /\ moves = 0
  BY DEF Init
<1>10. PICK blank : blank = Blank([number |-> 0])
  OBVIOUS
<1>11. /\ blank \in Pages /\ blank.number = 0 /\ blank.flight = "none" /\ blank.task = "none"
       /\ blank.failed = NoFailed /\ blank.armed = FALSE /\ blank.shown = NoCalculation
  <2>1. [number |-> 0].number = 0
    OBVIOUS
  <2> QED
    BY <1>10, <2>1, BlankFacts
<1>12. PICK page : page = [blank EXCEPT !.mode = "ready", !.doc = c, !.status = "saved",
                             !.catalog = 1, !.acked = [version |-> 1, content |-> c],
                             !.project = draft]
  OBVIOUS
<1>13. editor = [e \in Editors |-> page]
  BY <1>5, <1>10, <1>12 DEF Init
<1>14. page \in Pages
  <2>1. PICK acked : acked = [version |-> 1, content |-> c]
    OBVIOUS
  <2>2. acked \in [version : Nat, content : Contents \cup {NoContent}]
    BY <1>2, <2>1
  <2>3. PICK x : x = [blank EXCEPT !.mode = "ready", !.doc = c]
    OBVIOUS
  <2>4. PICK y : y = [x EXCEPT !.status = "saved", !.catalog = 1]
    OBVIOUS
  <2>5. PICK z : z = [y EXCEPT !.acked = acked]
    OBVIOUS
  <2>6. x \in Pages
    BY <1>2, <1>11, <2>3 DEF Pages, Modes
  <2>7. y \in Pages
    BY <1>2, <2>4, <2>6 DEF Pages, AutosaveStatuses
  <2>8. z \in Pages
    BY <2>2, <2>5, <2>7 DEF Pages
  <2>9. [z EXCEPT !.project = draft] \in Pages
    BY <1>8, <2>8 DEF Pages
  <2> QED
    BY <1>12, <2>1, <2>3, <2>4, <2>5, <2>9
<1>15. /\ page.mode = "ready" /\ page.doc = c /\ page.status = "saved" /\ page.number = 0
       /\ page.acked = [version |-> 1, content |-> c] /\ page.flight = "none"
       /\ page.failed = NoFailed /\ page.task = "none" /\ page.shown = NoCalculation
  BY <1>11, <1>12 DEF Pages
<1>16. TypeOK
  <2>1. calculated \in Calculations
    BY <1>9 DEF Calculations
  <2> QED
    BY <1>2, <1>6, <1>8, <1>9, <1>13, <1>14, <2>1 DEF TypeOK, ServerTypeOK
<1>17. Recorded(draft, saves)
  BY <1>5, <1>6, <1>7 DEF Recorded
<1>18. ServerInv
  <2>1. History(draft, saves, calculated)
    BY <1>5, <1>6, <1>9, <1>17 DEF History
  <2>2. Chained(saves) /\ StoredOnce(saves)
    BY <1>6, <1>7 DEF Chained, StoredOnce
  <2>3. KeysDrawn(saves, editor)
    <3>1. saves[1].key[1] = Owner /\ saves[1].key[2] = 0
      BY <1>6, <1>7
    <3>2. editor[Owner].number = 0
      BY <1>13, <1>15, OwnerFact
    <3> QED
      BY <1>6, <3>1, <3>2 DEF KeysDrawn
  <2>4. KeysAgree(requests, saves)
    BY <1>9 DEF KeysAgree
  <2> QED
    BY <2>1, <2>2, <2>3, <2>4 DEF ServerInv
<1>19. NetworkInv
  BY <1>9 DEF NetworkInv, Lanes
<1>20. PageInv
  <2>1. PageShape(page)
    BY <1>2, <1>15 DEF PageShape
  <2>2. PageStored(page, draft, saves)
    BY <1>6, <1>7, <1>15 DEF PageStored
  <2>3. \A e : FailedFits(e, page, saves, requests)
    BY <1>15 DEF FailedFits
  <2> QED
    BY <1>13, <2>1, <2>2, <2>3 DEF PageInv, PageFits
<1> QED
  BY <1>16, <1>18, <1>19, <1>20 DEF IInv

LEMMA UserKeeps ==
  ASSUME IInv, NEW e \in Editors, User(e)
  PROVE  IInv'
BY EditKeeps, TypeKeeps, RetryKeeps, ReloadKeeps, StartTaskKeeps DEF User

LEMMA TroubleKeeps ==
  ASSUME IInv, NEW e \in Editors, Trouble(e)
  PROVE  IInv'
<1>1. CASE LoadSettles(e, NoCatalog) /\ Move
  <2>1. NoCatalog \in Catalogs \cup {NoCatalog} /\ moves' \in Nat
    BY <1>1, MoveFact
  <2> QED
    BY <1>1, <2>1, LoadSettlesKeeps
<1>2. CASE LoadFails(e) \/ SaveFails(e) \/ CatalogFails(e) \/ TaskFails(e)
  BY <1>2, LoadFailsKeeps, SaveFailsKeeps, CatalogFailsKeeps, TaskFailsKeeps
<1> QED
  BY <1>1, <1>2 DEF Trouble

LEMMA ProceedKeeps ==
  ASSUME IInv, NEW e \in Editors, Proceed(e)
  PROVE  IInv'
<1>1. CASE LoadSettles(e, active) /\ UNCHANGED moves
  <2>1. active \in Catalogs \cup {NoCatalog} /\ moves' \in Nat
    BY <1>1, Typed
  <2> QED
    BY <1>1, <2>1, LoadSettlesKeeps
<1>2. CASE ProjectArrives(e) \/ TimerFires(e) \/ CatalogArrives(e) \/ Flush(e) \/ JudgeConflict(e)
  BY <1>2, ProjectArrivesKeeps, TimerFiresKeeps, CatalogArrivesKeeps, FlushKeeps,
     JudgeConflictKeeps
<1>3. CASE \E a \in answers : SaveAnswered(e, a) \/ TaskAnswered(e, a)
  BY <1>3, SaveAnsweredKeeps, TaskAnsweredKeeps
<1> QED
  BY <1>1, <1>2, <1>3 DEF Proceed

LEMMA ServingKeeps ==
  ASSUME IInv, Serving
  PROVE  IInv'
BY BeginKeeps, ReplaceKeeps, ReadContextKeeps, StoreKeeps DEF Serving, Serve

LEMMA StutterKeeps ==
  ASSUME IInv, UNCHANGED vars
  PROVE  IInv'
<1>1. /\ draft' = draft /\ saves' = saves /\ calculated' = calculated /\ editor' = editor
      /\ requests' = requests /\ answers' = answers /\ moves' = moves /\ active' = active
  BY DEF vars, server, network
<1> QED
  BY <1>1 DEF IInv, TypeOK, ServerTypeOK, ServerInv, NetworkInv, PageInv

LEMMA NextKeeps ==
  ASSUME IInv, [Next]_vars
  PROVE  IInv'
BY UserKeeps, TroubleKeeps, ProceedKeeps, ServingKeeps, ActivatingKeeps, StutterKeeps DEF Next

\* What pages, requests, answers and stored versions say of each other stays
\* consistent under every interleaving of editors, losses, retries and catalogs.
THEOREM Invariance ==
  Spec => []IInv
BY InitHolds, NextKeeps, PTL DEF Spec

\* Every variable stays in its type.
THEOREM TypeCorrect ==
  Spec => []TypeOK
<1>1. IInv => TypeOK
  BY DEF IInv
<1> QED
  BY <1>1, Invariance, PTL

\* What a page says it has saved is what the server has stored.
THEOREM SavedIsAlwaysStored ==
  Spec => []SavedIsStored
<1>1. IInv => SavedIsStored
  BY DEF IInv, PageInv, PageFits, PageShape, PageStored, SavedIsStored
<1> QED
  BY <1>1, Invariance, PTL

\* A conflict is shown only for a save that is not stored, after a newer one that is.
THEOREM ConflictIsAlwaysReal ==
  Spec => []ConflictIsReal
<1>1. IInv => ConflictIsReal
  BY DEF IInv, PageInv, PageFits, PageStored, Missed, ConflictIsReal, Stored
<1> QED
  BY <1>1, Invariance, PTL

\* A result not marked as stale was calculated from the document on display and
\* with the catalog of its version.
THEOREM ResultShownIsAlwaysCurrent ==
  Spec => []ResultShownIsCurrent
<1>1. ASSUME IInv PROVE ResultShownIsCurrent
  <2>1. SUFFICES ASSUME NEW e \in Editors, editor[e].mode = "ready",
                        editor[e].shown # NoCalculation, ~ResultStale(editor[e])
                 PROVE  /\ editor[e].shown.content = editor[e].doc
                        /\ editor[e].shown.catalog = saves[editor[e].acked.version].catalog
    BY DEF ResultShownIsCurrent
  <2>2. PageStored(editor[e], draft, saves)
    BY <1>1, PageFact DEF PageFits
  <2>3. Recorded(editor[e].shown, saves)
    BY <2>1, <2>2 DEF PageStored
  <2>4. /\ editor[e].shown.version = editor[e].acked.version
        /\ editor[e].doc = editor[e].acked.content
    BY <2>1 DEF ResultStale
  <2> QED
    BY <2>1, <2>2, <2>3, <2>4 DEF PageStored, Recorded
<1> QED
  BY <1>1, Invariance, PTL

\* A stored calculation is that of the draft as it is, with the active catalog, and
\* not older than the one it replaces, however long it took.
THEOREM CalculationNeverTurnsBack ==
  Spec => CalculationNeverGoesBack
<1>1. ASSUME IInv, [Next]_vars, calculated' # calculated
      PROVE  /\ calculated'.version >= calculated.version
             /\ calculated' = draft /\ calculated'.catalog = active
  <2>1. PICK r \in requests : Store(r)
    BY <1>1 DEF Next, User, Trouble, Proceed, Serving, Activating, vars, server, network,
       Edit, Type, Retry, Reload, StartTask, ProjectArrives, LoadSettles, LoadFails,
       TimerFires, SaveAnswered, SaveFails, CatalogArrives, CatalogFails, Flush, TaskAnswered,
       JudgeConflict, TaskFails, Save, ActivateCatalog, Serve, Begin, Replace, Write, ReadContext
  <2>2. /\ r.kind = "calculate" /\ r.phase = "begun" /\ ~Stale(r) /\ r.input.catalog = active
        /\ calculated' = r.input
    BY <1>1, <2>1 DEF Store
  <2>3. /\ RequestFits(r, editor[r.editor], draft, saves) /\ Recorded(draft, saves)
        /\ draft \in Drafts /\ r.input \in Drafts /\ calculated \in Calculations
        /\ (calculated = NoCalculation \/ Recorded(calculated, saves))
    BY <1>1, RequestFact DEF Requests
  <2>4. r.input.version = draft.version
    BY <2>2, <2>3 DEF RequestFits, Stale
  <2>5. r.input = draft
    BY <2>3, <2>4 DEF RequestFits, Recorded, Drafts
  <2>6. draft.version >= calculated.version
    <3>1. CASE calculated = NoCalculation
      BY <2>3, <3>1 DEF NoCalculation, Drafts
    <3>2. CASE Recorded(calculated, saves)
      <4>1. Len(saves) = draft.version /\ saves \in Seq(Saves)
        BY <1>1, Typed DEF IInv, ServerInv, History
      <4> QED
        BY <3>2, <4>1, SavedEntry DEF Recorded
    <3> QED
      BY <2>3, <3>1, <3>2
  <2> QED
    BY <2>2, <2>5, <2>6
<1>2. IInv /\ [Next]_vars =>
        [calculated' # calculated =>
           /\ calculated'.version >= calculated.version
           /\ calculated' = draft /\ calculated'.catalog = active]_vars
  BY <1>1
<1> QED
  BY <1>2, Invariance, PTL DEF Spec, CalculationNeverGoesBack

\* No save is lost: every stored version was made, by its page, from the version
\* just before it, and the draft is the last one.
NoSaveIsLost ==
  /\ Len(saves) = draft.version /\ saves[draft.version].content = draft.content
  /\ \A i \in DOMAIN saves : saves[i].base = i - 1

THEOREM NoLostUpdate ==
  Spec => []NoSaveIsLost
<1>1. IInv => NoSaveIsLost
  BY DEF IInv, ServerInv, History, Recorded, Chained, NoSaveIsLost
<1> QED
  BY <1>1, Invariance, PTL

\* No save is stored twice, however often its request was sent or arrived.
THEOREM SavesAreStoredOnce ==
  Spec => []StoredOnce(saves)
<1>1. IInv => StoredOnce(saves)
  BY DEF IInv, ServerInv
<1> QED
  BY <1>1, Invariance, PTL
=============================================================================
