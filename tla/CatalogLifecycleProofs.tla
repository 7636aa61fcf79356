------------------------ MODULE CatalogLifecycleProofs ------------------------
(***************************************************************************)
(* Theorems about CatalogLifecycle: what is published is what was judged   *)
(* and approved, one version of a scope is active, published content is    *)
(* not touched again, and what the pipeline calls valid can be stored, for *)
(* any number of requests, accounts and uploads.                           *)
(***************************************************************************)
EXTENDS CatalogLifecycle, WellFoundedInduction, TLAPS

\* A version, its tables, its approvals and its reports belong together.
Sound(name, version, table, approved, reported) ==
  /\ version.status \in {"validated", "approved", "active", "archived"} =>
       /\ version.validated = version.content /\ version.report = version.content
       /\ table.content = version.content
  /\ version.status \in {"validated", "approved"} => table.rules = "draft"
  /\ version.status \in {"active", "archived"} => table.rules = version.status
  /\ version.status \in {"absent", "draft"} => table.rules \in {None, "draft"}
  /\ version.status \in {"approved", "active", "archived"} =>
       /\ version.approved = version.content
       /\ <<name, version.content>> \in approved
       /\ <<name, version.content, TRUE>> \in reported
VersionsSound ==
  \A name \in Names : Sound(name, versions[name], tables[name], approvals, reports)

OneActive ==
  \A n, m \in Names :
    versions[n].status = "active" /\ versions[m].status = "active" /\ Scope(n) = Scope(m) => n = m

\* A request in flight names a version; one that brings content names an upload, and the
\* upload that stands for its content is one of them.
RequestsMeant ==
  /\ \A u \in Uploads : HashOf(u) \in Uploads /\ uploads[u].valid \in BOOLEAN
  /\ \A r \in Requests : requests[r].step # "idle" =>
       /\ requests[r].name \in Names
       /\ requests[r].kind \in {"import", "approve", "activate"} \/ requests[r].step = "loaded"
            => requests[r].arg \in Uploads
       /\ requests[r].step = "inserting" => requests[r].kind = "import"

\* The candidate of an activation is approved and stays so until the request is done with it.
CandidatesHeld ==
  /\ \A r \in Requests : requests[r].step \in {"locked", "found"} =>
       versions[requests[r].name].status = "approved"
  /\ \A r \in Requests : requests[r].step = "found" => requests[r].name \notin requests[r].seen
  /\ \A r, s \in Requests :
       /\ requests[r].step \in {"locked", "found"} /\ requests[s].step \in {"locked", "found"}
       /\ requests[r].name = requests[s].name
       => r = s

IInv == TypeOK /\ VersionsSound /\ OneActive /\ RequestsMeant /\ CandidatesHeld
-----------------------------------------------------------------------------
(* Types and names do not change with the catalog.                         *)

\* The uploads at hand fix the names and the types.
LEMMA SameNames ==
  ASSUME UNCHANGED uploads
  PROVE  /\ Uploads' = Uploads /\ Names' = Names /\ VersionRows' = VersionRows
         /\ ImportRows' = ImportRows /\ TableRows' = TableRows /\ RequestRows' = RequestRows
<1>1. Uploads' = Uploads
  BY DEF Uploads
<1>2. Names' = Names
  BY <1>1 DEF Names
<1> QED
  BY <1>1, <1>2 DEF VersionRows, ImportRows, TableRows, RequestRows

\* A request that asks for nothing.
LEMMA IdleTyped == Idle \in RequestRows /\ Idle.step = "idle"
BY DEF Idle, RequestRows

\* Approvals and reports are only added.
LEMMA SoundStays ==
  ASSUME NEW name, NEW version, NEW table, NEW approved, NEW reported, NEW approved2, NEW reported2,
         Sound(name, version, table, approved, reported),
         approved \subseteq approved2, reported \subseteq reported2
  PROVE  Sound(name, version, table, approved2, reported2)
BY DEF Sound

\* The request that is told its reply is idle again, the others are where they were.
LEMMA RepliesTyped ==
  ASSUME IInv, UNCHANGED uploads, NEW r \in Requests, Replies(r)
  PROVE  /\ requests' \in [Requests -> RequestRows] /\ requests'[r].step = "idle"
         /\ \A s \in Requests : s # r => requests'[s] = requests[s]
         /\ RequestsMeant'
<1>1. /\ requests \in [Requests -> RequestRows] /\ requests' = [requests EXCEPT ![r] = Idle]
  BY DEF Replies, IInv, TypeOK
<1>2. /\ requests' \in [Requests -> RequestRows] /\ requests'[r].step = "idle"
      /\ \A s \in Requests : s # r => requests'[s] = requests[s]
  BY <1>1, IdleTyped
<1>3. RequestsMeant'
  BY <1>2, SameNames DEF IInv, RequestsMeant, HashOf
<1> QED
  BY <1>2, <1>3

\* A step that leaves the catalog alone needs only to keep the requests in order.
LEMMA QuietKeeps ==
  ASSUME IInv, UNCHANGED <<uploads, catalogVars>>, administrators' \subseteq Actors,
         requests' \in [Requests -> RequestRows], RequestsMeant', CandidatesHeld'
  PROVE  IInv'
<1>1. UNCHANGED <<uploads, versions, imports, reports, approvals, tables, audited>>
  BY DEF catalogVars
<1>2. TypeOK'
  BY <1>1, SameNames DEF IInv, TypeOK
<1>3. VersionsSound' /\ OneActive'
  BY <1>1, SameNames DEF IInv, VersionsSound, OneActive, Scope
<1> QED
  BY <1>2, <1>3 DEF IInv

\* A refusal changes nothing but the request.
LEMMA RefuseKeeps ==
  ASSUME IInv, NEW r \in Requests, Refuse(r)
  PROVE  IInv'
<1>1. Replies(r) /\ UNCHANGED <<uploads, catalogVars, administrators>>
  BY DEF Refuse, Unchanged
<1>2. CandidatesHeld'
  <2>1. versions' = versions
    BY <1>1 DEF catalogVars
  <2> QED
    BY <1>1, <2>1, RepliesTyped DEF IInv, CandidatesHeld
<1> QED
  BY <1>1, <1>2, RepliesTyped, QuietKeeps DEF IInv, TypeOK

\* A request that goes on: no other candidate is held, nor does its name change.
LEMMA GoesKeeps ==
  ASSUME IInv, NEW r \in Requests, Unchanged, NEW next \in RequestRows,
         requests' = [requests EXCEPT ![r] = next],
         next.name \in Names /\ next.step # "idle",
         next.kind \in {"import", "approve", "activate"} \/ next.step = "loaded" => next.arg \in Uploads,
         next.step = "inserting" => next.kind = "import",
         next.step \in {"locked", "found"} =>
           /\ versions[next.name].status = "approved"
           /\ \A s \in Requests \ {r} :
                requests[s].step \in {"locked", "found"} => requests[s].name # next.name,
         next.step = "found" => next.name \notin next.seen
  PROVE  IInv'
<1>1. /\ UNCHANGED <<uploads, catalogVars, administrators>> /\ versions' = versions
      /\ requests \in [Requests -> RequestRows]
  BY DEF Unchanged, catalogVars, IInv, TypeOK
<1>2. /\ requests' \in [Requests -> RequestRows] /\ requests'[r] = next
      /\ \A s \in Requests : s # r => requests'[s] = requests[s]
  BY <1>1
<1>3. RequestsMeant'
  BY <1>1, <1>2, SameNames DEF IInv, RequestsMeant, HashOf
<1>4. CandidatesHeld'
  BY <1>1, <1>2 DEF IInv, CandidatesHeld
<1> QED
  BY <1>1, <1>2, <1>3, <1>4, QuietKeeps DEF IInv, TypeOK

\* A transaction that ends with a change of one version, which becomes sound and not active.
Updated(name) ==
  /\ UNCHANGED <<uploads, administrators>>
  /\ versions' \in [Names -> VersionRows] /\ imports' \in [Names -> Seq(ImportRows)]
  /\ tables' \in [Names -> TableRows] /\ audited' \in [Names -> Statuses \cup {None}]
  /\ reports \subseteq reports' /\ reports' \subseteq Names \X Uploads \X BOOLEAN
  /\ approvals \subseteq approvals' /\ approvals' \subseteq Names \X Uploads
  /\ \A n \in Names : n # name => versions'[n] = versions[n] /\ tables'[n] = tables[n]

\* One version changes, the others and their candidates are as they were.
LEMMA UpdateKeeps ==
  ASSUME IInv, NEW r \in Requests, Replies(r), NEW name \in Names, Updated(name),
         Sound(name, versions'[name], tables'[name], approvals', reports'),
         versions'[name].status # "active" \/ versions'[name] = versions[name],
         \/ versions'[name] = versions[name]
         \/ \A s \in Requests \ {r} : requests[s].step \in {"locked", "found"} => requests[s].name # name
  PROVE  IInv'
<1>1. UNCHANGED uploads /\ Names' = Names
  BY SameNames DEF Updated
<1>2. TypeOK'
  BY <1>1, SameNames, RepliesTyped DEF Updated, IInv, TypeOK
<1>3. VersionsSound'
  <2>1. ASSUME NEW n \in Names
        PROVE  Sound(n, versions'[n], tables'[n], approvals', reports')
    <3>1. CASE n # name
      <4>1. Sound(n, versions[n], tables[n], approvals, reports)
        BY DEF IInv, VersionsSound
      <4>2. /\ versions'[n] = versions[n] /\ tables'[n] = tables[n]
            /\ approvals \subseteq approvals' /\ reports \subseteq reports'
        BY <3>1 DEF Updated
      <4> QED
        BY <4>1, <4>2, SoundStays
    <3> QED
      BY <3>1
  <2> QED
    BY <1>1, <2>1 DEF VersionsSound
<1>4. OneActive'
  BY <1>1 DEF Updated, IInv, OneActive, Scope
<1>5. RequestsMeant'
  BY <1>1, RepliesTyped
<1>6. CandidatesHeld'
  <2>1. /\ requests'[r].step = "idle"
        /\ \A s \in Requests : s # r => requests'[s] = requests[s]
    BY <1>1, RepliesTyped
  <2>2. \A s \in Requests : requests[s].step # "idle" => requests[s].name \in Names
    BY DEF IInv, RequestsMeant
  <2>3. ASSUME NEW s \in Requests, requests'[s].step \in {"locked", "found"}
        PROVE  /\ requests'[s] = requests[s] /\ s # r
               /\ versions[requests[s].name].status = "approved"
               /\ versions'[requests[s].name] = versions[requests[s].name]
    <3>1. requests'[s] = requests[s] /\ s # r
      BY <2>1, <2>3
    <3>2. requests[s].name \in Names /\ versions[requests[s].name].status = "approved"
      BY <2>2, <2>3, <3>1 DEF IInv, CandidatesHeld
    <3> QED
      BY <2>3, <3>1, <3>2 DEF Updated
  <2>4. \A s \in Requests : requests'[s].step \in {"locked", "found"} =>
          versions'[requests'[s].name].status = "approved"
    BY <2>3
  <2>5. \A s \in Requests : requests'[s].step = "found" => requests'[s].name \notin requests'[s].seen
    BY <2>3 DEF IInv, CandidatesHeld
  <2>6. \A s, q \in Requests :
          /\ requests'[s].step \in {"locked", "found"} /\ requests'[q].step \in {"locked", "found"}
          /\ requests'[s].name = requests'[q].name
          => s = q
    BY <2>3 DEF IInv, CandidatesHeld
  <2> QED
    BY <2>4, <2>5, <2>6 DEF CandidatesHeld
<1> QED
  BY <1>2, <1>3, <1>4, <1>5, <1>6 DEF IInv
-----------------------------------------------------------------------------
(* The actions.                                                            *)

\* A bundle has its own hash.
LEMMA HashOfItself ==
  ASSUME NEW b
  PROVE  SameHash(b, b)
<1>1. ASSUME NEW f PROVE SameRows(f, f)
  <2> DEFINE h == [i \in DOMAIN f |-> i]
  <2>1. h \in [DOMAIN f -> DOMAIN f] /\ \A i \in DOMAIN f : h[i] = i
    OBVIOUS
  <2> HIDE DEF h
  <2> QED
    BY <2>1 DEF SameRows
<1> QED
  BY <1>1 DEF SameHash

\* There is no version at the start.
LEMMA InitIInv == Init => IInv
<1> SUFFICES ASSUME Init PROVE IInv
  OBVIOUS
<1>1. PICK set \in UploadSets : uploads = Judgement(set)
  BY DEF Init
<1>2. Uploads = set
  BY <1>1 DEF Uploads, Judgement
<1>3. \A u \in Uploads : HashOf(u) \in Uploads
  <2> SUFFICES ASSUME NEW u \in set PROVE HashOf(u) \in set
    BY <1>2
  <2> DEFINE bundle == [w \in set |-> Bundle(Catalogue[w])]
  <2>1. HashOf(u) = CHOOSE w \in set : SameHash(bundle[w], bundle[u])
    BY <1>1 DEF HashOf, Judgement
  <2> HIDE DEF bundle
  <2>2. SameHash(bundle[u], bundle[u])
    BY HashOfItself
  <2> QED
    BY <2>1, <2>2
<1>4. \A u \in Uploads : uploads[u].valid \in BOOLEAN
  BY <1>1, <1>2, Zenon DEF Judgement, Valid
<1>5. TypeOK
  BY <1>1, <1>2, IdleTyped DEF Init, TypeOK, VersionRows, Absent, TableRows, Nothing
<1>6. VersionsSound
  BY DEF Init, VersionsSound, Sound, Absent, Nothing
<1>7. OneActive /\ RequestsMeant /\ CandidatesHeld
  BY <1>3, <1>4 DEF Init, OneActive, Absent, RequestsMeant, CandidatesHeld, Idle
<1> QED
  BY <1>5, <1>6, <1>7 DEF IInv

\* The newest of some rows is one of them.
LEMMA Newest ==
  ASSUME NEW n \in Nat, NEW S \in SUBSET (1..n), S # {}
  PROVE  \E i \in S : \A j \in S : j <= i
<1> DEFINE R == {pair \in Nat \X Nat : pair[1] < pair[2]}
           Older == {k \in 0..n : n - k \in S}
<1>1. IsWellFoundedOn(R, Nat)
  <2>1. R = OpToRel(<, Nat)
    BY Zenon DEF OpToRel
  <2> QED
    BY <2>1, NatLessThanWellFounded, Zenon
<1>2. Older \subseteq Nat /\ Older # {}
  <2>1. PICK i \in S : TRUE
    OBVIOUS
  <2>2. n - i \in 0..n /\ n - (n - i) = i
    BY <2>1
  <2>3. n - i \in Older
    BY <2>1, <2>2
  <2>4. Older \subseteq 0..n /\ 0..n \subseteq Nat
    OBVIOUS
  <2> QED
    BY <2>3, <2>4
<1>3. PICK k \in Older : \A m \in Older : <<m, k>> \notin R
  <2> HIDE DEF R, Older
  <2> QED
    BY <1>1, <1>2, WFMin, Zenon
<1>4. ASSUME NEW j \in S PROVE j <= n - k
  <2>1. n - j \in Older /\ n - j \in Nat /\ k \in Nat
    OBVIOUS
  <2>2. ~(n - j < k)
    BY <1>3, <2>1
  <2> QED
    BY <2>1, <2>2
<1> QED
  BY <1>4

\* What the row of a request says that is served.
LEMMA RequestTypes ==
  ASSUME IInv, NEW r \in Requests
  PROVE  /\ requests[r] \in RequestRows
         /\ requests[r].step # "idle" =>
              /\ requests[r].name \in Names
              /\ versions[requests[r].name] \in VersionRows
              /\ imports[requests[r].name] \in Seq(ImportRows)
              /\ tables[requests[r].name] \in TableRows
              /\ Sound(requests[r].name, versions[requests[r].name], tables[requests[r].name],
                       approvals, reports)
BY DEF IInv, TypeOK, RequestsMeant, VersionsSound

\* A request in flight names a version, and an upload where it needs one.
LEMMA AskKeeps ==
  ASSUME IInv, NEW r \in Requests, Ask(r)
  PROVE  IInv'
<1>1. PICK actor \in administrators, kind \in {"import", "validate", "approve", "activate", "archive"},
           u \in Uploads :
        /\ uploads[u].name # << >>
        /\ requests' = [requests EXCEPT ![r] = Request(actor, kind, u)]
  BY DEF Ask
<1>2. PICK next : next = Request(actor, kind, u)
  OBVIOUS
<1>3. actor \in Actors /\ HashOf(u) \in Uploads /\ uploads[u].name \in Names
  BY <1>1 DEF IInv, RequestsMeant, Names, TypeOK
<1>4. /\ next.step = "asked" /\ next.kind = kind /\ next.name = uploads[u].name
      /\ next.actor = actor /\ next.seen = {}
      /\ DOMAIN next = {"step", "kind", "actor", "name", "arg", "seen"}
  BY <1>2 DEF Request, Idle
<1>5. next.arg \in Uploads \cup {None} /\ (kind \in {"import", "approve", "activate"} => next.arg \in Uploads)
  BY <1>2, <1>3 DEF Request, Idle
<1>6. next \in RequestRows
  <2>1. next = [step |-> next.step, kind |-> next.kind, actor |-> next.actor, name |-> next.name,
                arg |-> next.arg, seen |-> next.seen]
    BY <1>2 DEF Request, Idle
  <2> QED
    BY <1>3, <1>4, <1>5, <2>1 DEF RequestRows
<1>7. requests' = [requests EXCEPT ![r] = next] /\ Unchanged
  BY <1>1, <1>2 DEF Ask
<1> QED
  BY <1>3, <1>4, <1>5, <1>6, <1>7, GoesKeeps

\* A request that only takes its next step.
LEMMA StepOnKeeps ==
  ASSUME IInv, NEW r \in Requests, Unchanged, requests[r].step # "idle",
         NEW step \in {"inserting", "locked"}, Goes(r, step),
         step = "inserting" => requests[r].kind = "import",
         requests[r].kind \in {"import", "activate"},
         step = "locked" =>
           /\ versions[requests[r].name].status = "approved"
           /\ Unlocked(requests[r].name)
  PROVE  IInv'
<1>1. PICK next : next = [requests[r] EXCEPT !.step = step]
  OBVIOUS
<1>2. requests[r] \in RequestRows /\ requests[r].name \in Names /\ requests[r].arg \in Uploads
  BY RequestTypes DEF IInv, RequestsMeant
<1>3. /\ next.step = step /\ next.kind = requests[r].kind /\ next.name = requests[r].name
      /\ next.arg = requests[r].arg
  BY <1>1, <1>2 DEF RequestRows
<1>4. next \in RequestRows
  BY <1>1, <1>2 DEF RequestRows
<1>5. requests' = [requests EXCEPT ![r] = next]
  BY <1>1 DEF Goes
<1> QED
  BY <1>2, <1>3, <1>4, <1>5, GoesKeeps DEF Unlocked

\* An import finds no version.
LEMMA ImportIntoNewKeeps ==
  ASSUME IInv, NEW r \in Requests, ImportIntoNew(r)
  PROVE  IInv'
BY StepOnKeeps DEF ImportIntoNew, At

\* A candidate is approved when it is locked, and nobody else holds it.
LEMMA LockCandidateKeeps ==
  ASSUME IInv, NEW r \in Requests, LockCandidate(r)
  PROVE  IInv'
BY StepOnKeeps, RefuseKeeps DEF LockCandidate, At, Transaction

\* Every import of a version names an upload.
LEMMA RowTypes ==
  ASSUME NEW rows \in Seq(ImportRows)
  PROVE  \A i \in DOMAIN rows : rows[i] \in ImportRows
OBVIOUS

\* A validation loads the newest import that is not superseded.
LEMMA LoadDraftKeeps ==
  ASSUME IInv, NEW r \in Requests, LoadDraft(r)
  PROVE  IInv'
<1> PICK name : name = requests[r].name
  OBVIOUS
<1> PICK rows : rows = imports[name]
  OBVIOUS
<1>1. requests[r].step = "asked" /\ requests[r] \in RequestRows /\ name \in Names
      /\ rows \in Seq(ImportRows)
  BY RequestTypes DEF LoadDraft, At
<1>2. CASE Live(name) = {}
  BY <1>2, RefuseKeeps DEF LoadDraft
<1>3. CASE Live(name) # {}
  <2> PICK newest : newest = CHOOSE i \in Live(name) : \A j \in Live(name) : j <= i
    OBVIOUS
  <2>1. newest \in Live(name)
    <3>1. Live(name) \subseteq 1..Len(rows) /\ Len(rows) \in Nat
      BY <1>1 DEF Live
    <3>2. PICK i \in Live(name) : \A j \in Live(name) : j <= i
      BY <1>3, <3>1, Newest
    <3> QED
      BY <3>2
  <2>2. rows[newest] \in ImportRows
    <3>1. newest \in DOMAIN rows
      BY <2>1 DEF Live
    <3> QED
      BY <1>1, <3>1, RowTypes
  <2>3. PICK upload \in Uploads : upload = rows[newest].upload
    BY <2>2 DEF ImportRows
  <2>4. PICK next : next = [requests[r] EXCEPT !.step = "loaded", !.arg = upload]
    OBVIOUS
  <2>5. next \in RequestRows /\ next.step = "loaded" /\ next.arg = upload /\ next.name = name
    BY <1>1, <2>4 DEF RequestRows
  <2>6. requests' = [requests EXCEPT ![r].step = "loaded", ![r].arg = upload] /\ Unchanged
    BY <1>3, <2>3 DEF LoadDraft
  <2>7. requests' = [requests EXCEPT ![r] = next]
    BY <1>1, <2>4, <2>6 DEF IInv, TypeOK
  <2> QED
    BY <1>1, <2>5, <2>6, <2>7, GoesKeeps
<1> QED
  BY <1>2, <1>3

LEMMA FindPreviousKeeps ==
  ASSUME IInv, NEW r \in Requests, FindPrevious(r)
  PROVE  IInv'
<1>1. /\ requests[r].step = "locked" /\ requests[r] \in RequestRows /\ requests[r].name \in Names
  BY RequestTypes DEF FindPrevious
<1>2. PICK seen \in SUBSET Names : seen = ActiveBeside(requests[r].name)
  BY DEF ActiveBeside
<1>3. requests[r].name \notin seen
  BY <1>2 DEF ActiveBeside
<1>4. PICK next : next = [requests[r] EXCEPT !.step = "found", !.seen = seen]
  OBVIOUS
<1>5. next \in RequestRows /\ next.step = "found" /\ next.seen = seen
      /\ next.name = requests[r].name /\ next.kind = requests[r].kind /\ next.arg = requests[r].arg
  BY <1>1, <1>4 DEF RequestRows
<1>6. requests' = [requests EXCEPT ![r].step = "found", ![r].seen = seen] /\ Unchanged
  BY <1>2 DEF FindPrevious
<1>7. requests' = [requests EXCEPT ![r] = next]
  BY <1>1, <1>4, <1>6 DEF IInv, TypeOK
<1>8. /\ next.kind \in {"import", "approve", "activate"} => next.arg \in Uploads
      /\ versions[next.name].status = "approved"
      /\ \A s \in Requests \ {r} :
           requests[s].step \in {"locked", "found"} => requests[s].name # next.name
  BY <1>1, <1>5 DEF IInv, RequestsMeant, CandidatesHeld
<1> QED
  BY <1>1, <1>3, <1>5, <1>6, <1>7, <1>8, GoesKeeps

\* Types of a staged import, of superseded ones, and of judged ones.
LEMMA StageTypes ==
  ASSUME IInv, NEW name \in Names, NEW earlier \in Seq(ImportRows), NEW u \in Uploads,
         Stage(name, earlier, u)
  PROVE  /\ imports' \in [Names -> Seq(ImportRows)]
         /\ audited' \in [Names -> Statuses \cup {None}]
<1>1. /\ imports \in [Names -> Seq(ImportRows)] /\ audited \in [Names -> Statuses \cup {None}]
      /\ HashOf(u) \in Uploads /\ "draft" \in Statuses
  BY DEF IInv, TypeOK, RequestsMeant, Statuses
<1>2. Staged(HashOf(u), u) \in ImportRows
  BY <1>1 DEF Staged, ImportRows
<1>3. Append(earlier, Staged(HashOf(u), u)) \in Seq(ImportRows)
  BY <1>2
<1> QED
  BY <1>1, <1>3 DEF Stage

LEMMA SupersededTypes ==
  ASSUME NEW rows \in Seq(ImportRows)
  PROVE  Superseded(rows) \in Seq(ImportRows)
<1>1. \A i \in DOMAIN rows : [rows[i] EXCEPT !.status = "superseded"] \in ImportRows
  BY RowTypes DEF ImportRows
<1>2. DOMAIN rows = 1..Len(rows) /\ Len(rows) \in Nat
  OBVIOUS
<1> QED
  BY <1>1, <1>2 DEF Superseded

\* A version that is staged is a draft, whatever it was, and its rules are not published.
LEMMA StagedVersion ==
  ASSUME IInv, NEW r \in Requests, NEW name \in Names, NEW u \in Uploads, Replies(r),
         NEW earlier \in Seq(ImportRows), Stage(name, earlier, u),
         UNCHANGED <<uploads, reports, approvals, tables, administrators>>,
         versions[name].status \notin {"active", "archived"},
         \A s \in Requests \ {r} : requests[s].step \in {"locked", "found"} => requests[s].name # name,
         \/ versions' = versions
         \/ versions' = [versions EXCEPT ![name] = [Absent EXCEPT !.status = "draft", !.content = HashOf(u)]]
  PROVE  IInv'
<1>1. /\ versions \in [Names -> VersionRows] /\ tables \in [Names -> TableRows]
      /\ versions[name] \in VersionRows /\ HashOf(u) \in Uploads
      /\ Sound(name, versions[name], tables[name], approvals, reports)
  BY DEF IInv, TypeOK, VersionsSound, RequestsMeant
<1>2. PICK version : version = [Absent EXCEPT !.status = "draft", !.content = HashOf(u)]
  OBVIOUS
<1>3. version \in VersionRows /\ version.status = "draft"
  BY <1>1, <1>2 DEF Absent, VersionRows, Statuses
<1>4. /\ versions' \in [Names -> VersionRows]
      /\ \A n \in Names : n # name => versions'[n] = versions[n]
      /\ versions'[name] = versions[name] \/ versions'[name] = version
  BY <1>1, <1>2, <1>3
<1>5. Updated(name)
  BY <1>1, <1>4, StageTypes DEF Updated, IInv, TypeOK
<1>6. versions[name].status \in Statuses \cup {"absent"}
  BY <1>1 DEF VersionRows
<1>7. tables[name].rules \in {None, "draft"}
  BY <1>1, <1>6 DEF Sound, Statuses
<1>8. Sound(name, versions'[name], tables'[name], approvals', reports')
  BY <1>1, <1>3, <1>4, <1>7 DEF Sound
<1>9. versions'[name].status # "active" \/ versions'[name] = versions[name]
  BY <1>3, <1>4
<1> QED
  BY <1>5, <1>8, <1>9, UpdateKeeps

\* A version that is not there is nobody's candidate.
LEMMA InsertDraftKeeps ==
  ASSUME IInv, NEW r \in Requests, InsertDraft(r)
  PROVE  IInv'
<1>1. CASE StatusOf(r) # "absent"
  BY <1>1, RefuseKeeps DEF InsertDraft
<1>2. CASE StatusOf(r) = "absent"
  <2>1. PICK name, u : name = requests[r].name /\ u = requests[r].arg
    OBVIOUS
  <2>2. name \in Names /\ u \in Uploads /\ imports[name] \in Seq(ImportRows)
    BY <2>1, RequestTypes DEF InsertDraft, IInv, RequestsMeant
  <2>3. /\ versions' = [versions EXCEPT ![name] = [Absent EXCEPT !.status = "draft", !.content = HashOf(u)]]
        /\ Stage(name, imports[name], u) /\ Replies(r)
        /\ UNCHANGED <<uploads, reports, approvals, tables, administrators>>
    BY <1>2, <2>1 DEF InsertDraft
  <2>4. versions[name].status = "absent"
    BY <1>2, <2>1 DEF StatusOf
  <2>5. \A s \in Requests : requests[s].step \in {"locked", "found"} => requests[s].name # name
    BY <2>4 DEF IInv, CandidatesHeld
  <2> QED
    BY <2>2, <2>3, <2>4, <2>5, StagedVersion
<1> QED
  BY <1>1, <1>2

\* A version that is replaced is not published and nobody's candidate.
LEMMA ImportIntoExistingKeeps ==
  ASSUME IInv, NEW r \in Requests, ImportIntoExisting(r)
  PROVE  IInv'
<1>1. CASE Immutable(StatusOf(r))
  BY <1>1, RefuseKeeps DEF ImportIntoExisting
<1>2. CASE ~Immutable(StatusOf(r))
  <2>1. PICK name, u : name = requests[r].name /\ u = requests[r].arg
    OBVIOUS
  <2>2. name \in Names /\ u \in Uploads /\ imports[name] \in Seq(ImportRows)
    BY <2>1, RequestTypes DEF ImportIntoExisting, At, IInv, RequestsMeant
  <2>3. PICK earlier : earlier = IF versions[name].content = HashOf(u) THEN imports[name]
                                                                      ELSE Superseded(imports[name])
    OBVIOUS
  <2>4. /\ \/ versions' = versions
           \/ versions' = [versions EXCEPT ![name] = [Absent EXCEPT !.status = "draft", !.content = HashOf(u)]]
        /\ Stage(name, earlier, u) /\ Replies(r)
        /\ UNCHANGED <<uploads, reports, approvals, tables, administrators>>
    BY <1>2, <2>1, <2>3 DEF ImportIntoExisting
  <2>5. earlier \in Seq(ImportRows)
    BY <2>2, <2>3, SupersededTypes
  <2>6. /\ versions[name].status \notin {"active", "archived"}
        /\ \A s \in Requests : requests[s].step \in {"locked", "found"} => requests[s].name # name
    BY <1>2, <2>1 DEF Immutable, StatusOf, ImportIntoExisting, Transaction, Unlocked
  <2> QED
    BY <2>2, <2>4, <2>5, <2>6, StagedVersion
<1> QED
  BY <1>1, <1>2

LEMMA JudgedTypes ==
  ASSUME NEW rows \in Seq(ImportRows), NEW content, NEW valid \in BOOLEAN
  PROVE  Judged(rows, content, valid) \in Seq(ImportRows)
<1>1. \A i \in DOMAIN rows :
        (IF rows[i].content = content
         THEN [rows[i] EXCEPT !.status = IF valid THEN "validated" ELSE "invalid"] ELSE rows[i]) \in ImportRows
  BY RowTypes DEF ImportRows
<1>2. DOMAIN rows = 1..Len(rows) /\ Len(rows) \in Nat
  OBVIOUS
<1> QED
  BY <1>1, <1>2 DEF Judged

LEMMA SaveValidationKeeps ==
  ASSUME IInv, NEW r \in Requests, SaveValidation(r)
  PROVE  IInv'
<1>1. PICK name, u : name = requests[r].name /\ u = requests[r].arg
  OBVIOUS
<1>2. PICK content, valid : content = HashOf(u) /\ valid = uploads[u].valid
  OBVIOUS
<1>3. PICK version : version = versions[name]
  OBVIOUS
<1>4. /\ name \in Names /\ u \in Uploads /\ content \in Uploads /\ valid \in BOOLEAN
      /\ imports[name] \in Seq(ImportRows) /\ version \in VersionRows
      /\ Sound(name, version, tables[name], approvals, reports)
  BY <1>1, <1>2, <1>3, RequestTypes DEF SaveValidation, IInv, RequestsMeant
<1>5. /\ versions \in [Names -> VersionRows] /\ imports \in [Names -> Seq(ImportRows)]
      /\ tables \in [Names -> TableRows] /\ audited \in [Names -> Statuses \cup {None}]
      /\ reports \subseteq Names \X Uploads \X BOOLEAN /\ approvals \subseteq Names \X Uploads
  BY DEF IInv, TypeOK
<1>6. CASE Refuse(r)
  BY <1>6, RefuseKeeps
<1>7. CASE /\ version.status \in {"draft", "validated"} /\ version.content = content
           /\ reports' = IF \E report \in reports : report[1] = name /\ report[2] = content
                         THEN reports ELSE reports \cup {<<name, content, valid>>}
           /\ imports' = [imports EXCEPT ![name] = Judged(@, content, valid)]
           /\ IF valid /\ version.status = "draft"
              THEN /\ tables' = [tables EXCEPT ![name] = Materialised(content)]
                   /\ versions' = [versions EXCEPT ![name].status = "validated",
                                      ![name].validated = version.content, ![name].report = content]
                   /\ audited' = [audited EXCEPT ![name] = "validated"]
              ELSE UNCHANGED <<tables, versions, audited>>
           /\ Replies(r)
           /\ UNCHANGED <<uploads, approvals, administrators>>
  <2>1. /\ reports \subseteq reports' /\ reports' \subseteq Names \X Uploads \X BOOLEAN
        /\ imports' \in [Names -> Seq(ImportRows)]
    BY <1>4, <1>5, <1>7, JudgedTypes
  <2>2. CASE valid /\ version.status = "draft"
    <3>1. PICK judged : judged = [version EXCEPT !.status = "validated",
                                                 !.validated = version.content, !.report = content]
      OBVIOUS
    <3>2. /\ judged \in VersionRows /\ judged.status = "validated" /\ judged.content = content
          /\ judged.validated = content /\ judged.report = content
      BY <1>4, <1>7, <3>1 DEF VersionRows, Statuses
    <3>3. versions' = [versions EXCEPT ![name] = judged]
      BY <1>3, <1>4, <1>5, <1>7, <2>2, <3>1
    <3>4. Materialised(content) \in TableRows /\ Materialised(content).content = content
          /\ Materialised(content).rules = "draft"
      BY <1>4 DEF Materialised, TableRows
    <3>5. Updated(name)
      BY <1>4, <1>5, <1>7, <2>1, <2>2, <3>2, <3>3, <3>4 DEF Updated, Statuses
    <3>6. versions'[name] = judged /\ tables'[name] = Materialised(content)
      BY <1>4, <1>5, <1>7, <2>2, <3>3
    <3>7. Sound(name, versions'[name], tables'[name], approvals', reports')
      BY <3>2, <3>4, <3>6 DEF Sound
    <3>8. \A s \in Requests : requests[s].step \in {"locked", "found"} => requests[s].name # name
      BY <1>1 DEF SaveValidation, Transaction, Unlocked
    <3> QED
      BY <1>4, <1>7, <3>2, <3>5, <3>6, <3>7, <3>8, UpdateKeeps
  <2>3. CASE ~(valid /\ version.status = "draft")
    <3>1. UNCHANGED <<tables, versions, audited, approvals>>
      BY <1>7, <2>3
    <3>2. Updated(name)
      BY <1>5, <1>7, <2>1, <3>1 DEF Updated
    <3>3. Sound(name, versions'[name], tables'[name], approvals', reports')
      BY <1>3, <1>4, <2>1, <3>1, SoundStays
    <3> QED
      BY <1>4, <1>7, <3>1, <3>2, <3>3, UpdateKeeps
  <2> QED
    BY <2>2, <2>3
<1> QED
  BY <1>1, <1>2, <1>3, <1>6, <1>7 DEF SaveValidation, SameContent

\* An approval finds the content judged, its tables materialised and a valid report.
LEMMA ApproveKeeps ==
  ASSUME IInv, NEW r \in Requests, Approve(r)
  PROVE  IInv'
<1>1. PICK name, content : name = requests[r].name /\ content = requests[r].arg
  OBVIOUS
<1>2. PICK version : version = versions[name]
  OBVIOUS
<1>3. /\ name \in Names /\ content \in Uploads /\ version \in VersionRows
      /\ Sound(name, version, tables[name], approvals, reports)
  BY <1>1, <1>2, RequestTypes DEF Approve, At, IInv, RequestsMeant
<1>4. /\ versions \in [Names -> VersionRows] /\ approvals \subseteq Names \X Uploads
      /\ audited \in [Names -> Statuses \cup {None}]
  BY DEF IInv, TypeOK
<1>5. CASE Refuse(r)
  BY <1>5, RefuseKeeps
<1>6. CASE /\ version.status = "validated" /\ version.content = content
           /\ <<name, version.report, TRUE>> \in reports
           /\ approvals' = approvals \cup {<<name, content>>}
           /\ versions' = [versions EXCEPT ![name].status = "approved", ![name].approved = version.content]
           /\ audited' = [audited EXCEPT ![name] = "approved"]
           /\ Replies(r)
           /\ UNCHANGED <<uploads, imports, reports, tables, administrators>>
  <2>1. PICK approved : approved = [version EXCEPT !.status = "approved", !.approved = version.content]
    OBVIOUS
  <2>2. /\ approved \in VersionRows /\ approved.status = "approved" /\ approved.content = content
        /\ approved.approved = content /\ approved.validated = version.validated
        /\ approved.report = version.report
    BY <1>3, <1>6, <2>1 DEF VersionRows, Statuses
  <2>3. versions' = [versions EXCEPT ![name] = approved]
    BY <1>2, <1>3, <1>4, <1>6, <2>1
  <2>4. /\ versions' \in [Names -> VersionRows] /\ versions'[name] = approved
        /\ \A n \in Names : n # name => versions'[n] = versions[n]
    BY <1>3, <1>4, <2>2, <2>3
  <2>5. Updated(name)
    BY <1>3, <1>4, <1>6, <2>4 DEF Updated, IInv, TypeOK, Statuses
  <2>6. Sound(name, versions'[name], tables'[name], approvals', reports')
    <3>1. /\ version.validated = content /\ version.report = content
          /\ tables[name].content = content /\ tables[name].rules = "draft"
      BY <1>3, <1>6 DEF Sound
    <3>2. <<name, content>> \in approvals' /\ <<name, content, TRUE>> \in reports'
      BY <1>6, <3>1
    <3>3. /\ versions'[name] = approved /\ tables'[name] = tables[name]
          /\ approved.validated = content /\ approved.report = content
      BY <1>6, <2>2, <2>4, <3>1
    <3> QED
      BY <2>2, <3>1, <3>2, <3>3 DEF Sound
  <2>7. \A s \in Requests : requests[s].step \in {"locked", "found"} => requests[s].name # name
    BY <1>1 DEF Approve, Transaction, Unlocked
  <2> QED
    BY <1>3, <1>6, <2>2, <2>4, <2>5, <2>6, <2>7, UpdateKeeps
<1> QED
  BY <1>1, <1>2, <1>5, <1>6 DEF Approve

\* What becomes of the rules of a version that is archived.
LEMMA RetiredTable ==
  ASSUME NEW name \in Names, tables[name] \in TableRows, tables[name].rules = "active"
  PROVE  /\ Retired(name) \in TableRows /\ Retired(name).rules = "archived"
         /\ Retired(name).content = tables[name].content
BY DEF Retired, TableRows

\* An active version that is archived stays sound.
LEMMA ArchivedIsSound ==
  ASSUME IInv, NEW name \in Names, versions[name].status = "active",
         NEW version, version = [versions[name] EXCEPT !.status = "archived"]
  PROVE  /\ version \in VersionRows /\ version.status = "archived"
         /\ Retired(name) \in TableRows /\ Sound(name, version, Retired(name), approvals, reports)
<1>1. /\ versions[name] \in VersionRows /\ tables[name] \in TableRows
      /\ Sound(name, versions[name], tables[name], approvals, reports)
  BY DEF IInv, TypeOK, VersionsSound
<1>2. /\ version \in VersionRows /\ version.status = "archived"
      /\ version.content = versions[name].content /\ version.validated = versions[name].validated
      /\ version.report = versions[name].report /\ version.approved = versions[name].approved
  BY <1>1 DEF VersionRows, Statuses
<1>3. tables[name].rules = "active"
  BY <1>1 DEF Sound
<1> QED
  BY <1>1, <1>2, <1>3, RetiredTable DEF Sound

\* The rules are archived with their version.
LEMMA ArchiveKeeps ==
  ASSUME IInv, NEW r \in Requests, Archive(r)
  PROVE  IInv'
<1>1. PICK name : name = requests[r].name
  OBVIOUS
<1>2. name \in Names /\ versions \in [Names -> VersionRows] /\ tables \in [Names -> TableRows]
  BY <1>1, RequestTypes DEF Archive, At, IInv, TypeOK
<1>3. CASE versions[name].status # "active"
  BY <1>1, <1>3, RefuseKeeps DEF Archive
<1>4. CASE versions[name].status = "active"
  <2>1. PICK version : version = [versions[name] EXCEPT !.status = "archived"]
    OBVIOUS
  <2>2. /\ version \in VersionRows /\ version.status = "archived"
        /\ Retired(name) \in TableRows /\ Sound(name, version, Retired(name), approvals, reports)
    BY <1>2, <1>4, <2>1, ArchivedIsSound
  <2>3. /\ versions' = [versions EXCEPT ![name] = version]
        /\ tables' = [tables EXCEPT ![name] = Retired(name)]
        /\ audited' = [audited EXCEPT ![name] = "archived"]
        /\ Replies(r) /\ UNCHANGED <<uploads, imports, reports, approvals, administrators>>
    BY <1>1, <1>2, <1>4, <2>1 DEF Archive
  <2>4. Updated(name)
    BY <1>2, <2>2, <2>3 DEF Updated, IInv, TypeOK, Statuses
  <2>5. versions'[name] = version /\ tables'[name] = Retired(name)
    BY <1>2, <2>3
  <2>6. \A s \in Requests : requests[s].step \in {"locked", "found"} => requests[s].name # name
    BY <1>1 DEF Archive, Transaction, Unlocked
  <2> QED
    BY <1>2, <2>2, <2>3, <2>4, <2>5, <2>6, UpdateKeeps
<1> QED
  BY <1>3, <1>4

\* The active versions that were found are archived and the candidate becomes active.
Archived(r) == {n \in requests[r].seen : versions[n].status = "active"}

Switched(r, name) ==
  /\ versions' = [n \in Names |->
       IF n \in Archived(r) THEN [versions[n] EXCEPT !.status = "archived"]
       ELSE IF n = name THEN [versions[n] EXCEPT !.status = "active"] ELSE versions[n]]
  /\ tables' = [n \in Names |->
       IF n \in Archived(r) THEN Retired(n)
       ELSE IF n = name THEN [tables[n] EXCEPT !.rules = "active"] ELSE tables[n]]
  /\ audited' = [n \in Names |->
       IF n \in Archived(r) THEN "archived" ELSE IF n = name THEN "active" ELSE audited[n]]
  /\ ActiveBeside(name) \subseteq Archived(r)
  /\ \A n \in requests[r].seen : Unlocked(n)
  /\ Replies(r) /\ UNCHANGED <<uploads, imports, reports, approvals, administrators>>

\* An activation that is not refused archives every other active version of its scope.
LEMMA ActivateSwitches ==
  ASSUME NEW r \in Requests, Activate(r)
  PROVE  requests[r].step = "found" /\ (Refuse(r) \/ Switched(r, requests[r].name))
BY DEF Activate, Switched, Archived, ScopeTaken

\* What a version is after the switch.
LEMMA SwitchedVersion ==
  ASSUME IInv, NEW r \in Requests, requests[r].step = "found", Switched(r, requests[r].name),
         NEW n \in Names
  PROVE  /\ versions'[n] \in VersionRows /\ tables'[n] \in TableRows
         /\ audited'[n] \in Statuses \cup {None}
         /\ Sound(n, versions'[n], tables'[n], approvals, reports)
         /\ n \in Archived(r) => n # requests[r].name /\ versions'[n].status = "archived"
         /\ n = requests[r].name => versions'[n].status = "active"
         /\ n \notin Archived(r) /\ n # requests[r].name => versions'[n] = versions[n]
<1> PICK name : name = requests[r].name
  OBVIOUS
<1>1. /\ versions[n] \in VersionRows /\ tables[n] \in TableRows /\ audited[n] \in Statuses \cup {None}
      /\ Sound(n, versions[n], tables[n], approvals, reports)
      /\ versions[name].status = "approved" /\ name \notin Archived(r)
  BY DEF IInv, TypeOK, VersionsSound, CandidatesHeld, Archived
<1>2. CASE n \in Archived(r)
  <2>1. versions[n].status = "active"
    BY <1>2 DEF Archived
  <2>2. PICK version : version = [versions[n] EXCEPT !.status = "archived"]
    OBVIOUS
  <2>3. versions'[n] = version /\ tables'[n] = Retired(n) /\ audited'[n] = "archived"
    BY <1>2, <2>2 DEF Switched
  <2> QED
    BY <1>1, <1>2, <2>1, <2>2, <2>3, ArchivedIsSound DEF Statuses
<1>3. CASE n = name
  <2>1. PICK version, table : /\ version = [versions[n] EXCEPT !.status = "active"]
                              /\ table = [tables[n] EXCEPT !.rules = "active"]
    OBVIOUS
  <2>2. versions'[n] = version /\ tables'[n] = table /\ audited'[n] = "active"
    BY <1>1, <1>3, <2>1 DEF Switched
  <2>3. /\ version \in VersionRows /\ version.status = "active"
        /\ version.content = versions[n].content /\ version.validated = versions[n].validated
        /\ version.report = versions[n].report /\ version.approved = versions[n].approved
    BY <1>1, <2>1 DEF VersionRows, Statuses
  <2>4. table \in TableRows /\ table.rules = "active" /\ table.content = tables[n].content
    BY <1>1, <2>1 DEF TableRows
  <2>5. Sound(n, version, table, approvals, reports)
    BY <1>1, <1>3, <2>3, <2>4 DEF Sound
  <2> QED
    BY <1>1, <1>3, <2>2, <2>3, <2>4, <2>5 DEF Statuses
<1>4. CASE n \notin Archived(r) /\ n # name
  <2>1. versions'[n] = versions[n] /\ tables'[n] = tables[n] /\ audited'[n] = audited[n]
    BY <1>4 DEF Switched
  <2> QED
    BY <1>1, <1>4, <2>1
<1> QED
  BY <1>2, <1>3, <1>4

\* After the switch the candidate is the one active version of its scope.
LEMMA ActivateKeeps ==
  ASSUME IInv, NEW r \in Requests, Activate(r)
  PROVE  IInv'
<1>1. requests[r].step = "found"
  BY ActivateSwitches
<1>2. CASE Refuse(r)
  BY <1>2, RefuseKeeps
<1>3. CASE Switched(r, requests[r].name)
  <2> PICK name : name = requests[r].name
    OBVIOUS
  <2>1. /\ UNCHANGED <<uploads, imports, reports, approvals, administrators>> /\ Replies(r)
        /\ name \in Names /\ Names' = Names
    BY <1>1, <1>3, RequestTypes, SameNames DEF Switched
  <2>2. /\ DOMAIN versions' = Names /\ DOMAIN tables' = Names /\ DOMAIN audited' = Names
        /\ versions' = [n \in Names |-> versions'[n]] /\ tables' = [n \in Names |-> tables'[n]]
        /\ audited' = [n \in Names |-> audited'[n]]
    BY <1>3 DEF Switched
  <2>3. /\ versions' \in [Names -> VersionRows] /\ tables' \in [Names -> TableRows]
        /\ audited' \in [Names -> Statuses \cup {None}]
    BY <1>1, <1>3, <2>2, SwitchedVersion
  <2>4. TypeOK'
    BY <2>1, <2>3, SameNames, RepliesTyped DEF IInv, TypeOK
  <2>5. VersionsSound'
    <3>1. \A n \in Names : Sound(n, versions'[n], tables'[n], approvals', reports')
      BY <1>1, <1>3, <2>1, SwitchedVersion
    <3> QED
      BY <2>1, <3>1 DEF VersionsSound
  <2>6. OneActive'
    <3>1. ASSUME NEW n \in Names, versions'[n].status = "active", n # name
          PROVE  versions[n].status = "active" /\ n \notin Archived(r)
      BY <1>1, <1>3, <3>1, SwitchedVersion
    <3>2. ASSUME NEW n \in Names, versions'[n].status = "active", n # name
          PROVE  Scope(n) # Scope(name)
      BY <1>3, <3>1, <3>2 DEF Switched, ActiveBeside
    <3> SUFFICES ASSUME NEW n \in Names, NEW m \in Names, versions'[n].status = "active",
                        versions'[m].status = "active", Scope(n) = Scope(m)
                 PROVE  n = m
      BY <2>1 DEF OneActive, Scope
    <3>3. CASE n = name \/ m = name
      BY <3>2, <3>3
    <3>4. CASE n # name /\ m # name
      BY <3>1, <3>4 DEF IInv, OneActive
    <3> QED
      BY <3>3, <3>4
  <2>7. RequestsMeant'
    BY <2>1, RepliesTyped
  <2>8. CandidatesHeld'
    <3>1. /\ requests'[r].step = "idle"
          /\ \A s \in Requests : s # r => requests'[s] = requests[s]
      BY <2>1, RepliesTyped
    <3>2. ASSUME NEW s \in Requests, requests'[s].step \in {"locked", "found"}
          PROVE  requests'[s] = requests[s] /\ versions'[requests[s].name].status = "approved"
      <4>1. s # r /\ requests'[s] = requests[s] /\ requests[s].name \in Names
        BY <3>1, <3>2 DEF IInv, RequestsMeant
      <4>2. versions[requests[s].name].status = "approved" /\ requests[s].name # name
        BY <1>1, <3>2, <4>1 DEF IInv, CandidatesHeld
      <4>3. requests[s].name \notin Archived(r)
        BY <4>2 DEF Archived
      <4>4. versions'[requests[s].name] = versions[requests[s].name]
        BY <1>1, <1>3, <4>1, <4>2, <4>3, SwitchedVersion
      <4> QED
        BY <4>1, <4>2, <4>4
    <3> QED
      BY <3>2 DEF IInv, CandidatesHeld
  <2> QED
    BY <2>4, <2>5, <2>6, <2>7, <2>8 DEF IInv
<1> QED
  BY <1>2, <1>3, ActivateSwitches

\* Accounts come and go; what is published does not depend on them.
LEMMA OthersKeep ==
  ASSUME IInv,
         \/ UNCHANGED vars
         \/ \E r \in Requests : Forbid(r)
         \/ \E a \in Actors : Demote(a) \/ Reinstate(a)
  PROVE  IInv'
<1>1. CASE \E r \in Requests : Forbid(r)
  BY <1>1, RefuseKeeps DEF Forbid
<1>2. CASE UNCHANGED vars \/ \E a \in Actors : Demote(a) \/ Reinstate(a)
  <2>1. UNCHANGED <<uploads, catalogVars, requests>> /\ administrators' \subseteq Actors
    BY <1>2 DEF vars, catalogVars, Demote, Reinstate, IInv, TypeOK
  <2>2. requests' \in [Requests -> RequestRows] /\ RequestsMeant' /\ CandidatesHeld'
    BY <2>1, SameNames DEF catalogVars, IInv, TypeOK, RequestsMeant, CandidatesHeld, HashOf
  <2> QED
    BY <2>1, <2>2, QuietKeeps
<1> QED
  BY <1>1, <1>2

\* The inductive invariant holds in every reachable state.
THEOREM Invariance == Spec => []IInv
<1>1. IInv /\ [Next]_vars => IInv'
  BY AskKeeps, ImportIntoNewKeeps, InsertDraftKeeps, ImportIntoExistingKeeps, LoadDraftKeeps,
     SaveValidationKeeps, ApproveKeeps, LockCandidateKeeps, FindPreviousKeeps, ActivateKeeps,
     ArchiveKeeps, OthersKeep DEF Next
<1> QED
  BY <1>1, InitIInv, PTL DEF Spec

\* Every variable keeps its type.
THEOREM TypeCorrect == Spec => []TypeOK
<1>1. IInv => TypeOK
  BY DEF IInv
<1> QED
  BY <1>1, Invariance, PTL

\* What is approved, active or archived is what was judged and approved, down to its tables,
\* and a scope has one active version and one active rule set.
THEOREM PublishedWasApproved == Spec => []PublishedIsApproved
<1>1. IInv => PublishedIsApproved
  <2> SUFFICES ASSUME IInv PROVE PublishedIsApproved
    OBVIOUS
  <2>1. \A name \in Names :
          /\ Sound(name, versions[name], tables[name], approvals, reports)
          /\ versions[name].status \in Statuses \cup {"absent"}
    BY DEF IInv, VersionsSound, TypeOK, VersionRows
  <2>2. ASSUME NEW name \in Names, Published(name)
        PROVE  /\ <<name, versions[name].content>> \in approvals
               /\ <<name, versions[name].content, TRUE>> \in reports
               /\ tables[name].content = versions[name].content
               /\ versions[name].content = versions[name].validated
               /\ versions[name].content = versions[name].approved
               /\ tables[name].rules = IF versions[name].status = "approved" THEN "draft"
                                                                      ELSE versions[name].status
    BY <2>1, <2>2 DEF Sound, Published
  <2>3. ASSUME NEW name \in Names
        PROVE  /\ tables[name].rules = "active" => versions[name].status = "active"
               /\ versions[name].status = "active" => ActiveBeside(name) = {}
    <3>1. tables[name].rules = "active" => versions[name].status = "active"
      BY <2>1 DEF Sound, Statuses, None
    <3>2. versions[name].status = "active" => ActiveBeside(name) = {}
      BY DEF ActiveBeside, IInv, OneActive
    <3> QED
      BY <3>1, <3>2
  <2> QED
    BY <2>2, <2>3 DEF PublishedIsApproved
<1> QED
  BY <1>1, Invariance, PTL
-----------------------------------------------------------------------------
(* What is published stays.                                                *)

Stays(before, after, table, table2, rows, rows2) ==
  /\ before.status \in {"active", "archived"} =>
       /\ after \in {before, [before EXCEPT !.status = "archived"]}
       /\ table2.content = table.content
       /\ rows2 = rows
  /\ before.status = "approved" =>
       \/ after \in {before, [before EXCEPT !.status = "active"]}
       \/ after.content # before.content /\ after.status = "draft" /\ after.approved = None

\* Where the catalog does not change everything stays.
LEMMA QuietStays ==
  ASSUME NEW name, UNCHANGED catalogVars
  PROVE  Stays(versions[name], versions'[name], tables[name], tables'[name],
               imports[name], imports'[name])
BY DEF catalogVars, Stays

\* The steps that change the catalog; a refusal is none.
LEMMA ChangingSteps ==
  ASSUME [Next]_vars
  PROVE  \/ UNCHANGED catalogVars
         \/ \E r \in Requests : \/ InsertDraft(r) \/ ImportIntoExisting(r) \/ SaveValidation(r)
                                \/ Approve(r) \/ Activate(r) \/ Archive(r)
<1>1. ASSUME NEW r \in Requests,
             \/ Ask(r) \/ Forbid(r) \/ ImportIntoNew(r) \/ LoadDraft(r) \/ LockCandidate(r) \/ FindPrevious(r)
      PROVE  UNCHANGED catalogVars
  BY <1>1 DEF Ask, Forbid, ImportIntoNew, LoadDraft, LockCandidate, FindPrevious, Refuse, Unchanged
<1>2. ASSUME UNCHANGED vars \/ \E a \in Actors : Demote(a) \/ Reinstate(a)
      PROVE  UNCHANGED catalogVars
  BY <1>2 DEF vars, catalogVars, Demote, Reinstate
<1> QED
  BY <1>1, <1>2 DEF Next

\* An import gives up only content that is not active nor archived, and an approval only
\* for other content.
LEMMA ImportStays ==
  ASSUME IInv, NEW r \in Requests, InsertDraft(r) \/ ImportIntoExisting(r), NEW n \in Names
  PROVE  Stays(versions[n], versions'[n], tables[n], tables'[n], imports[n], imports'[n])
<1>1. CASE Refuse(r)
  BY <1>1, QuietStays DEF Refuse, Unchanged
<1>2. CASE ~Refuse(r)
  <2> PICK name, u : name = requests[r].name /\ u = requests[r].arg
    OBVIOUS
  <2> PICK staged : staged = [Absent EXCEPT !.status = "draft", !.content = HashOf(u)]
    OBVIOUS
  <2>1. /\ name \in Names /\ versions \in [Names -> VersionRows] /\ imports \in [Names -> Seq(ImportRows)]
        /\ staged.status = "draft" /\ staged.content = HashOf(u) /\ staged.approved = None
    BY RequestTypes DEF InsertDraft, ImportIntoExisting, At, IInv, TypeOK, Absent
  <2>2. /\ versions[name].status \notin {"active", "archived"}
        /\ \/ versions' = versions
           \/ /\ versions' = [versions EXCEPT ![name] = staged]
              /\ versions[name].status = "absent" \/ versions[name].content # HashOf(u)
        /\ \E earlier : Stage(name, earlier, u)
        /\ tables' = tables
    BY <1>2 DEF InsertDraft, ImportIntoExisting, StatusOf, Immutable
  <2>3. \A m \in Names : m # name => imports'[m] = imports[m]
    BY <2>1, <2>2 DEF Stage
  <2>4. CASE n # name
    <3>1. versions'[n] = versions[n] /\ imports'[n] = imports[n] /\ tables'[n] = tables[n]
      BY <2>1, <2>2, <2>3, <2>4
    <3> QED
      BY <3>1 DEF Stays
  <2>5. CASE n = name
    <3>1. /\ versions'[n] = versions[n] \/ versions'[n] = staged
          /\ versions'[n] = staged => versions[n].status = "absent" \/ versions[n].content # HashOf(u)
                                      \/ versions[n] = staged
      BY <2>1, <2>2, <2>5
    <3> QED
      BY <2>1, <2>2, <2>5, <3>1 DEF Stays
  <2> QED
    BY <2>4, <2>5
<1> QED
  BY <1>1, <1>2

\* Only a draft or a validated version is judged, and only a validated one approved.
LEMMA JudgementStays ==
  ASSUME IInv, NEW r \in Requests, SaveValidation(r) \/ Approve(r), NEW n \in Names
  PROVE  Stays(versions[n], versions'[n], tables[n], tables'[n], imports[n], imports'[n])
<1>1. CASE Refuse(r)
  BY <1>1, QuietStays DEF Refuse, Unchanged
<1>2. CASE ~Refuse(r)
  <2> PICK name : name = requests[r].name
    OBVIOUS
  <2>1. /\ versions \in [Names -> VersionRows] /\ imports \in [Names -> Seq(ImportRows)]
        /\ tables \in [Names -> TableRows]
    BY DEF IInv, TypeOK
  <2>2. versions[name].status \in {"draft", "validated"}
    BY <1>2 DEF SaveValidation, Approve
  <2>3. CASE n = name
    BY <2>2, <2>3 DEF Stays
  <2>4. CASE n # name
    <3>1. versions'[n] = versions[n] /\ imports'[n] = imports[n] /\ tables'[n] = tables[n]
      BY <1>2, <2>1, <2>4 DEF SaveValidation, Approve
    <3> QED
      BY <3>1 DEF Stays
  <2> QED
    BY <2>3, <2>4
<1> QED
  BY <1>1, <1>2

\* An archived version keeps its content and its tables' content.
LEMMA ArchiveStays ==
  ASSUME IInv, NEW r \in Requests, Archive(r), NEW n \in Names
  PROVE  Stays(versions[n], versions'[n], tables[n], tables'[n], imports[n], imports'[n])
<1> PICK name : name = requests[r].name
  OBVIOUS
<1>1. /\ versions \in [Names -> VersionRows] /\ tables \in [Names -> TableRows]
      /\ versions[n] \in VersionRows /\ tables[n] \in TableRows
  BY DEF IInv, TypeOK
<1>2. CASE Refuse(r)
  BY <1>2, QuietStays DEF Refuse, Unchanged
<1>3. CASE ~Refuse(r)
  <2>1. /\ versions[name].status = "active" /\ imports' = imports
        /\ versions' = [versions EXCEPT ![name].status = "archived"]
        /\ tables' = [tables EXCEPT ![name] = Retired(name)]
    BY <1>3 DEF Archive
  <2>2. CASE n = name
    <3>1. versions'[n] = [versions[n] EXCEPT !.status = "archived"] /\ tables'[n] = Retired(n)
      BY <1>1, <2>1, <2>2
    <3>2. Retired(n).content = tables[n].content
      BY <1>1 DEF Retired, TableRows
    <3> QED
      BY <2>1, <2>2, <3>1, <3>2 DEF Stays
  <2>3. CASE n # name
    BY <1>1, <2>1, <2>3 DEF Stays
  <2> QED
    BY <2>2, <2>3
<1> QED
  BY <1>2, <1>3

\* An activation changes the statuses of the candidate and of those it archives.
LEMMA ActivateStays ==
  ASSUME IInv, NEW r \in Requests, Activate(r), NEW n \in Names
  PROVE  Stays(versions[n], versions'[n], tables[n], tables'[n], imports[n], imports'[n])
<1> PICK name : name = requests[r].name
  OBVIOUS
<1>1. CASE Refuse(r)
  BY <1>1, QuietStays DEF Refuse, Unchanged
<1>2. CASE Switched(r, name)
  <2>1. versions[n] \in VersionRows /\ tables[n] \in TableRows /\ imports' = imports
    BY <1>2 DEF Switched, IInv, TypeOK
  <2>2. CASE n \in Archived(r)
    <3>1. /\ versions'[n] = [versions[n] EXCEPT !.status = "archived"] /\ tables'[n] = Retired(n)
          /\ versions[n].status = "active"
      BY <1>2, <2>2 DEF Switched, Archived
    <3>2. Retired(n).content = tables[n].content
      BY <2>1 DEF Retired, TableRows
    <3> QED
      BY <2>1, <3>1, <3>2 DEF Stays
  <2>3. CASE n \notin Archived(r) /\ n = name
    <3>1. versions'[n] = [versions[n] EXCEPT !.status = "active"] /\ versions[n].status = "approved"
      BY <1>2, <2>3, ActivateSwitches DEF Switched, IInv, CandidatesHeld
    <3> QED
      BY <3>1 DEF Stays
  <2>4. CASE n \notin Archived(r) /\ n # name
    <3>1. versions'[n] = versions[n] /\ tables'[n] = tables[n]
      BY <1>2, <2>4 DEF Switched
    <3> QED
      BY <2>1, <3>1 DEF Stays
  <2> QED
    BY <2>2, <2>3, <2>4
<1> QED
  BY <1>1, <1>2, ActivateSwitches

\* Content that was activated is never touched again, and content that was approved is given
\* up only for other content, by a draft without an approval.
THEOREM PublishedContentStays == Spec => PublishedStays
<1>1. IInv /\ [Next]_vars => \A name \in Names :
        Stays(versions[name], versions'[name], tables[name], tables'[name], imports[name], imports'[name])
  BY ChangingSteps, QuietStays, ImportStays, JudgementStays, ArchiveStays, ActivateStays
<1>2. IInv /\ [Next]_vars =>
        [\A name \in Names :
           LET before == versions[name]
               after == versions'[name]
           IN /\ before.status \in {"active", "archived"} =>
                   /\ after \in {before, [before EXCEPT !.status = "archived"]}
                   /\ tables'[name].content = tables[name].content
                   /\ imports'[name] = imports[name]
              /\ before.status = "approved" =>
                   \/ after \in {before, [before EXCEPT !.status = "active"]}
                   \/ after.content # before.content /\ after.status = "draft" /\ after.approved = None]_vars
  BY <1>1 DEF Stays
<1> QED
  BY <1>2, Invariance, PTL DEF Spec, PublishedStays
-----------------------------------------------------------------------------
(* What the pipeline lets through.                                         *)

\* What no issue is raised for does not hold.
LEMMA NoIssue ==
  ASSUME NEW condition \in BOOLEAN, NEW code, Issue(condition, code) \subseteq {"SOURCE_CONFLICT_RESOLVED"},
         code # "SOURCE_CONFLICT_RESOLVED"
  PROVE  ~condition
BY DEF Issue

\* A kept row is a row of the sheet that is to be kept.
LEMMA KeptProducts ==
  ASSUME NEW u, NEW p \in Range(Bundle(u).products)
  PROVE  \E i \in DOMAIN u.products : ProductKept(u.products[i]) /\ p = NormalProduct(u.products[i])
<1> DEFINE products == Kept(u.products, ProductKept)
<1>1. Bundle(u).products = [i \in DOMAIN products |-> NormalProduct(products[i])]
  BY DEF Bundle
<1>2. PICK i \in DOMAIN products : p = NormalProduct(products[i])
  BY <1>1 DEF Range
<1>3. i \in DOMAIN u.products /\ ProductKept(u.products[i]) /\ products[i] = u.products[i]
  BY DEF Kept
<1> QED
  BY <1>2, <1>3

LEMMA KeptIncluded ==
  ASSUME NEW u, NEW x \in Range(Bundle(u).included)
  PROVE  IncludedKept(x)
<1>1. Bundle(u).included = Kept(u.included, IncludedKept)
  BY DEF Bundle
<1> QED
  BY <1>1 DEF Kept, Range

LEMMA KeptIssues ==
  ASSUME NEW u, Valid(u)
  PROVE  /\ \A i \in DOMAIN u.products : ProductIssues(u.products[i]) \subseteq {"SOURCE_CONFLICT_RESOLVED"}
         /\ RelationIssues(Bundle(u)) \subseteq {"SOURCE_CONFLICT_RESOLVED"}
<1>1. IssuesOf(u.products, ProductIssues) \subseteq Issues(u) /\ RelationIssues(Bundle(u)) \subseteq Issues(u)
  BY DEF Issues
<1>2. \A i \in DOMAIN u.products : ProductIssues(u.products[i]) \subseteq IssuesOf(u.products, ProductIssues)
  BY DEF IssuesOf
<1> QED
  BY <1>1, <1>2 DEF Valid

\* A product without an issue has what its row of the table must have.
LEMMA ProductFits ==
  ASSUME NEW q \in ProductRows, ProductKept(q), ProductIssues(q) \subseteq {"SOURCE_CONFLICT_RESOLVED"},
         NEW p, p = NormalProduct(q), p.orderable # "yes" => (p.package = 0) = (p.packUnit = None)
  PROVE  /\ (p.package = 0) = (p.packUnit = None) /\ p.package >= 0
         /\ p.orderUnit # None
         /\ (p.basis = 0) = (p.basisUnit = None)
<1> DEFINE sizes == {q.height, q.width, q.length, q.weight, q.basis}
           weighed == q.weight # 0 \/ q.weightUnit # None
           based == q.basis # 0 \/ q.basisUnit # None
<1>1. /\ Issue(\E n \in sizes : n < 0, "INVALID_POSITIVE_NUMBER") \subseteq {"SOURCE_CONFLICT_RESOLVED"}
      /\ Issue(~q.complete \/ q.code = None \/ q.orderUnit = None, "REQUIRED_FIELD")
           \subseteq {"SOURCE_CONFLICT_RESOLVED"}
      /\ Issue(\/ q.orderable = "yes" /\ (q.package <= 0 \/ q.packUnit = None)
               \/ q.orderable # "yes" /\ q.package < 0, "INVALID_PACK_QUANTITY")
           \subseteq {"SOURCE_CONFLICT_RESOLVED"}
      /\ Issue(\/ weighed # (q.weight > 0 /\ q.weightUnit # None)
               \/ based # (q.basis > 0 /\ q.basisUnit # None)
               \/ weighed # based, "INVALID_WEIGHT_BASIS") \subseteq {"SOURCE_CONFLICT_RESOLVED"}
  BY Zenon DEF ProductIssues
<1>2. /\ q.package \in Int /\ q.basis \in Int /\ q.weight \in Int
      /\ p.package = q.package /\ p.packUnit = q.packUnit /\ p.orderUnit = q.orderUnit
      /\ p.orderable = q.orderable /\ p.basisUnit = q.basisUnit /\ p.basis = Number(q.basis)
  BY DEF ProductRows, NormalProduct
<1>3. q.orderUnit # None
  BY <1>1 DEF Issue
<1>4. /\ q.orderable = "yes" => q.package > 0 /\ q.packUnit # None
      /\ q.orderable # "yes" => q.package >= 0
  BY <1>1, <1>2 DEF Issue
<1>5. based = (q.basis > 0 /\ q.basisUnit # None)
  BY <1>1 DEF Issue
<1>6. (p.basis = 0) = (p.basisUnit = None)
  BY <1>2, <1>5 DEF Number
<1> QED
  BY <1>2, <1>3, <1>4, <1>6

\* What the relations of a bundle are not reported for.
LEMMA RelationsFit ==
  ASSUME NEW b, RelationIssues(b) \subseteq {"SOURCE_CONFLICT_RESOLVED"}
  PROVE  /\ ~DuplicateProduct(b)
         /\ ~Repeats(b.attributes, LAMBDA a : <<a.product, a.key>>)
         /\ \A x \in Range(b.included) : x.parent # x.child
         /\ { a.product : a \in Range(b.attributes) } \cup { x.parent : x \in Range(b.included) }
            \cup { x.child : x \in Range(b.included) } \cup { c.product : c \in Range(b.components) }
              \subseteq CodesOf(b)
         /\ { c.template : c \in Range(b.components) } \subseteq { t.code : t \in Range(b.templates) }
<1> DEFINE codes == CodesOf(b)
           templates == { t.code : t \in Range(b.templates) }
           referring == { a.product : a \in Range(b.attributes) } \cup { c.product : c \in Range(b.components) }
           included == { x.parent : x \in Range(b.included) } \cup { x.child : x \in Range(b.included) }
<1>1. /\ Issue(DuplicateProduct(b), "DUPLICATE_PRODUCT_CODE") \subseteq {"SOURCE_CONFLICT_RESOLVED"}
      /\ Issue(DuplicateAttribute(b), "DUPLICATE_ATTRIBUTE") \subseteq {"SOURCE_CONFLICT_RESOLVED"}
      /\ Issue(~(referring \subseteq codes), "UNKNOWN_PRODUCT_REFERENCE") \subseteq {"SOURCE_CONFLICT_RESOLVED"}
      /\ Issue(~(included \subseteq codes), "UNKNOWN_INCLUDED_PRODUCT") \subseteq {"SOURCE_CONFLICT_RESOLVED"}
      /\ Issue(Cycle(b), "INCLUDED_ITEM_CYCLE") \subseteq {"SOURCE_CONFLICT_RESOLVED"}
      /\ Issue(~({ c.template : c \in Range(b.components) } \subseteq templates), "UNKNOWN_TEMPLATE_REFERENCE")
           \subseteq {"SOURCE_CONFLICT_RESOLVED"}
  BY Zenon DEF RelationIssues
<1>2. ~DuplicateProduct(b)
  BY <1>1, Zenon DEF Issue
<1>3. ~DuplicateAttribute(b) /\ ~Cycle(b)
  BY <1>1, Zenon DEF Issue
<1>4. ~Repeats(b.attributes, LAMBDA a : <<a.product, a.key>>)
  BY <1>3 DEF DuplicateAttribute
<1>5. ASSUME NEW x \in Range(b.included), x.parent = x.child PROVE FALSE
  <2> DEFINE edges == { <<y.parent, y.child>> : y \in Range(b.included) }
             nodes == { e[1] : e \in edges }
  <2>1. <<x.parent, x.parent>> \in edges
    BY <1>5
  <2>2. <<x.parent, x.parent>>[1] \in nodes
    BY <2>1, Zenon
  <2>3. x.parent \in nodes
    BY <2>2
  <2>4. \E some \in SUBSET nodes : some # {} /\ \A c \in some : \E d \in some : <<c, d>> \in edges
    <3> HIDE DEF edges, nodes
    <3>1. {x.parent} \in SUBSET nodes
      BY <2>3
    <3> QED
      BY <2>1, <3>1
  <2>5. Cycle(b)
    BY <2>4, Zenon DEF Cycle
  <2> QED
    BY <2>5, <1>3
<1>6. referring \subseteq codes
  BY <1>1 DEF Issue
<1>7. included \subseteq codes
  BY <1>1 DEF Issue
<1>8. { c.template : c \in Range(b.components) } \subseteq templates
  BY <1>1 DEF Issue
<1> QED
  BY <1>2, <1>4, <1>5, <1>6, <1>7, <1>8

\* A valid and careful upload meets every constraint of the tables.
LEMMA ValidIsStorable ==
  ASSUME NEW u, \A i \in DOMAIN u.products : u.products[i] \in ProductRows,
         Valid(u), Careful(Bundle(u))
  PROVE  Storable(Bundle(u)) /\ ObservationsStorable(Bundle(u))
<1> DEFINE b == Bundle(u)
<1>1. \A p \in Range(b.products) :
        /\ (p.package = 0) = (p.packUnit = None) /\ p.package >= 0
        /\ p.orderUnit # None
        /\ (p.basis = 0) = (p.basisUnit = None) /\ p.basisUnit \in WeightBasisUnits \cup {None}
        /\ p.review = "yes" => p.note
  <2> SUFFICES ASSUME NEW p \in Range(b.products)
               PROVE  /\ (p.package = 0) = (p.packUnit = None) /\ p.package >= 0
                      /\ p.orderUnit # None
                      /\ (p.basis = 0) = (p.basisUnit = None) /\ p.basisUnit \in WeightBasisUnits \cup {None}
                      /\ p.review = "yes" => p.note
    OBVIOUS
  <2>1. PICK i \in DOMAIN u.products : ProductKept(u.products[i]) /\ p = NormalProduct(u.products[i])
    BY KeptProducts
  <2>2. /\ p.orderable # "yes" => (p.package = 0) = (p.packUnit = None)
        /\ p.basisUnit \in WeightBasisUnits \cup {None}
        /\ p.review = "yes" => p.note
    BY Zenon DEF Careful
  <2>3. u.products[i] \in ProductRows /\ ProductIssues(u.products[i]) \subseteq {"SOURCE_CONFLICT_RESOLVED"}
    BY KeptIssues
  <2> QED
    BY <2>1, <2>2, <2>3, ProductFits
<1>2. RelationIssues(b) \subseteq {"SOURCE_CONFLICT_RESOLVED"}
  BY KeptIssues
<1>3. \A x \in Range(b.included) : x.unit # None
  BY KeptIncluded DEF IncludedKept, SupportedUnits, PersistedUnits, WeightBasisUnits, None
<1>4. /\ Fits(b) /\ \A page \in Pages(b) : page >= 0
      /\ ObservationsStorable(b) /\ TypedUnits(b)
      /\ Units(b) \subseteq PersistedUnits \cup {None}
      /\ ~Repeats(b.included, LAMBDA x : <<x.parent, x.child>>)
      /\ ~Repeats(b.rules, LAMBDA r : r.code) /\ ~Repeats(b.templates, LAMBDA t : t.code)
      /\ \A c \in Range(b.components) : c.unit # None
  BY Zenon DEF Careful
<1> HIDE DEF b
<1>5. /\ ~DuplicateProduct(b)
      /\ ~Repeats(b.attributes, LAMBDA a : <<a.product, a.key>>)
      /\ \A x \in Range(b.included) : x.parent # x.child
      /\ { a.product : a \in Range(b.attributes) } \cup { x.parent : x \in Range(b.included) }
         \cup { x.child : x \in Range(b.included) } \cup { c.product : c \in Range(b.components) }
           \subseteq CodesOf(b)
      /\ { c.template : c \in Range(b.components) } \subseteq { t.code : t \in Range(b.templates) }
  BY <1>2, RelationsFit
<1>6. Storable(b)
  BY <1>1, <1>3, <1>4, <1>5, Zenon DEF Storable
<1> QED
  BY <1>4, <1>6 DEF b

-----------------------------------------------------------------------------
(* What is valid can be stored.                                            *)

\* No step changes the uploads.
LEMMA UploadsStay ==
  ASSUME [Next]_vars
  PROVE  UNCHANGED uploads
<1> USE DEF Refuse, Unchanged
<1>1. ASSUME NEW r \in Requests,
             Ask(r) \/ Forbid(r) \/ ImportIntoNew(r) \/ LoadDraft(r) \/ LockCandidate(r) \/ FindPrevious(r)
      PROVE  UNCHANGED uploads
  BY <1>1, Zenon DEF Ask, Forbid, ImportIntoNew, LoadDraft, LockCandidate, FindPrevious
<1>2. ASSUME NEW r \in Requests,
             InsertDraft(r) \/ ImportIntoExisting(r) \/ SaveValidation(r)
      PROVE  UNCHANGED uploads
  BY <1>2, Zenon DEF InsertDraft, ImportIntoExisting, SaveValidation
<1>3. ASSUME NEW r \in Requests, Approve(r) \/ Activate(r) \/ Archive(r)
      PROVE  UNCHANGED uploads
  BY <1>3, Zenon DEF Approve, Activate, Archive
<1>4. ASSUME NEW a \in Actors, Demote(a) \/ Reinstate(a)
      PROVE  UNCHANGED uploads
  BY <1>4 DEF Demote, Reinstate
<1>5. CASE UNCHANGED vars
  BY <1>5 DEF vars
<1> QED
  BY <1>1, <1>2, <1>3, <1>4, <1>5 DEF Next

\* The uploads are said what the pipeline and the tables say of them.
UploadsJudged == \E set \in UploadSets : uploads = Judgement(set)

LEMMA JudgedIsStorable ==
  ASSUME UploadsJudged, NEW u \in Uploads, uploads[u].valid, uploads[u].careful
  PROVE  uploads[u].storable /\ uploads[u].observed
<1>1. PICK set \in UploadSets : uploads = Judgement(set)
  BY DEF UploadsJudged
<1>2. u \in set
  BY <1>1 DEF Uploads, Judgement
<1> DEFINE bundle == [w \in set |-> Bundle(Catalogue[w])]
<1>3. /\ uploads[u].valid = Valid(Catalogue[u]) /\ uploads[u].careful = Careful(bundle[u])
      /\ uploads[u].storable = Storable(bundle[u]) /\ uploads[u].observed = ObservationsStorable(bundle[u])
  BY <1>1, <1>2, Zenon DEF Judgement
<1>4. bundle[u] = Bundle(Catalogue[u])
  BY <1>2
<1>5. \A i \in DOMAIN Catalogue[u].products : Catalogue[u].products[i] \in ProductRows
  BY <1>2, CatalogueAssumption
<1>6. Valid(Catalogue[u]) /\ Careful(Bundle(Catalogue[u]))
  BY <1>3, <1>4
<1>7. Storable(Bundle(Catalogue[u])) /\ ObservationsStorable(Bundle(Catalogue[u]))
  BY <1>5, <1>6, ValidIsStorable
<1> QED
  BY <1>3, <1>4, <1>7

\* Whatever the sheets say: a report without errors on an upload that is careful where the
\* pipeline does not look is never rolled back by a constraint of the tables.
THEOREM ValidUploadsAreStored == Spec => []ValidIsStored
<1>1. Init => UploadsJudged
  BY DEF Init, UploadsJudged
<1>2. UploadsJudged /\ [Next]_vars => UploadsJudged'
  BY UploadsStay DEF UploadsJudged
<1>3. IInv /\ UploadsJudged => ValidIsStored
  <2> SUFFICES ASSUME IInv, UploadsJudged, NEW r \in Requests, At(r, "loaded", "validate"),
                      uploads[requests[r].arg].valid, uploads[requests[r].arg].careful
               PROVE  uploads[requests[r].arg].storable /\ uploads[requests[r].arg].observed
    BY DEF ValidIsStored
  <2>1. requests[r].arg \in Uploads
    BY DEF At, IInv, RequestsMeant
  <2> QED
    BY <2>1, JudgedIsStorable
<1> QED
  BY <1>1, <1>2, <1>3, Invariance, PTL DEF Spec

=============================================================================
