----------------------------- MODULE ExportJobs -----------------------------
(***************************************************************************)
(* Excel exports of one saved revision: the requests that capture its      *)
(* evidence (export-repository.ts, request) and the workers that render it *)
(* (export-service.ts, recoverOnce), on one or more backends that share    *)
(* the export_artifacts table.                                             *)
(*                                                                         *)
(* A request's transaction locks, in this order, its actor's row and the   *)
(* project and revision rows (FOR SHARE), the advisory lock of its         *)
(* idempotency scope and that of the evidence it captures, and holds all   *)
(* of them until it commits.  What it reads under each lock is changed     *)
(* only under it, so taking them and deciding is one step here, and the    *)
(* commit another.                                                         *)
(*                                                                         *)
(* A worker claims a job for a lease, renders it in memory, and writes the *)
(* outcome with the token of its claim.  Its statements commit one by one, *)
(* and the backend, its connection or its clock may fail between any two.  *)
(* A lease may run out at any moment: it is measured by the database, and  *)
(* nothing stops a slow backend from waking up after it.                   *)
(*                                                                         *)
(* A row is named by its position, a claim token by the number of the      *)
(* attempt it was drawn for, the evidence by the revision's status and the *)
(* identity of template, mapping and renderer: all that the cache identity *)
(* can tell apart for one revision.                                        *)
(***************************************************************************)
EXTENDS Integers, Sequences, FiniteSets

CONSTANTS
  Requests,          \* requests that may be in flight together
  Actors,            \* accounts
  Keys,              \* idempotency keys
  Backends,          \* backend processes, each with its worker
  Templates,         \* renderer identities in use
  Template,          \* the one each backend is built with
  MaxAttempts,       \* attempts of a job: 3 in the code
  PassLimit,         \* jobs claimed by one pass: 4 in the code
  SweepLimit,        \* exhausted jobs closed by one claim: 4 in the code
  MaxArtifacts,      \* bound: artifacts created
  MaxInterruptions   \* bound: crashes, stops and failed statements of workers

ASSUME ConstantsAssumption ==
  /\ Template \in [Backends -> Templates]
  /\ MaxAttempts \in Nat \ {0} /\ PassLimit \in Nat \ {0} /\ SweepLimit \in Nat \ {0}
  /\ MaxArtifacts \in Nat /\ MaxInterruptions \in Nat

VARIABLES
  stage,          \* revisions.status
  permitted,      \* actors enabled, allowed to export and able to read the revision
  artifacts,      \* export_artifacts, in the order their inserts commit
  records,        \* idempotency_records of export.create
  pc,             \* where each request is
  asked,          \* what it asks, and the renderer identity of its backend
  capture,        \* the evidence it captured and the artifact it reuses (0: a new one)
  workers,        \* each backend's worker
  interruptions   \* workers interrupted so far

requesting == <<records, pc, asked, capture>>
vars == <<stage, permitted, artifacts, requesting, workers, interruptions>>
-----------------------------------------------------------------------------
Stages == {"calculated", "checked", "approved"}
Evidence == [stage : Stages, template : Templates]

\* Columns of a row; the token is 0 when it is NULL, as is the attempt whose
\* bytes it holds.
Artifacts ==
  [evidence : Evidence, status : {"pending", "ready", "failed"}, attempts : 0..MaxAttempts,
   token : 0..MaxAttempts, lease : {"none", "live", "expired"}, content : 0..MaxAttempts]

Queries == [actor : Actors, key : Keys, template : Templates]
NoQuery == [actor |-> "none"]
Captures == [evidence : Evidence, reuse : Nat]
NoCapture == [reuse |-> 0]

Workers ==
  [place : {"down", "idle", "passing", "claiming", "rendering", "finalizing", "failing"},
   job : Nat, token : Nat, left : 0..PassLimit, stopping : BOOLEAN]
Waiting == [place |-> "idle", job |-> 0, token |-> 0, left |-> 0, stopping |-> FALSE]
Down == [place |-> "down", job |-> 0, token |-> 0, left |-> 0, stopping |-> FALSE]

TypeOK ==
  /\ stage \in Stages /\ permitted \subseteq Actors
  /\ artifacts \in Seq(Artifacts)
  /\ records \subseteq [actor : Actors, key : Keys, artifact : Nat]
  /\ pc \in [Requests -> {"idle", "asked", "writing"}]
  /\ asked \in [Requests -> Queries \cup {NoQuery}]
  /\ capture \in [Requests -> Captures \cup {NoCapture}]
  /\ workers \in [Backends -> Workers]
  /\ interruptions \in Nat

\* The revision has just been saved; the workers wait for their next tick.
Init ==
  /\ stage = "calculated" /\ permitted = Actors
  /\ artifacts = << >> /\ records = {}
  /\ pc = [r \in Requests |-> "idle"]
  /\ asked = [r \in Requests |-> NoQuery]
  /\ capture = [r \in Requests |-> NoCapture]
  /\ workers = [b \in Backends |-> Waiting]
  /\ interruptions = 0
-----------------------------------------------------------------------------
(* Requests.                                                               *)

\* Requests whose transaction holds its locks.
Writing == {r \in Requests : pc[r] = "writing"}

Usable(i) == artifacts[i].status \in {"pending", "ready"}

\* Mutant: no advisory lock on the idempotency scope.
ScopeUnlocked(q) == TRUE

\* The advisory lock of the idempotency scope: the revision and the actor.
ScopeFree(q) == \A r \in Writing : asked[r].actor # q.actor

\* Mutant: no advisory lock on the cache.
CacheUnlocked(evidence) == TRUE

\* That of the evidence.
CacheFree(evidence) == \A r \in Writing : capture[r].evidence # evidence

Replayed(q) == \E rec \in records : rec.actor = q.actor /\ rec.key = q.key

\* The artifact that shows the same evidence and has not failed.
Cached(evidence) == {i \in DOMAIN artifacts : artifacts[i].evidence = evidence /\ Usable(i)}

Finish(r) ==
  /\ pc' = [pc EXCEPT ![r] = "idle"]
  /\ asked' = [asked EXCEPT ![r] = NoQuery]
  /\ capture' = [capture EXCEPT ![r] = NoCapture]

\* A client asks again as often as it likes, with old keys and new ones.  One
\* that names a wrong fingerprint or format is refused before anything is written.
Ask(r) ==
  /\ pc[r] = "idle"
  /\ \E actor \in permitted, key \in Keys, b \in Backends :
       asked' = [asked EXCEPT ![r] = [actor |-> actor, key |-> key, template |-> Template[b]]]
  /\ pc' = [pc EXCEPT ![r] = "asked"]
  /\ UNCHANGED <<stage, permitted, artifacts, records, capture, workers, interruptions>>

\* Refused for the actor's present role or status, or answered from its record.
Answer(r) ==
  /\ pc[r] = "asked"
  /\ \/ asked[r].actor \notin permitted
     \/ ScopeFree(asked[r]) /\ Replayed(asked[r])
  /\ Finish(r)
  /\ UNCHANGED <<stage, permitted, artifacts, records, workers, interruptions>>

WriteRequest(r) ==
  LET q == asked[r]
      evidence == [stage |-> stage, template |-> q.template] IN
  /\ pc[r] = "asked"
  /\ q.actor \in permitted
  /\ ScopeFree(q) /\ ~Replayed(q)
  /\ CacheFree(evidence)
  /\ \/ \E i \in Cached(evidence) :
          capture' = [capture EXCEPT ![r] = [evidence |-> evidence, reuse |-> i]]
     \/ /\ Cached(evidence) = {}
        /\ Len(artifacts) + Cardinality(Writing) < MaxArtifacts
        /\ capture' = [capture EXCEPT ![r] = [evidence |-> evidence, reuse |-> 0]]
  /\ pc' = [pc EXCEPT ![r] = "writing"]
  /\ UNCHANGED <<stage, permitted, artifacts, records, asked, workers, interruptions>>

NewArtifact(evidence) ==
  [evidence |-> evidence, status |-> "pending", attempts |-> 0, token |-> 0,
   lease |-> "none", content |-> 0]

CommitRequest(r) ==
  LET new == capture[r].reuse = 0
      artifact == IF new THEN Len(artifacts) + 1 ELSE capture[r].reuse IN
  /\ pc[r] = "writing"
  /\ artifacts' = IF new THEN Append(artifacts, NewArtifact(capture[r].evidence)) ELSE artifacts
  /\ records' = records \cup {[actor |-> asked[r].actor, key |-> asked[r].key,
                               artifact |-> artifact]}
  /\ Finish(r)
  /\ UNCHANGED <<stage, permitted, workers, interruptions>>

\* Its backend or its connection dies: everything is rolled back.
FailRequest(r) ==
  /\ pc[r] # "idle"
  /\ Finish(r)
  /\ UNCHANGED <<stage, permitted, artifacts, records, workers, interruptions>>
-----------------------------------------------------------------------------
(* A worker's pass: recoverOnce.                                           *)

\* The worker w of backend b changes; the requests do not.
Move(b, w) == workers' = [workers EXCEPT ![b] = w] /\ UNCHANGED <<stage, permitted, requesting>>

At(b, place) == workers[b].place = place

\* The interval timer; a tick during a pass does nothing.
Tick(b) ==
  /\ At(b, "idle") /\ ~workers[b].stopping
  /\ Move(b, [workers[b] EXCEPT !.place = "passing", !.left = PassLimit])
  /\ UNCHANGED <<artifacts, interruptions>>

Iterate(b) ==
  /\ At(b, "passing") /\ workers[b].left > 0 /\ ~workers[b].stopping
  /\ Move(b, [workers[b] EXCEPT !.place = "claiming", !.left = workers[b].left - 1])
  /\ UNCHANGED <<artifacts, interruptions>>

\* The worker waits for its next tick, and has no job.
Rest(b) == [Waiting EXCEPT !.stopping = workers[b].stopping]

EndPass(b) ==
  /\ At(b, "passing") /\ (workers[b].left = 0 \/ workers[b].stopping)
  /\ Move(b, Rest(b))
  /\ UNCHANGED <<artifacts, interruptions>>

\* Mutant: a job is claimable whoever holds it.
UnclaimedEver(i) == artifacts[i].status = "pending"

Unclaimed(i) == artifacts[i].status = "pending" /\ artifacts[i].lease # "live"

\* Mutant: an exhausted job is left to the worker that lost it.
ExhaustedNever == {}

\* Mutant: the last attempt is not granted.
ExhaustedEarly == {i \in DOMAIN artifacts : Unclaimed(i) /\ artifacts[i].attempts + 1 >= MaxAttempts}

Exhausted == {i \in DOMAIN artifacts : Unclaimed(i) /\ artifacts[i].attempts >= MaxAttempts}

\* Mutant: attempts are not bounded.
ClaimableAlways == {i \in DOMAIN artifacts : Unclaimed(i)}

Claimable == {i \in DOMAIN artifacts : Unclaimed(i) /\ artifacts[i].attempts < MaxAttempts}

\* RECOVERY_EXHAUSTED, for as many as one statement takes.
Batches ==
  {S \in SUBSET Exhausted :
     \/ Cardinality(S) = SweepLimit
     \/ S = Exhausted /\ Cardinality(S) < SweepLimit}
GivenUp(a) == [a EXCEPT !.status = "failed", !.token = 0, !.lease = "none"]
Closed(S) ==
  [i \in DOMAIN artifacts |-> IF i \in S THEN GivenUp(artifacts[i]) ELSE artifacts[i]]
Leased(a) ==
  [a EXCEPT !.attempts = a.attempts + 1, !.token = a.attempts + 1, !.lease = "live"]

\* Two statements of one transaction.  A row another worker's statement holds is
\* skipped as if that statement had come first.  created_at comes from the
\* clocks of the requests' backends, so any claimable job may be the oldest.
ClaimJob(b) ==
  /\ At(b, "claiming")
  /\ \E S \in Batches, i \in Claimable :
       /\ artifacts' = [Closed(S) EXCEPT ![i] = Leased(artifacts[i])]
       /\ Move(b, [workers[b] EXCEPT !.place = "rendering", !.job = i,
                                     !.token = artifacts[i].attempts + 1])
  /\ UNCHANGED interruptions

FindNone(b) ==
  /\ At(b, "claiming")
  /\ Claimable = {}
  /\ \E S \in Batches : artifacts' = Closed(S)
  /\ Move(b, Rest(b))
  /\ UNCHANGED interruptions

\* The renderer refuses evidence captured for another template, and may fail,
\* overrun its deadline or return no complete archive on any.
Render(b) ==
  /\ At(b, "rendering")
  /\ \/ /\ artifacts[workers[b].job].evidence.template = Template[b]
        /\ Move(b, [workers[b] EXCEPT !.place = "finalizing"])
     \/ Move(b, [workers[b] EXCEPT !.place = "failing"])
  /\ UNCHANGED <<artifacts, interruptions>>
-----------------------------------------------------------------------------
(* The outcome of a job.                                                   *)

\* Mutant: the outcome is written whoever holds the claim.
HoldsAnyClaim(b) == artifacts[workers[b].job].status = "pending"

\* WHERE id = $1 AND claim_token = $2 AND status = 'pending'
HoldsClaim(b) ==
  LET a == artifacts[workers[b].job] IN a.token = workers[b].token /\ a.status = "pending"

Ready(b) ==
  IF HoldsClaim(b)
    THEN artifacts' = [artifacts EXCEPT ![workers[b].job] =
                         [@ EXCEPT !.status = "ready", !.content = workers[b].token,
                                   !.token = 0, !.lease = "none"]]
    ELSE UNCHANGED artifacts

NextJob(b) == [workers[b] EXCEPT !.place = "passing", !.job = 0, !.token = 0]

Finalize(b) ==
  /\ At(b, "finalizing")
  /\ Ready(b)
  /\ Move(b, NextJob(b))
  /\ UNCHANGED interruptions

\* The statement is refused, or committed and its reply lost: the same catch
\* clause takes both for a failed attempt.
FinalizeFails(b) ==
  /\ At(b, "finalizing")
  /\ Ready(b) \/ UNCHANGED artifacts
  /\ Move(b, [workers[b] EXCEPT !.place = "failing"])
  /\ interruptions < MaxInterruptions /\ interruptions' = interruptions + 1

\* Pending again, or failed when it was the last attempt.
Attempted(a) ==
  [a EXCEPT !.status = IF a.attempts >= MaxAttempts THEN "failed" ELSE a.status,
            !.token = 0, !.lease = "none"]

FailAttempt(b) ==
  LET i == workers[b].job IN
  /\ At(b, "failing")
  /\ artifacts' =
       IF HoldsClaim(b) THEN [artifacts EXCEPT ![i] = Attempted(artifacts[i])] ELSE artifacts
  /\ Move(b, NextJob(b))
  /\ UNCHANGED interruptions
-----------------------------------------------------------------------------
(* What goes wrong.                                                        *)

LeaseExpires(i) ==
  /\ artifacts[i].lease = "live"
  /\ artifacts' = [artifacts EXCEPT ![i].lease = "expired"]
  /\ UNCHANGED <<stage, permitted, requesting, workers, interruptions>>

\* claim or failAttempt rejects: the pass is abandoned, the next tick starts another.
\* (One that commits and loses its reply is, for the rows, ClaimJob or FailAttempt
\* followed by a Crash.)
PassFails(b) ==
  /\ At(b, "claiming") \/ At(b, "failing")
  /\ interruptions < MaxInterruptions /\ interruptions' = interruptions + 1
  /\ Move(b, Rest(b))
  /\ UNCHANGED artifacts

\* stopWorker: no tick or claim is started any more; the job under way is finished.
Stop(b) ==
  /\ ~At(b, "down") /\ ~workers[b].stopping
  /\ interruptions < MaxInterruptions /\ interruptions' = interruptions + 1
  /\ Move(b, [workers[b] EXCEPT !.stopping = TRUE])
  /\ UNCHANGED artifacts

Exit(b) ==
  /\ At(b, "idle") /\ workers[b].stopping
  /\ Move(b, Down)
  /\ UNCHANGED <<artifacts, interruptions>>

Crash(b) ==
  /\ ~At(b, "down")
  /\ interruptions < MaxInterruptions /\ interruptions' = interruptions + 1
  /\ Move(b, Down)
  /\ UNCHANGED artifacts

\* startWorker ticks at once.
Start(b) ==
  /\ At(b, "down")
  /\ Move(b, [Waiting EXCEPT !.place = "passing", !.left = PassLimit])
  /\ UNCHANGED <<artifacts, interruptions>>
-----------------------------------------------------------------------------
(* What other operations do to the rows an export depends on.              *)

\* Mutant: the revision is read without locking it.
RevisionUnshared == FALSE

\* A transition waits FOR UPDATE of the project row a writing request shares.
RevisionShared == Writing # {}

AdvanceRevision ==
  /\ ~RevisionShared
  /\ \/ stage = "calculated" /\ stage' = "checked"
     \/ stage = "checked" /\ stage' = "approved"
  /\ UNCHANGED <<permitted, artifacts, requesting, workers, interruptions>>

\* An administrator changes the role or status of an account; it waits for the
\* row a writing request shares.
ChangePermission(actor) ==
  /\ \A r \in Writing : asked[r].actor # actor
  /\ permitted' = IF actor \in permitted THEN permitted \ {actor} ELSE permitted \cup {actor}
  /\ UNCHANGED <<stage, artifacts, requesting, workers, interruptions>>
-----------------------------------------------------------------------------
Request(r) == Ask(r) \/ Answer(r) \/ WriteRequest(r) \/ CommitRequest(r) \/ FailRequest(r)

\* What a worker does unless it is interrupted.
Work(b) ==
  \/ Start(b) \/ Tick(b) \/ Iterate(b) \/ EndPass(b) \/ Exit(b)
  \/ ClaimJob(b) \/ FindNone(b) \/ Render(b) \/ Finalize(b) \/ FailAttempt(b)

Interrupt(b) == FinalizeFails(b) \/ PassFails(b) \/ Stop(b) \/ Crash(b)

Next ==
  \/ \E r \in Requests : Request(r)
  \/ \E b \in Backends : Work(b) \/ Interrupt(b)
  \/ \E i \in DOMAIN artifacts : LeaseExpires(i)
  \/ AdvanceRevision
  \/ \E actor \in Actors : ChangePermission(actor)

Spec == Init /\ [][Next]_vars

\* A backend keeps working and is restarted after a crash or a stop (restart:
\* unless-stopped in compose.yaml); a claim left alone runs out.  Nobody need
\* ever ask for an export.
FairSpec ==
  /\ Spec
  /\ \A b \in Backends : WF_vars(Work(b))
  /\ \A i \in 1..MaxArtifacts : WF_vars(i \in DOMAIN artifacts /\ LeaseExpires(i))
-----------------------------------------------------------------------------
(* Properties.                                                             *)

\* A workbook is that of the last claim: a worker that was slower than its
\* lease never overwrites or anticipates the one that took its job over.
ReadyFromLastAttempt ==
  \A i \in DOMAIN artifacts :
    artifacts[i].status = "ready" => artifacts[i].content = artifacts[i].attempts

\* A job is given up only after all its attempts.
FailedOnlyExhausted ==
  \A i \in DOMAIN artifacts :
    artifacts[i].status = "failed" => artifacts[i].attempts = MaxAttempts

\* However often a client repeats a request, its key names one export.
KeyExportsOnce ==
  \A x, y \in records : x.actor = y.actor /\ x.key = y.key => x = y

\* While a claim's lease runs, only the worker that drew its token ends it.
LiveClaimIsExclusive ==
  [][\A i \in DOMAIN artifacts :
       artifacts[i].lease = "live" /\ artifacts'[i].token # artifacts[i].token
         => \E b \in Backends : /\ workers[b].job = i
                                /\ workers[b].token = artifacts[i].token
                                /\ workers'[b] # workers[b]]_vars

\* An actor is promised an export only while permitted, and the export shows the
\* revision as it is when the promise is committed.
PromisesAreCurrent ==
  [][\A rec \in records' \ records :
       rec.actor \in permitted /\ artifacts'[rec.artifact].evidence.stage = stage]_vars

\* "a crash never leaves jobs pending forever" (export-repository.ts)
NoJobPendingForever ==
  \A i \in 1..MaxArtifacts :
    (i \in DOMAIN artifacts /\ artifacts[i].status = "pending")
      ~> (i \in DOMAIN artifacts /\ artifacts[i].status # "pending")

(***************************************************************************)
(* The inductive invariant from which ExportJobsProofs derives the         *)
(* properties above.                                                       *)
(***************************************************************************)

\* A claim token is that of the last attempt, goes with a lease, and only a
\* pending job has one; a finished job finished with its last attempt.
WellFormed(a) ==
  /\ a.token \in {0, a.attempts} /\ (a.token = 0 <=> a.lease = "none")
  /\ a.status # "pending" => a.token = 0
  /\ a.status = "ready" => a.content = a.attempts
  /\ a.status = "failed" => a.attempts = MaxAttempts

ClaimsWellFormed == \A i \in DOMAIN artifacts : WellFormed(artifacts[i])

\* A worker with a job has drawn a token for one of the attempts it has had.
JobsDrawn ==
  \A b \in Backends : workers[b].place \in {"rendering", "finalizing", "failing"} =>
    workers[b].job \in DOMAIN artifacts /\ workers[b].token \in 1..artifacts[workers[b].job].attempts

\* What a request decided under its locks stays so while it holds them.
Decided ==
  \A r \in Requests :
    /\ pc[r] # "idle" => asked[r] \in Queries
    /\ pc[r] = "writing" =>
         /\ capture[r] \in Captures /\ capture[r].evidence.stage = stage
         /\ asked[r].actor \in permitted /\ ~Replayed(asked[r])
         /\ capture[r].reuse = 0 => Cached(capture[r].evidence) = {}
         /\ capture[r].reuse # 0 => /\ capture[r].reuse \in DOMAIN artifacts
                                    /\ artifacts[capture[r].reuse].evidence = capture[r].evidence

\* The advisory locks exclude.
LocksExclude ==
  \A r, s \in Writing :
    asked[r].actor = asked[s].actor \/ capture[r].evidence = capture[s].evidence => r = s

IInv == TypeOK /\ ClaimsWellFormed /\ JobsDrawn /\ Decided /\ LocksExclude /\ KeyExportsOnce

\* The artifacts are those ExportArtifacts promises.
Abstract == INSTANCE ExportArtifacts WITH
  exports <- [i \in 1..Len(artifacts) |->
                [stage |-> artifacts[i].evidence.stage,
                 template |-> artifacts[i].evidence.template, status |-> artifacts[i].status]]
ExportsAreKept == Abstract!Spec
=============================================================================
