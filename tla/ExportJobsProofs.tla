-------------------------- MODULE ExportJobsProofs --------------------------
(***************************************************************************)
(* Theorems about ExportJobs, for every number of requests, accounts,      *)
(* keys, backends, templates and artifacts, and for all limits.            *)
(***************************************************************************)
EXTENDS ExportJobs, SequenceTheorems, TLAPS

\* What a step of the workers or of the lease clock may do to the artifacts.
ArtifactsAdvance ==
  /\ artifacts' \in Seq(Artifacts) /\ Len(artifacts') = Len(artifacts)
  /\ \A i \in DOMAIN artifacts :
       /\ artifacts'[i].evidence = artifacts[i].evidence
       /\ artifacts'[i].attempts >= artifacts[i].attempts
       /\ WellFormed(artifacts'[i])
       /\ artifacts'[i].status \in {"pending", "ready"} => Usable(i)

\* What it may do to the workers.
WorkersAdvance ==
  /\ workers' \in [Backends -> Workers]
  /\ \A b \in Backends : workers'[b].place \in {"rendering", "finalizing", "failing"} =>
       /\ workers'[b].job \in DOMAIN artifacts
       /\ workers'[b].token \in 1..artifacts'[workers'[b].job].attempts

LEMMA Limits ==
  /\ MaxAttempts \in Nat \ {0} /\ PassLimit \in Nat \ {0} /\ MaxInterruptions \in Nat
  /\ PassLimit \in 0..PassLimit
<1>1. MaxAttempts \in Nat \ {0} /\ PassLimit \in Nat \ {0} /\ MaxInterruptions \in Nat
  BY ConstantsAssumption DEF ConstantsAssumption
<1> QED
  BY <1>1

LEMMA ArtifactTypes ==
  ASSUME artifacts \in Seq(Artifacts), NEW i \in DOMAIN artifacts
  PROVE  /\ artifacts[i] \in Artifacts
         /\ artifacts[i].attempts \in 0..MaxAttempts /\ artifacts[i].attempts \in Nat
<1>1. artifacts[i] \in Artifacts
  OBVIOUS
<1>2. artifacts[i].attempts \in 0..MaxAttempts
  BY <1>1 DEF Artifacts
<1> QED
  BY <1>1, <1>2, Limits

LEMMA Places ==
  /\ Waiting \in Workers /\ Down \in Workers
  /\ Waiting.place = "idle" /\ Down.place = "down"
<1>1. 0 \in 0..PassLimit
  BY Limits
<1> QED
  BY <1>1 DEF Waiting, Down, Workers

LEMMA WorkerUpdate ==
  ASSUME NEW w \in Workers, NEW place \in {"passing", "claiming"}, NEW left \in 0..PassLimit
  PROVE  /\ [w EXCEPT !.place = place, !.left = left] \in Workers
         /\ [w EXCEPT !.place = place, !.left = left].place = place
BY DEF Workers

LEMMA InitIInv == Init => IInv
BY Places
   DEF Init, IInv, TypeOK, Stages, ClaimsWellFormed, JobsDrawn, Decided, LocksExclude,
       Writing, KeyExportsOnce

-----------------------------------------------------------------------------
(* Workers and leases.                                                     *)

\* A step that leaves the requests alone and moves artifacts and workers forward
\* keeps the invariant.
LEMMA AdvanceKeeps ==
  ASSUME IInv, ArtifactsAdvance, WorkersAdvance, interruptions' \in Nat,
         UNCHANGED <<stage, permitted, requesting>>
  PROVE  IInv'
<1> USE DEF requesting
<1>1. DOMAIN artifacts' = DOMAIN artifacts
  BY DEF ArtifactsAdvance, IInv, TypeOK
<1>2. TypeOK'
  BY DEF IInv, TypeOK, ArtifactsAdvance, WorkersAdvance
<1>3. ClaimsWellFormed' /\ JobsDrawn'
  BY <1>1 DEF ClaimsWellFormed, ArtifactsAdvance, JobsDrawn, WorkersAdvance
<1>4. ASSUME NEW evidence PROVE Cached(evidence)' \subseteq Cached(evidence)
  BY <1>1 DEF Cached, Usable, ArtifactsAdvance
<1>5. Decided'
  BY <1>1, <1>4 DEF IInv, Decided, Replayed, ArtifactsAdvance
<1>6. LocksExclude' /\ KeyExportsOnce'
  BY DEF IInv, LocksExclude, Writing, KeyExportsOnce
<1> QED
  BY <1>2, <1>3, <1>5, <1>6 DEF IInv

\* Nothing happens to the artifacts.
LEMMA SameArtifactsAdvance ==
  ASSUME IInv, UNCHANGED artifacts
  PROVE  ArtifactsAdvance
<1>1. artifacts \in Seq(Artifacts) /\ Len(artifacts') = Len(artifacts)
  BY DEF IInv, TypeOK
<1>2. ASSUME NEW i \in DOMAIN artifacts PROVE artifacts[i].attempts >= artifacts[i].attempts
  BY <1>1, ArtifactTypes
<1> QED
  BY <1>1, <1>2 DEF IInv, ClaimsWellFormed, ArtifactsAdvance, Usable

\* One worker moves; it has no job, or one it has drawn a token for.
LEMMA MoveAdvances ==
  ASSUME IInv, ArtifactsAdvance, NEW b \in Backends, NEW w \in Workers, Move(b, w),
         w.place \in {"rendering", "finalizing", "failing"} =>
           w.job \in DOMAIN artifacts /\ w.token \in 1..artifacts'[w.job].attempts
  PROVE  WorkersAdvance
<1>1. workers' = [workers EXCEPT ![b] = w] /\ workers \in [Backends -> Workers]
  BY DEF Move, IInv, TypeOK
<1>2. ASSUME NEW c \in Backends, c # b, workers[c].place \in {"rendering", "finalizing", "failing"}
      PROVE  /\ workers[c].job \in DOMAIN artifacts
             /\ workers[c].token \in 1..artifacts'[workers[c].job].attempts
  <2>1. /\ workers[c].job \in DOMAIN artifacts
        /\ workers[c].token \in 1..artifacts[workers[c].job].attempts
    BY <1>2 DEF IInv, JobsDrawn
  <2>2. artifacts'[workers[c].job].attempts >= artifacts[workers[c].job].attempts
    BY <2>1 DEF ArtifactsAdvance
  <2>3. artifacts[workers[c].job] \in Artifacts /\ artifacts'[workers[c].job] \in Artifacts
    BY <2>1 DEF ArtifactsAdvance, IInv, TypeOK
  <2> QED
    BY <2>1, <2>2, <2>3, Limits DEF Artifacts
<1> QED
  BY <1>1, <1>2 DEF WorkersAdvance

\* The worker's own steps between two claims, and its interruptions.
LEMMA QuietWorkKeeps ==
  ASSUME IInv, NEW b \in Backends,
         \/ Tick(b) \/ Iterate(b) \/ EndPass(b) \/ Render(b)
         \/ PassFails(b) \/ Stop(b) \/ Exit(b) \/ Crash(b) \/ Start(b)
  PROVE  IInv'
<1>1. /\ UNCHANGED artifacts /\ interruptions' \in Nat
      /\ UNCHANGED <<stage, permitted, requesting>>
  BY DEF Tick, Iterate, EndPass, Render, PassFails, Stop, Exit, Crash, Start, Move, IInv, TypeOK
<1>2. ArtifactsAdvance
  BY <1>1, SameArtifactsAdvance
<1>3. /\ workers[b] \in Workers
      /\ workers[b].place \in {"rendering", "finalizing", "failing"} =>
           /\ workers[b].job \in DOMAIN artifacts
           /\ workers[b].token \in 1..artifacts'[workers[b].job].attempts
  BY <1>1 DEF IInv, TypeOK, JobsDrawn
<1>4. PICK w \in Workers :
        /\ Move(b, w)
        /\ w.place \in {"rendering", "finalizing", "failing"} =>
             /\ workers[b].place \in {"rendering", "finalizing", "failing"}
             /\ w.job = workers[b].job /\ w.token = workers[b].token
  <2> USE <1>3, Limits, Places
  <2>1. CASE Tick(b)
    <3> DEFINE w == [workers[b] EXCEPT !.place = "passing", !.left = PassLimit]
    <3>1. w \in Workers /\ w.place = "passing"
      BY <1>3, Limits, WorkerUpdate
    <3> QED
      BY <2>1, <3>1 DEF Tick
  <2>2. CASE Iterate(b)
    <3> DEFINE w == [workers[b] EXCEPT !.place = "claiming", !.left = workers[b].left - 1]
    <3>1. workers[b].left \in 0..PassLimit /\ workers[b].left > 0
      BY <2>2, <1>3 DEF Workers, Iterate
    <3>2. workers[b].left - 1 \in 0..PassLimit
      BY <3>1, Limits
    <3>3. w \in Workers /\ w.place = "claiming"
      BY <1>3, <3>2, WorkerUpdate
    <3> QED
      BY <2>2, <3>3 DEF Iterate
  <2>3. CASE EndPass(b) \/ PassFails(b)
    <3>1. Rest(b) \in Workers /\ Rest(b).place = "idle"
      BY DEF Rest, Workers, Waiting
    <3> QED
      BY <2>3, <3>1 DEF EndPass, PassFails
  <2>4. CASE Render(b)
    <3>1. ASSUME NEW place \in {"finalizing", "failing"}, Move(b, [workers[b] EXCEPT !.place = place])
          PROVE  \E w \in Workers :
                   /\ Move(b, w)
                   /\ w.place \in {"rendering", "finalizing", "failing"} =>
                        /\ workers[b].place \in {"rendering", "finalizing", "failing"}
                        /\ w.job = workers[b].job /\ w.token = workers[b].token
      <4> DEFINE w == [workers[b] EXCEPT !.place = place]
      <4>1. w \in Workers /\ w.job = workers[b].job /\ w.token = workers[b].token
        BY DEF Workers
      <4> QED
        BY <2>4, <3>1, <4>1 DEF Render, At
    <3> QED
      BY <2>4, <3>1 DEF Render
  <2>5. CASE Stop(b)
    <3> DEFINE w == [workers[b] EXCEPT !.stopping = TRUE]
    <3>1. /\ w \in Workers /\ w.place = workers[b].place
          /\ w.job = workers[b].job /\ w.token = workers[b].token
      BY DEF Workers
    <3> QED
      BY <2>5, <3>1 DEF Stop
  <2>6. CASE Exit(b) \/ Crash(b)
    BY <2>6 DEF Exit, Crash
  <2>7. CASE Start(b)
    <3> DEFINE w == [Waiting EXCEPT !.place = "passing", !.left = PassLimit]
    <3>1. w \in Workers /\ w.place = "passing"
      BY Places, Limits, WorkerUpdate
    <3> QED
      BY <2>7, <3>1 DEF Start
  <2> QED
    BY <2>1, <2>2, <2>3, <2>4, <2>5, <2>6, <2>7
<1>5. WorkersAdvance
  BY <1>2, <1>3, <1>4, MoveAdvances
<1> QED
  BY <1>1, <1>2, <1>5, AdvanceKeeps

\* An exhausted job that is closed, and a claimable one that is leased.
LEMMA GivenUpArtifact ==
  ASSUME IInv, NEW i \in Exhausted
  PROVE  LET a == GivenUp(artifacts[i]) IN
         /\ a \in Artifacts /\ a.evidence = artifacts[i].evidence
         /\ a.attempts = artifacts[i].attempts /\ a.status = "failed" /\ WellFormed(a)
<1> DEFINE a == GivenUp(artifacts[i])
<1>1. i \in DOMAIN artifacts /\ artifacts[i].status = "pending"
  BY DEF Exhausted, Unclaimed
<1>2. artifacts[i] \in Artifacts /\ artifacts[i].attempts \in 0..MaxAttempts
  BY <1>1, ArtifactTypes DEF IInv, TypeOK
<1>3. artifacts[i].attempts = MaxAttempts
  BY <1>2, Limits DEF Exhausted
<1>4. 0 \in 0..MaxAttempts
  BY Limits
<1>5. /\ a \in Artifacts /\ a.evidence = artifacts[i].evidence
      /\ a.attempts = artifacts[i].attempts /\ a.status = "failed"
      /\ a.token = 0 /\ a.lease = "none"
  BY <1>2, <1>4 DEF Artifacts, GivenUp
<1> QED
  BY <1>3, <1>5 DEF WellFormed

LEMMA LeasedArtifact ==
  ASSUME IInv, NEW i \in Claimable
  PROVE  LET a == Leased(artifacts[i]) IN
         /\ a \in Artifacts /\ a.evidence = artifacts[i].evidence
         /\ a.attempts = artifacts[i].attempts + 1 /\ a.status = "pending" /\ WellFormed(a)
<1> DEFINE a == Leased(artifacts[i])
<1>1. i \in DOMAIN artifacts /\ artifacts[i].status = "pending"
  BY DEF Claimable, Unclaimed
<1>2. artifacts[i] \in Artifacts /\ artifacts[i].attempts \in 0..MaxAttempts
  BY <1>1, ArtifactTypes DEF IInv, TypeOK
<1>3. artifacts[i].attempts + 1 \in 0..MaxAttempts /\ artifacts[i].attempts + 1 # 0
  BY <1>2, Limits DEF Claimable
<1>4. /\ a \in Artifacts /\ a.evidence = artifacts[i].evidence /\ a.status = "pending"
      /\ a.attempts = artifacts[i].attempts + 1
      /\ a.token = artifacts[i].attempts + 1 /\ a.lease = "live"
  BY <1>1, <1>2, <1>3 DEF Artifacts, Leased
<1> QED
  BY <1>3, <1>4 DEF WellFormed

\* The two statements of a claim touch different jobs.
LEMMA ClaimAdvances ==
  ASSUME IInv, NEW S \in Batches,
         \/ artifacts' = Closed(S)
         \/ \E i \in Claimable : artifacts' = [Closed(S) EXCEPT ![i] = Leased(artifacts[i])]
  PROVE  ArtifactsAdvance
<1>1. S \subseteq Exhausted
  BY DEF Batches
<1>2. artifacts \in Seq(Artifacts) /\ DOMAIN artifacts = 1..Len(artifacts) /\ Len(artifacts) \in Nat
  BY DEF IInv, TypeOK
<1>3. DOMAIN artifacts' = DOMAIN artifacts
  BY DEF Closed
<1>4. ASSUME NEW j \in DOMAIN artifacts
      PROVE  \/ artifacts'[j] = artifacts[j]
             \/ j \in Exhausted /\ artifacts'[j] = GivenUp(artifacts[j])
             \/ j \in Claimable /\ artifacts'[j] = Leased(artifacts[j])
  BY <1>1 DEF Closed
<1>5. ASSUME NEW j \in DOMAIN artifacts
      PROVE  /\ artifacts'[j] \in Artifacts
             /\ artifacts'[j].evidence = artifacts[j].evidence
             /\ artifacts'[j].attempts >= artifacts[j].attempts
             /\ WellFormed(artifacts'[j])
             /\ artifacts'[j].status \in {"pending", "ready"} => Usable(j)
  <2>1. artifacts[j] \in Artifacts /\ artifacts[j].attempts \in Nat
    BY <1>2, ArtifactTypes
  <2>2. CASE artifacts'[j] = artifacts[j]
    BY <2>1, <2>2 DEF IInv, ClaimsWellFormed, Usable
  <2>3. CASE j \in Exhausted /\ artifacts'[j] = GivenUp(artifacts[j])
    BY <2>1, <2>3, GivenUpArtifact
  <2>4. CASE j \in Claimable /\ artifacts'[j] = Leased(artifacts[j])
    BY <2>1, <2>4, LeasedArtifact DEF Usable, Claimable, Unclaimed
  <2> QED
    BY <1>4, <2>2, <2>3, <2>4
<1>6. artifacts' = [j \in 1..Len(artifacts) |-> artifacts'[j]]
  BY <1>2, <1>3 DEF Closed
<1>7. artifacts' \in Seq(Artifacts) /\ Len(artifacts') = Len(artifacts)
  BY <1>2, <1>3, <1>5, <1>6
<1> QED
  BY <1>5, <1>7 DEF ArtifactsAdvance

LEMMA ClaimKeeps ==
  ASSUME IInv, NEW b \in Backends, ClaimJob(b) \/ FindNone(b)
  PROVE  IInv'
<1>1. UNCHANGED <<stage, permitted, requesting>> /\ interruptions' \in Nat
  BY DEF ClaimJob, FindNone, Move, IInv, TypeOK
<1>2. CASE ClaimJob(b)
  <2>1. PICK S \in Batches, i \in Claimable :
          /\ artifacts' = [Closed(S) EXCEPT ![i] = Leased(artifacts[i])]
          /\ Move(b, [workers[b] EXCEPT !.place = "rendering", !.job = i,
                                        !.token = artifacts[i].attempts + 1])
    BY <1>2 DEF ClaimJob
  <2> DEFINE w == [workers[b] EXCEPT !.place = "rendering", !.job = i,
                                     !.token = artifacts[i].attempts + 1]
  <2>2. ArtifactsAdvance
    BY <2>1, ClaimAdvances
  <2>3. i \in DOMAIN artifacts /\ DOMAIN artifacts = 1..Len(artifacts)
    BY DEF Claimable, IInv, TypeOK
  <2>4. artifacts'[i] = Leased(artifacts[i])
    BY <2>1, <2>3 DEF Closed
  <2>5. artifacts'[i].attempts = artifacts[i].attempts + 1
    BY <2>4, LeasedArtifact
  <2>6. artifacts[i].attempts \in Nat /\ i \in Nat
    BY <2>3, ArtifactTypes DEF IInv, TypeOK
  <2>7. workers[b] \in Workers
    BY DEF IInv, TypeOK
  <2>8. /\ w \in Workers /\ w.job = i
        /\ w.token = artifacts[i].attempts + 1
    <3>1. artifacts[i].attempts + 1 \in Nat
      BY <2>6
    <3> QED
      BY <2>6, <2>7, <3>1 DEF Workers
  <2>9. w.token \in 1..artifacts'[w.job].attempts
    BY <2>5, <2>6, <2>8
  <2>10. WorkersAdvance
    BY <2>1, <2>2, <2>3, <2>8, <2>9, MoveAdvances
  <2> QED
    BY <1>1, <2>2, <2>10, AdvanceKeeps
<1>3. CASE FindNone(b)
  <2>1. ArtifactsAdvance /\ Move(b, Rest(b))
    BY <1>3, ClaimAdvances DEF FindNone
  <2>2. Rest(b) \in Workers /\ Rest(b).place = "idle"
    BY Places DEF Rest, Workers, Waiting, IInv, TypeOK
  <2>3. WorkersAdvance
    BY <2>1, <2>2, MoveAdvances
  <2> QED
    BY <1>1, <2>1, <2>3, AdvanceKeeps
<1> QED
  BY <1>2, <1>3

\* One job changes, and stays well formed.
LEMMA OneArtifactAdvances ==
  ASSUME IInv, NEW i \in DOMAIN artifacts, NEW a \in Artifacts,
         artifacts' = [artifacts EXCEPT ![i] = a],
         a.evidence = artifacts[i].evidence, a.attempts = artifacts[i].attempts,
         artifacts[i].status = "pending", WellFormed(a)
  PROVE  ArtifactsAdvance
<1>1. artifacts \in Seq(Artifacts)
  BY DEF IInv, TypeOK
<1>2. artifacts' \in Seq(Artifacts) /\ Len(artifacts') = Len(artifacts)
  BY <1>1
<1>3. ASSUME NEW j \in DOMAIN artifacts
      PROVE  /\ artifacts'[j].evidence = artifacts[j].evidence
             /\ artifacts'[j].attempts >= artifacts[j].attempts
             /\ WellFormed(artifacts'[j])
             /\ artifacts'[j].status \in {"pending", "ready"} => Usable(j)
  <2>1. artifacts[j].attempts \in Nat
    BY <1>1, ArtifactTypes
  <2>2. CASE j = i
    BY <1>1, <2>1, <2>2 DEF Usable
  <2>3. CASE j # i
    BY <1>1, <2>1, <2>3 DEF Usable, IInv, ClaimsWellFormed
  <2> QED
    BY <2>2, <2>3
<1> QED
  BY <1>2, <1>3 DEF ArtifactsAdvance

\* The worker that writes an outcome has a job, whose claim it may have lost.
LEMMA Drawn ==
  ASSUME IInv, NEW b \in Backends, At(b, "finalizing") \/ At(b, "failing")
  PROVE  LET i == workers[b].job IN
         /\ i \in DOMAIN artifacts /\ artifacts[i] \in Artifacts /\ WellFormed(artifacts[i])
         /\ artifacts[i].attempts \in 0..MaxAttempts
         /\ workers[b].token \in 1..artifacts[i].attempts
         /\ HoldsClaim(b) => workers[b].token = artifacts[i].attempts
<1> DEFINE i == workers[b].job
<1>1. i \in DOMAIN artifacts /\ workers[b].token \in 1..artifacts[i].attempts
  BY DEF IInv, JobsDrawn, At
<1>2. /\ artifacts[i] \in Artifacts /\ artifacts[i].attempts \in 0..MaxAttempts
      /\ WellFormed(artifacts[i])
  BY <1>1, ArtifactTypes DEF IInv, TypeOK, ClaimsWellFormed
<1>3. HoldsClaim(b) => workers[b].token = artifacts[i].attempts
  <2>1. workers[b].token # 0
    BY <1>1
  <2> QED
    BY <1>2, <2>1 DEF HoldsClaim, WellFormed
<1> QED
  BY <1>1, <1>2, <1>3

LEMMA ReadyAdvances ==
  ASSUME IInv, NEW b \in Backends, At(b, "finalizing"), Ready(b)
  PROVE  ArtifactsAdvance
<1> DEFINE i == workers[b].job
           a == [artifacts[i] EXCEPT !.status = "ready", !.content = workers[b].token,
                                     !.token = 0, !.lease = "none"]
<1>1. /\ i \in DOMAIN artifacts /\ artifacts[i] \in Artifacts
      /\ artifacts[i].attempts \in 0..MaxAttempts
      /\ HoldsClaim(b) => workers[b].token = artifacts[i].attempts
  BY Drawn
<1>2. CASE HoldsClaim(b)
  <2>1. /\ artifacts' = [artifacts EXCEPT ![i] = a] /\ artifacts[i].status = "pending"
        /\ workers[b].token = artifacts[i].attempts
    BY <1>1, <1>2 DEF Ready, HoldsClaim
  <2>2. 0 \in 0..MaxAttempts /\ workers[b].token \in 0..MaxAttempts
    BY <1>1, <2>1, Limits
  <2>3. /\ a \in Artifacts /\ a.evidence = artifacts[i].evidence
        /\ a.attempts = artifacts[i].attempts /\ a.status = "ready"
        /\ a.content = workers[b].token /\ a.token = 0 /\ a.lease = "none"
    BY <1>1, <2>2 DEF Artifacts
  <2>4. WellFormed(a)
    BY <2>1, <2>3 DEF WellFormed
  <2> HIDE DEF a
  <2> QED
    BY <1>1, <2>1, <2>3, <2>4, OneArtifactAdvances
<1>3. CASE ~HoldsClaim(b)
  BY <1>3, SameArtifactsAdvance DEF Ready
<1> QED
  BY <1>2, <1>3

LEMMA FailedAdvances ==
  ASSUME IInv, NEW b \in Backends, FailAttempt(b)
  PROVE  ArtifactsAdvance
<1> DEFINE i == workers[b].job
           outcome == IF artifacts[i].attempts >= MaxAttempts THEN "failed" ELSE artifacts[i].status
           a == Attempted(artifacts[i])
<1>1. /\ i \in DOMAIN artifacts /\ artifacts[i] \in Artifacts
      /\ artifacts[i].attempts \in 0..MaxAttempts
  BY Drawn DEF FailAttempt
<1>2. CASE HoldsClaim(b)
  <2>1. artifacts' = [artifacts EXCEPT ![i] = a] /\ artifacts[i].status = "pending"
    BY <1>1, <1>2 DEF FailAttempt, HoldsClaim
  <2>2. /\ 0 \in 0..MaxAttempts /\ outcome \in {"pending", "failed"}
        /\ outcome = "failed" => artifacts[i].attempts = MaxAttempts
    <3>1. 0 \in 0..MaxAttempts /\ (artifacts[i].attempts >= MaxAttempts => artifacts[i].attempts = MaxAttempts)
      BY <1>1, Limits
    <3> QED
      BY <2>1, <3>1
  <2> HIDE DEF outcome
  <2>3. /\ a \in Artifacts /\ a.evidence = artifacts[i].evidence
        /\ a.attempts = artifacts[i].attempts /\ a.status = outcome
        /\ a.token = 0 /\ a.lease = "none"
    BY <1>1, <2>2 DEF Artifacts, Attempted, outcome
  <2>4. WellFormed(a)
    BY <2>2, <2>3 DEF WellFormed
  <2> HIDE DEF a
  <2> QED
    BY <1>1, <2>1, <2>3, <2>4, OneArtifactAdvances
<1>3. CASE ~HoldsClaim(b)
  BY <1>3, SameArtifactsAdvance DEF FailAttempt
<1> QED
  BY <1>2, <1>3

LEMMA OutcomeKeeps ==
  ASSUME IInv, NEW b \in Backends, Finalize(b) \/ FinalizeFails(b) \/ FailAttempt(b)
  PROVE  IInv'
<1>1. UNCHANGED <<stage, permitted, requesting>> /\ interruptions' \in Nat
  BY DEF Finalize, FinalizeFails, FailAttempt, Move, IInv, TypeOK
<1>2. ArtifactsAdvance
  BY ReadyAdvances, FailedAdvances, SameArtifactsAdvance DEF Finalize, FinalizeFails
<1>3. workers[b] \in Workers
  BY DEF IInv, TypeOK
<1>4. CASE Finalize(b) \/ FailAttempt(b)
  <2>1. NextJob(b) \in Workers /\ NextJob(b).place = "passing"
    BY <1>3 DEF NextJob, Workers
  <2>2. WorkersAdvance
    BY <1>2, <1>4, <2>1, MoveAdvances DEF Finalize, FailAttempt
  <2> QED
    BY <1>1, <1>2, <2>2, AdvanceKeeps
<1>5. CASE FinalizeFails(b)
  <2> DEFINE w == [workers[b] EXCEPT !.place = "failing"]
  <2>1. w \in Workers /\ w.job = workers[b].job /\ w.token = workers[b].token
    BY <1>3 DEF Workers
  <2>2. /\ w.job \in DOMAIN artifacts /\ w.token \in 1..artifacts[w.job].attempts
        /\ artifacts[w.job].attempts \in Nat
    BY <1>5, <2>1, Drawn, Limits DEF FinalizeFails
  <2>3. /\ artifacts'[w.job].attempts >= artifacts[w.job].attempts
        /\ artifacts'[w.job].attempts \in Nat
    <3>1. w.job \in DOMAIN artifacts' /\ artifacts' \in Seq(Artifacts)
      BY <1>2, <2>2 DEF ArtifactsAdvance, IInv, TypeOK
    <3>2. artifacts'[w.job] \in Artifacts
      BY <3>1
    <3>3. artifacts'[w.job].attempts \in 0..MaxAttempts
      BY <3>2 DEF Artifacts
    <3> QED
      BY <1>2, <2>2, <3>3, Limits DEF ArtifactsAdvance
  <2>4. w.token \in 1..artifacts'[w.job].attempts
    BY <2>2, <2>3
  <2> HIDE DEF w
  <2>5. Move(b, w)
    BY <1>5 DEF FinalizeFails, w
  <2>6. WorkersAdvance
    BY <1>2, <2>1, <2>2, <2>4, <2>5, MoveAdvances
  <2> QED
    BY <1>1, <1>2, <2>6, AdvanceKeeps
<1> QED
  BY <1>4, <1>5

LEMMA LeaseExpiresKeeps ==
  ASSUME IInv, NEW i \in DOMAIN artifacts, LeaseExpires(i)
  PROVE  IInv'
<1> DEFINE a == [artifacts[i] EXCEPT !.lease = "expired"]
<1>1. artifacts[i] \in Artifacts /\ WellFormed(artifacts[i]) /\ artifacts[i].lease = "live"
  BY ArtifactTypes DEF IInv, TypeOK, ClaimsWellFormed, LeaseExpires
<1>2. /\ a \in Artifacts /\ a.evidence = artifacts[i].evidence
      /\ a.attempts = artifacts[i].attempts /\ a.status = artifacts[i].status
      /\ a.content = artifacts[i].content /\ a.token = artifacts[i].token /\ a.lease = "expired"
  BY <1>1 DEF Artifacts
<1>3. artifacts[i].status = "pending" /\ WellFormed(a)
  BY <1>1, <1>2 DEF WellFormed
<1>4. artifacts' = [artifacts EXCEPT ![i] = a]
  BY DEF LeaseExpires
<1> HIDE DEF a
<1>5. ArtifactsAdvance
  BY <1>2, <1>3, <1>4, OneArtifactAdvances
<1>6. UNCHANGED workers /\ interruptions' \in Nat /\ UNCHANGED <<stage, permitted, requesting>>
  BY DEF LeaseExpires, IInv, TypeOK
<1>7. WorkersAdvance
  BY <1>4, <1>6, <1>2 DEF WorkersAdvance, IInv, TypeOK, JobsDrawn
<1> QED
  BY <1>5, <1>6, <1>7, AdvanceKeeps

-----------------------------------------------------------------------------
(* Requests.                                                               *)

\* A request that ends without a promise.
LEMMA FinishKeeps ==
  ASSUME IInv, NEW r \in Requests, Finish(r),
         UNCHANGED <<stage, permitted, artifacts, records, workers, interruptions>>
  PROVE  IInv'
<1> USE DEF Finish
<1>1. TypeOK'
  BY DEF IInv, TypeOK
<1>2. ClaimsWellFormed' /\ JobsDrawn' /\ KeyExportsOnce'
  BY DEF IInv, ClaimsWellFormed, JobsDrawn, KeyExportsOnce
<1>3. Decided'
  BY DEF IInv, TypeOK, Decided, Replayed, Cached, Usable
<1>4. LocksExclude'
  BY DEF IInv, TypeOK, LocksExclude, Writing
<1> QED
  BY <1>1, <1>2, <1>3, <1>4 DEF IInv

LEMMA AskKeeps ==
  ASSUME IInv, NEW r \in Requests, Ask(r)
  PROVE  IInv'
<1>1. PICK actor \in permitted, key \in Keys, b \in Backends :
        asked' = [asked EXCEPT ![r] = [actor |-> actor, key |-> key, template |-> Template[b]]]
  BY DEF Ask
<1>2. [actor |-> actor, key |-> key, template |-> Template[b]] \in Queries
  BY ConstantsAssumption DEF ConstantsAssumption, Queries, IInv, TypeOK
<1> USE <1>1, <1>2 DEF Ask
<1>3. TypeOK'
  BY DEF IInv, TypeOK
<1>4. ClaimsWellFormed' /\ JobsDrawn' /\ KeyExportsOnce'
  BY DEF IInv, ClaimsWellFormed, JobsDrawn, KeyExportsOnce
<1>5. Decided'
  BY DEF IInv, TypeOK, Decided, Replayed, Cached, Usable
<1>6. LocksExclude'
  BY DEF IInv, TypeOK, LocksExclude, Writing
<1> QED
  BY <1>3, <1>4, <1>5, <1>6 DEF IInv

\* The decision a request makes under its locks.
LEMMA Decision ==
  ASSUME IInv, NEW r \in Requests, WriteRequest(r)
  PROVE  \E c \in Captures :
           /\ capture' = [capture EXCEPT ![r] = c]
           /\ c.evidence.stage = stage /\ CacheFree(c.evidence)
           /\ c.reuse = 0 => Cached(c.evidence) = {}
           /\ c.reuse # 0 => /\ c.reuse \in DOMAIN artifacts
                             /\ artifacts[c.reuse].evidence = c.evidence
<1> DEFINE evidence == [stage |-> stage, template |-> asked[r].template]
           c(n) == [evidence |-> evidence, reuse |-> n]
<1>1. evidence \in Evidence /\ CacheFree(evidence)
  BY DEF IInv, TypeOK, Decided, WriteRequest, Queries, Evidence
<1>2. \A n \in Nat : c(n) \in Captures /\ c(n).evidence = evidence /\ c(n).reuse = n
  BY <1>1 DEF Captures
<1>3. evidence.stage = stage
  OBVIOUS
<1>4. ASSUME NEW i \in Cached(evidence), capture' = [capture EXCEPT ![r] = c(i)]
      PROVE  /\ i \in Nat /\ i \in DOMAIN artifacts /\ artifacts[i].evidence = evidence
             /\ i # 0
  BY <1>4 DEF Cached, IInv, TypeOK
<1>5. \/ \E i \in Cached(evidence) : capture' = [capture EXCEPT ![r] = c(i)]
      \/ Cached(evidence) = {} /\ capture' = [capture EXCEPT ![r] = c(0)]
  BY DEF WriteRequest
<1> HIDE DEF evidence, c
<1>6. CASE \E i \in Cached(evidence) : capture' = [capture EXCEPT ![r] = c(i)]
  <2>1. PICK i \in Cached(evidence) : capture' = [capture EXCEPT ![r] = c(i)]
    BY <1>6
  <2>2. /\ i \in DOMAIN artifacts /\ artifacts[i].evidence = evidence /\ i # 0
        /\ c(i) \in Captures /\ c(i).evidence = evidence /\ c(i).reuse = i
    BY <1>2, <1>4, <2>1
  <2> QED
    BY <1>1, <1>3, <2>1, <2>2
<1>7. CASE Cached(evidence) = {} /\ capture' = [capture EXCEPT ![r] = c(0)]
  BY <1>1, <1>2, <1>3, <1>7
<1> QED
  BY <1>5, <1>6, <1>7

LEMMA WriteRequestKeeps ==
  ASSUME IInv, NEW r \in Requests, WriteRequest(r)
  PROVE  IInv'
<1>1. PICK c \in Captures :
        /\ capture' = [capture EXCEPT ![r] = c]
        /\ c.evidence.stage = stage /\ CacheFree(c.evidence)
        /\ c.reuse = 0 => Cached(c.evidence) = {}
        /\ c.reuse # 0 => /\ c.reuse \in DOMAIN artifacts
                          /\ artifacts[c.reuse].evidence = c.evidence
  BY Decision
<1>2. /\ pc[r] = "asked" /\ pc' = [pc EXCEPT ![r] = "writing"]
      /\ asked[r].actor \in permitted /\ ScopeFree(asked[r]) /\ ~Replayed(asked[r])
      /\ UNCHANGED <<stage, permitted, artifacts, records, asked, workers, interruptions>>
  BY DEF WriteRequest
<1> USE <1>1, <1>2
<1>3. TypeOK'
  BY DEF IInv, TypeOK
<1>4. ClaimsWellFormed' /\ JobsDrawn' /\ KeyExportsOnce'
  BY DEF IInv, ClaimsWellFormed, JobsDrawn, KeyExportsOnce
<1>5. Decided'
  BY DEF IInv, TypeOK, Decided, Replayed, Cached, Usable
<1>6. LocksExclude'
  BY DEF IInv, TypeOK, LocksExclude, Writing, ScopeFree, CacheFree
<1> QED
  BY <1>3, <1>4, <1>5, <1>6 DEF IInv

\* The artifacts and the record after a commit.
LEMMA CommitRequestEffect ==
  ASSUME IInv, NEW r \in Requests, CommitRequest(r)
  PROVE  \E artifact \in DOMAIN artifacts' :
           /\ records' = records \cup {[actor |-> asked[r].actor, key |-> asked[r].key,
                                        artifact |-> artifact]}
           /\ artifact \in Nat
           /\ artifacts' \in Seq(Artifacts)
           /\ artifacts'[artifact].evidence = capture[r].evidence
           /\ DOMAIN artifacts \subseteq DOMAIN artifacts'
           /\ \A i \in DOMAIN artifacts : artifacts'[i] = artifacts[i]
           /\ \A i \in DOMAIN artifacts' \ DOMAIN artifacts :
                artifacts'[i] = NewArtifact(capture[r].evidence)
<1> DEFINE new == NewArtifact(capture[r].evidence)
<1>1. /\ capture[r] \in Captures /\ capture[r].evidence \in Evidence /\ pc[r] = "writing"
      /\ artifacts \in Seq(Artifacts)
  BY DEF IInv, TypeOK, Decided, Captures, CommitRequest
<1>2. new \in Artifacts /\ new.evidence = capture[r].evidence
  <2>1. 0 \in 0..MaxAttempts
    BY Limits
  <2> QED
    BY <1>1, <2>1 DEF NewArtifact, Artifacts
<1>3. CASE capture[r].reuse = 0
  <2>1. /\ artifacts' = Append(artifacts, new)
        /\ records' = records \cup {[actor |-> asked[r].actor, key |-> asked[r].key,
                                      artifact |-> Len(artifacts) + 1]}
    BY <1>3 DEF CommitRequest
  <2> HIDE DEF new
  <2>2. /\ artifacts' \in Seq(Artifacts) /\ Len(artifacts') = Len(artifacts) + 1
        /\ artifacts'[Len(artifacts) + 1] = new
        /\ \A i \in 1..Len(artifacts) : artifacts'[i] = artifacts[i]
    BY <1>1, <1>2, <2>1, AppendProperties
  <2>3. /\ DOMAIN artifacts = 1..Len(artifacts) /\ Len(artifacts) \in Nat
        /\ DOMAIN artifacts' = 1..(Len(artifacts) + 1)
    BY <1>1, <2>2
  <2>4. \A i \in DOMAIN artifacts' \ DOMAIN artifacts : i = Len(artifacts) + 1
    BY <2>3
  <2>5. Len(artifacts) + 1 \in DOMAIN artifacts' /\ DOMAIN artifacts \subseteq DOMAIN artifacts'
    BY <2>3
  <2> QED
    BY <1>2, <2>1, <2>2, <2>3, <2>4, <2>5 DEF new
<1>4. CASE capture[r].reuse # 0
  BY <1>1, <1>4 DEF CommitRequest, IInv, Decided, Captures
<1> QED
  BY <1>3, <1>4

LEMMA CommitRequestKeeps ==
  ASSUME IInv, NEW r \in Requests, CommitRequest(r)
  PROVE  IInv'
<1>1. PICK artifact \in DOMAIN artifacts' :
        /\ records' = records \cup {[actor |-> asked[r].actor, key |-> asked[r].key,
                                     artifact |-> artifact]}
        /\ artifact \in Nat
        /\ artifacts' \in Seq(Artifacts)
        /\ artifacts'[artifact].evidence = capture[r].evidence
        /\ DOMAIN artifacts \subseteq DOMAIN artifacts'
        /\ \A i \in DOMAIN artifacts : artifacts'[i] = artifacts[i]
        /\ \A i \in DOMAIN artifacts' \ DOMAIN artifacts :
             artifacts'[i] = NewArtifact(capture[r].evidence)
  BY CommitRequestEffect
<1>2. /\ pc[r] = "writing" /\ Finish(r)
      /\ UNCHANGED <<stage, permitted, workers, interruptions>>
  BY DEF CommitRequest
<1>3. /\ asked[r] \in Queries /\ asked[r].actor \in Actors /\ asked[r].key \in Keys
      /\ ~Replayed(asked[r])
  BY <1>2 DEF IInv, Decided, Queries
<1> USE <1>1, <1>2 DEF Finish
<1>4. TypeOK'
  BY <1>3 DEF IInv, TypeOK
<1>5. ClaimsWellFormed'
  <2>1. WellFormed(NewArtifact(capture[r].evidence))
    BY DEF WellFormed, NewArtifact
  <2> QED
    BY <2>1 DEF IInv, ClaimsWellFormed
<1>6. JobsDrawn'
  BY DEF IInv, JobsDrawn
<1>7. KeyExportsOnce'
  BY <1>3 DEF IInv, KeyExportsOnce, Replayed
<1>8. ASSUME NEW s \in Requests, s # r, pc[s] = "writing"
      PROVE  asked[s].actor # asked[r].actor /\ capture[s].evidence # capture[r].evidence
  BY <1>8 DEF IInv, LocksExclude, Writing
<1>9. Decided'
  <2> SUFFICES ASSUME NEW s \in Requests, s # r
               PROVE  /\ pc[s] # "idle" => asked[s] \in Queries
                      /\ pc[s] = "writing" =>
                           /\ capture[s] \in Captures /\ capture[s].evidence.stage = stage
                           /\ asked[s].actor \in permitted /\ ~Replayed(asked[s])'
                           /\ capture[s].reuse = 0 => Cached(capture[s].evidence)' = {}
                           /\ capture[s].reuse # 0 =>
                                /\ capture[s].reuse \in DOMAIN artifacts'
                                /\ artifacts'[capture[s].reuse].evidence = capture[s].evidence
    BY DEF Decided, IInv, TypeOK, Replayed
  <2>1. CASE pc[s] = "writing"
    <3>1. ~Replayed(asked[s])'
      BY <1>8, <2>1 DEF Replayed, IInv, Decided
    <3>2. capture[s].reuse = 0 => Cached(capture[s].evidence)' = {}
      BY <1>8, <2>1 DEF Cached, Usable, NewArtifact, IInv, Decided
    <3> QED
      BY <2>1, <3>1, <3>2 DEF IInv, Decided
  <2>2. CASE pc[s] # "writing"
    BY <2>2 DEF IInv, Decided
  <2> QED
    BY <2>1, <2>2
<1>10. LocksExclude'
  BY DEF IInv, TypeOK, LocksExclude, Writing
<1> QED
  BY <1>4, <1>5, <1>6, <1>7, <1>9, <1>10 DEF IInv

-----------------------------------------------------------------------------
(* The other operations, and every step.                                   *)

\* The shared locks of a writing request hold them off.
LEMMA OthersKeep ==
  ASSUME IInv, AdvanceRevision \/ \E actor \in Actors : ChangePermission(actor)
  PROVE  IInv'
<1>1. UNCHANGED <<artifacts, requesting, workers, interruptions>>
  BY DEF AdvanceRevision, ChangePermission
<1> USE <1>1 DEF requesting
<1>2. /\ stage' \in Stages /\ permitted' \subseteq Actors
      /\ \A r \in Writing : stage' = stage /\ (asked[r].actor \in permitted => asked[r].actor \in permitted')
  BY DEF AdvanceRevision, ChangePermission, RevisionShared, Stages, IInv, TypeOK
<1>3. TypeOK' /\ ClaimsWellFormed' /\ JobsDrawn' /\ KeyExportsOnce' /\ LocksExclude'
  BY <1>2 DEF IInv, TypeOK, ClaimsWellFormed, JobsDrawn, KeyExportsOnce, LocksExclude, Writing
<1>4. Decided'
  BY <1>2 DEF IInv, Decided, Writing, Replayed, Cached, Usable
<1> QED
  BY <1>3, <1>4 DEF IInv

LEMMA StutterKeeps ==
  ASSUME IInv, UNCHANGED vars
  PROVE  IInv'
<1> USE DEF vars, requesting
<1>1. TypeOK' /\ ClaimsWellFormed' /\ JobsDrawn' /\ KeyExportsOnce' /\ LocksExclude'
  BY DEF IInv, TypeOK, ClaimsWellFormed, JobsDrawn, KeyExportsOnce, LocksExclude, Writing
<1>2. Decided'
  BY DEF IInv, Decided, Replayed, Cached, Usable
<1> QED
  BY <1>1, <1>2 DEF IInv

LEMMA StepKeeps ==
  ASSUME IInv, [Next]_vars
  PROVE  IInv'
<1>1. CASE UNCHANGED vars
  BY <1>1, StutterKeeps
<1>2. ASSUME NEW r \in Requests, Request(r) PROVE IInv'
  <2>1. CASE Answer(r) \/ FailRequest(r)
    BY <2>1, FinishKeeps DEF Answer, FailRequest
  <2> QED
    BY <1>2, <2>1, AskKeeps, WriteRequestKeeps, CommitRequestKeeps DEF Request
<1>3. ASSUME NEW b \in Backends, Work(b) \/ Interrupt(b) PROVE IInv'
  BY <1>3, QuietWorkKeeps, ClaimKeeps, OutcomeKeeps DEF Work, Interrupt
<1>4. ASSUME NEW i \in DOMAIN artifacts, LeaseExpires(i) PROVE IInv'
  BY <1>4, LeaseExpiresKeeps
<1>5. CASE AdvanceRevision \/ \E actor \in Actors : ChangePermission(actor)
  BY <1>5, OthersKeep
<1> QED
  BY <1>1, <1>2, <1>3, <1>4, <1>5 DEF Next

\* IInv holds in every reachable state.
THEOREM Invariance == Spec => []IInv
<1>1. Init => IInv
  BY InitIInv
<1>2. IInv /\ [Next]_vars => IInv'
  BY StepKeeps
<1> QED
  BY <1>1, <1>2, PTL DEF Spec

-----------------------------------------------------------------------------
(* The invariants the runs check.                                          *)

\* Every variable keeps its type; in particular no job exceeds its attempts.
THEOREM TypeCorrect == Spec => []TypeOK
<1>1. IInv => TypeOK
  BY DEF IInv
<1> QED
  BY <1>1, Invariance, PTL

\* A workbook is the one rendered for the last claim of its job.
THEOREM WorkbookOfLastClaim == Spec => []ReadyFromLastAttempt
<1>1. IInv => ReadyFromLastAttempt
  BY DEF IInv, ClaimsWellFormed, WellFormed, ReadyFromLastAttempt
<1> QED
  BY <1>1, Invariance, PTL

\* No job is given up before all its attempts were made.
THEOREM NoEarlyFailure == Spec => []FailedOnlyExhausted
<1>1. IInv => FailedOnlyExhausted
  BY DEF IInv, ClaimsWellFormed, WellFormed, FailedOnlyExhausted
<1> QED
  BY <1>1, Invariance, PTL

\* A key names one export, on however many backends it is used.
THEOREM KeyNamesOneExport == Spec => []KeyExportsOnce
<1>1. IInv => KeyExportsOnce
  BY DEF IInv
<1> QED
  BY <1>1, Invariance, PTL

-----------------------------------------------------------------------------
(* The action properties the runs check, and the refinement.               *)

\* Few steps touch the revision, the artifacts or the records.
LEMMA StepKinds ==
  ASSUME [Next]_vars
  PROVE  \/ \E r \in Requests : CommitRequest(r)
         \/ \E b \in Backends : ClaimJob(b) \/ FindNone(b)
         \/ \E b \in Backends : Finalize(b) \/ FinalizeFails(b) \/ FailAttempt(b)
         \/ \E i \in DOMAIN artifacts : LeaseExpires(i)
         \/ AdvanceRevision
         \/ UNCHANGED <<stage, artifacts, records>>
<1>1. CASE UNCHANGED vars
  BY <1>1 DEF vars, requesting
<1>2. ASSUME NEW r \in Requests, Ask(r) \/ Answer(r) \/ WriteRequest(r) \/ FailRequest(r)
      PROVE  UNCHANGED <<stage, artifacts, records>>
  BY <1>2 DEF Ask, Answer, WriteRequest, FailRequest
<1>3. ASSUME NEW b \in Backends,
             \/ Tick(b) \/ Iterate(b) \/ EndPass(b) \/ Render(b)
             \/ PassFails(b) \/ Stop(b) \/ Exit(b) \/ Crash(b) \/ Start(b)
      PROVE  UNCHANGED <<stage, artifacts, records>>
  BY <1>3 DEF Tick, Iterate, EndPass, Render, PassFails, Stop, Exit, Crash, Start, Move, requesting
<1>4. ASSUME NEW actor \in Actors, ChangePermission(actor)
      PROVE  UNCHANGED <<stage, artifacts, records>>
  BY <1>4 DEF ChangePermission, requesting
<1> QED
  BY <1>1, <1>2, <1>3, <1>4 DEF Next, Request, Work, Interrupt

\* Only the worker that drew its token ends a claim whose lease runs: the sweep
\* and the next claim pass over it, and a slower worker holds an older token.
THEOREM LiveClaimsAreExclusive == Spec => LiveClaimIsExclusive
<1> DEFINE Exclusive == \A i \in DOMAIN artifacts :
             artifacts[i].lease = "live" /\ artifacts'[i].token # artifacts[i].token
               => \E b \in Backends : /\ workers[b].job = i
                                      /\ workers[b].token = artifacts[i].token
                                      /\ workers'[b] # workers[b]
<1>1. IInv /\ [Next]_vars => Exclusive
  <2> SUFFICES ASSUME IInv, [Next]_vars, NEW i \in DOMAIN artifacts,
                      artifacts[i].lease = "live", artifacts'[i].token # artifacts[i].token
               PROVE  \E b \in Backends : /\ workers[b].job = i
                                          /\ workers[b].token = artifacts[i].token
                                          /\ workers'[b] # workers[b]
    OBVIOUS
  <2>1. artifacts \in Seq(Artifacts) /\ artifacts[i] \in Artifacts
    BY DEF IInv, TypeOK
  <2>2. ASSUME NEW r \in Requests, CommitRequest(r) PROVE FALSE
    BY <2>2, CommitRequestEffect
  <2>3. ASSUME NEW b \in Backends, ClaimJob(b) \/ FindNone(b) PROVE FALSE
    <3>1. PICK S \in Batches : \/ artifacts' = Closed(S)
                               \/ \E j \in Claimable :
                                    artifacts' = [Closed(S) EXCEPT ![j] = Leased(artifacts[j])]
      BY <2>3 DEF ClaimJob, FindNone
    <3>2. i \notin S /\ i \notin Claimable
      BY DEF Batches, Exhausted, Claimable, Unclaimed
    <3> QED
      BY <3>1, <3>2 DEF Closed
  <2>4. ASSUME NEW j \in DOMAIN artifacts, LeaseExpires(j) PROVE FALSE
    BY <2>1, <2>4 DEF LeaseExpires, Artifacts
  <2>5. ASSUME NEW b \in Backends, Finalize(b) \/ FinalizeFails(b) \/ FailAttempt(b)
        PROVE  /\ workers[b].job = i
               /\ workers[b].token = artifacts[i].token
               /\ workers'[b] # workers[b]
    <3>1. HoldsClaim(b) /\ workers[b].job = i
      BY <2>1, <2>5 DEF Finalize, FinalizeFails, FailAttempt, Ready
    <3>2. workers[b] \in Workers /\ workers \in [Backends -> Workers]
      BY DEF IInv, TypeOK
    <3>3. workers'[b].place # workers[b].place
      BY <2>5, <3>2 DEF Finalize, FinalizeFails, FailAttempt, At, Move, NextJob, Workers
    <3> QED
      BY <3>1, <3>3 DEF HoldsClaim
  <2> QED
    BY <2>2, <2>3, <2>4, <2>5, StepKinds DEF AdvanceRevision
<1>2. IInv /\ [Next]_vars => [Exclusive]_vars
  BY <1>1
<1> QED
  BY <1>2, Invariance, PTL DEF Spec, LiveClaimIsExclusive

\* A promise is committed under the locks it was decided under, so its actor is
\* still permitted and its export shows the revision as it still is.
THEOREM PromisesStayCurrent == Spec => PromisesAreCurrent
<1> DEFINE Current == \A rec \in records' \ records :
             rec.actor \in permitted /\ artifacts'[rec.artifact].evidence.stage = stage
<1>1. IInv /\ [Next]_vars => Current
  <2> SUFFICES ASSUME IInv, [Next]_vars, NEW rec \in records' \ records
               PROVE  rec.actor \in permitted /\ artifacts'[rec.artifact].evidence.stage = stage
    OBVIOUS
  <2>1. PICK r \in Requests : CommitRequest(r)
    BY StepKinds DEF ClaimJob, FindNone, Finalize, FinalizeFails, FailAttempt, LeaseExpires,
                     AdvanceRevision, Move, requesting
  <2>2. PICK artifact \in DOMAIN artifacts' :
          /\ records' = records \cup {[actor |-> asked[r].actor, key |-> asked[r].key,
                                       artifact |-> artifact]}
          /\ artifacts'[artifact].evidence = capture[r].evidence
    BY <2>1, CommitRequestEffect
  <2>3. rec.actor = asked[r].actor /\ rec.artifact = artifact
    BY <2>2
  <2>4. asked[r].actor \in permitted /\ capture[r].evidence.stage = stage
    BY <2>1 DEF IInv, Decided, CommitRequest
  <2> QED
    BY <2>2, <2>3, <2>4
<1>2. IInv /\ [Next]_vars => [Current]_vars
  BY <1>1
<1> QED
  BY <1>2, Invariance, PTL DEF Spec, PromisesAreCurrent

\* What ExportArtifacts sees of one artifact, and of all of them.
Shown(a) == [stage |-> a.evidence.stage, template |-> a.evidence.template, status |-> a.status]
View == [i \in 1..Len(artifacts) |-> Shown(artifacts[i])]

LEMMA ViewOfArtifacts ==
  ASSUME IInv
  PROVE  /\ DOMAIN View = DOMAIN artifacts /\ Len(View) = Len(artifacts)
         /\ \A i \in DOMAIN artifacts :
              /\ View[i].stage = artifacts[i].evidence.stage
              /\ View[i].template = artifacts[i].evidence.template
              /\ View[i].status = artifacts[i].status
BY DEF IInv, TypeOK, View, Shown

\* A new artifact appears only when no usable one shows the same evidence.
LEMMA CommitCaptures ==
  ASSUME IInv, IInv', NEW r \in Requests, CommitRequest(r)
  PROVE  Abstract!Next \/ UNCHANGED Abstract!vars
<1> DEFINE evidence == capture[r].evidence
<1>1. /\ capture[r] \in Captures /\ evidence \in Evidence /\ evidence.stage = stage
      /\ evidence.template \in Templates /\ UNCHANGED stage
      /\ artifacts \in Seq(Artifacts)
  BY DEF CommitRequest, IInv, TypeOK, Decided, Captures, Evidence
<1>2. CASE capture[r].reuse # 0
  BY <1>1, <1>2 DEF CommitRequest, Abstract!vars
<1>3. CASE capture[r].reuse = 0
  <2>1. artifacts' = Append(artifacts, NewArtifact(evidence)) /\ Cached(evidence) = {}
    BY <1>3 DEF CommitRequest, IInv, Decided
  <2>2. \A i \in DOMAIN artifacts : artifacts[i].evidence = evidence => ~Usable(i)
    BY <2>1 DEF Cached
  <2>3. ASSUME NEW i \in DOMAIN View, View[i].stage = stage, View[i].template = evidence.template
        PROVE  View[i].status = "failed"
    <3>1. i \in DOMAIN artifacts /\ artifacts[i] \in Artifacts
      BY <1>1, ViewOfArtifacts
    <3>2. artifacts[i].evidence \in Evidence /\ artifacts[i].status \in {"pending", "ready", "failed"}
      BY <3>1 DEF Artifacts
    <3>3. artifacts[i].evidence.stage = evidence.stage
          /\ artifacts[i].evidence.template = evidence.template
      BY <1>1, <2>3, <3>1, ViewOfArtifacts
    <3>4. artifacts[i].evidence = evidence
      BY <1>1, <3>2, <3>3 DEF Evidence
    <3> QED
      BY <2>2, <3>1, <3>2, <3>4, ViewOfArtifacts DEF Usable
  <2>4. View' = Append(View, [stage |-> stage, template |-> evidence.template, status |-> "pending"])
    <3>1. Shown(NewArtifact(evidence)) =
            [stage |-> stage, template |-> evidence.template, status |-> "pending"]
      BY <1>1 DEF Shown, NewArtifact
    <3>2. /\ Len(artifacts) \in Nat /\ Len(artifacts') = Len(artifacts) + 1
          /\ artifacts'[Len(artifacts) + 1] = NewArtifact(evidence)
          /\ \A i \in 1..Len(artifacts) : artifacts'[i] = artifacts[i]
      BY <1>1, <2>1
    <3> QED
      BY <3>1, <3>2 DEF View
  <2>5. PICK template \in Templates : template = evidence.template
    BY <1>1
  <2>6. Abstract!Capture(template)
    BY <1>1, <2>3, <2>4, <2>5 DEF Abstract!Capture, View, Shown
  <2> QED
    BY <2>6 DEF Abstract!Next
<1> QED
  BY <1>2, <1>3

\* A claim or a failed attempt gives up the jobs S.
LEMMA WorkersGiveUp ==
  ASSUME IInv, ArtifactsAdvance, UNCHANGED stage, NEW S \in SUBSET DOMAIN artifacts,
         \A i \in S : artifacts[i].status = "pending" /\ artifacts'[i].status = "failed",
         \A i \in DOMAIN artifacts \ S : artifacts'[i].status = artifacts[i].status
  PROVE  Abstract!Next
<1>1. /\ DOMAIN artifacts = 1..Len(artifacts) /\ Len(artifacts') = Len(artifacts)
      /\ \A i \in DOMAIN artifacts : artifacts'[i].evidence = artifacts[i].evidence
  BY DEF IInv, TypeOK, ArtifactsAdvance
<1>2. \A i \in S : Shown(artifacts'[i]) = [Shown(artifacts[i]) EXCEPT !.status = "failed"]
  BY <1>1 DEF Shown
<1>3. \A i \in DOMAIN artifacts \ S : Shown(artifacts'[i]) = Shown(artifacts[i])
  BY <1>1 DEF Shown
<1>4. View' = [i \in DOMAIN View |->
                 IF i \in S THEN [View[i] EXCEPT !.status = "failed"] ELSE View[i]]
  BY <1>1, <1>2, <1>3 DEF View
<1>5. \A i \in S : View[i].status = "pending"
  BY ViewOfArtifacts
<1>6. Abstract!GiveUp(S)
  BY <1>4, <1>5 DEF Abstract!GiveUp, View, Shown
<1>7. S \in SUBSET DOMAIN View
  BY ViewOfArtifacts
<1>8. \E T \in SUBSET DOMAIN View : Abstract!GiveUp(T)
  BY <1>6, <1>7
<1> QED
  BY <1>8 DEF Abstract!Next, View, Shown

\* The worker that holds the claim of a job has rendered it.
LEMMA WorkerCompletes ==
  ASSUME IInv, ArtifactsAdvance, UNCHANGED stage, NEW i \in DOMAIN artifacts,
         artifacts[i].status = "pending", artifacts'[i].status = "ready",
         \A j \in DOMAIN artifacts \ {i} : artifacts'[j].status = artifacts[j].status
  PROVE  Abstract!Next
<1>1. /\ DOMAIN artifacts = 1..Len(artifacts) /\ Len(artifacts') = Len(artifacts)
      /\ \A j \in DOMAIN artifacts : artifacts'[j].evidence = artifacts[j].evidence
  BY DEF IInv, TypeOK, ArtifactsAdvance
<1>2. Shown(artifacts'[i]) = [Shown(artifacts[i]) EXCEPT !.status = "ready"]
  BY <1>1 DEF Shown
<1>3. \A j \in DOMAIN artifacts \ {i} : Shown(artifacts'[j]) = Shown(artifacts[j])
  BY <1>1 DEF Shown
<1>4. View' = [View EXCEPT ![i].status = "ready"]
  BY <1>1, <1>2, <1>3 DEF View
<1>5. i \in DOMAIN View /\ View[i].status = "pending"
  BY ViewOfArtifacts
<1>6. Abstract!Complete(i)
  BY <1>4, <1>5 DEF Abstract!Complete, View, Shown
<1>7. \E j \in DOMAIN View : Abstract!Complete(j)
  BY <1>5, <1>6
<1> QED
  BY <1>7 DEF Abstract!Next, View, Shown

\* Nothing a reader of the artifacts could see has changed.
LEMMA NothingShown ==
  ASSUME IInv, ArtifactsAdvance, UNCHANGED stage,
         \A i \in DOMAIN artifacts : artifacts'[i].status = artifacts[i].status
  PROVE  UNCHANGED Abstract!vars
<1>1. /\ DOMAIN artifacts = 1..Len(artifacts) /\ Len(artifacts') = Len(artifacts)
      /\ \A i \in DOMAIN artifacts : artifacts'[i].evidence = artifacts[i].evidence
  BY DEF IInv, TypeOK, ArtifactsAdvance
<1>2. \A i \in DOMAIN artifacts : Shown(artifacts'[i]) = Shown(artifacts[i])
  BY <1>1 DEF Shown
<1>3. UNCHANGED View
  BY <1>1, <1>2 DEF View
<1> QED
  BY <1>3 DEF Abstract!vars, View, Shown

LEMMA ClaimRefines ==
  ASSUME IInv, NEW b \in Backends, ClaimJob(b) \/ FindNone(b)
  PROVE  Abstract!Next
<1>1. UNCHANGED stage
  BY DEF ClaimJob, FindNone, Move
<1>2. PICK S \in Batches :
        \/ artifacts' = Closed(S)
        \/ \E i \in Claimable : artifacts' = [Closed(S) EXCEPT ![i] = Leased(artifacts[i])]
  BY DEF ClaimJob, FindNone
<1>3. ArtifactsAdvance
  BY <1>2, ClaimAdvances
<1>4. S \subseteq Exhausted /\ S \subseteq DOMAIN artifacts
  BY DEF Batches, Exhausted
<1>5. ASSUME NEW j \in S
      PROVE  artifacts[j].status = "pending" /\ artifacts'[j].status = "failed"
  <2>1. j \in Exhausted /\ j \in DOMAIN artifacts
    BY <1>4
  <2>2. j \notin Claimable
    <3>1. artifacts[j].attempts \in Nat
      BY <2>1, ArtifactTypes DEF IInv, TypeOK
    <3>2. artifacts[j].attempts >= MaxAttempts
      BY <2>1 DEF Exhausted
    <3>3. ~(artifacts[j].attempts < MaxAttempts)
      BY <3>1, <3>2, Limits
    <3> QED
      BY <3>3 DEF Claimable
  <2>3. artifacts'[j] = GivenUp(artifacts[j])
    BY <1>2, <2>1, <2>2 DEF Closed
  <2> QED
    BY <2>1, <2>3, GivenUpArtifact DEF Exhausted, Unclaimed
<1>6. ASSUME NEW j \in DOMAIN artifacts \ S
      PROVE  artifacts'[j].status = artifacts[j].status
  <2>1. artifacts'[j] = artifacts[j] \/ (j \in Claimable /\ artifacts'[j] = Leased(artifacts[j]))
    BY <1>2 DEF Closed
  <2> QED
    BY <2>1, LeasedArtifact DEF Claimable, Unclaimed
<1> QED
  BY <1>1, <1>3, <1>4, <1>5, <1>6, WorkersGiveUp

\* A worker that has lost its claim writes nothing.
LEMMA OutcomeRefines ==
  ASSUME IInv, NEW b \in Backends, Finalize(b) \/ FinalizeFails(b) \/ FailAttempt(b)
  PROVE  Abstract!Next \/ UNCHANGED Abstract!vars
<1> DEFINE i == workers[b].job
<1>1. UNCHANGED stage /\ (At(b, "finalizing") \/ At(b, "failing"))
  BY DEF Finalize, FinalizeFails, FailAttempt, Move
<1>2. i \in DOMAIN artifacts /\ artifacts[i] \in Artifacts
  BY <1>1, Drawn
<1>3. CASE UNCHANGED artifacts
  BY <1>1, <1>3, SameArtifactsAdvance, NothingShown
<1>4. CASE /\ At(b, "finalizing") /\ HoldsClaim(b) /\ Ready(b)
  <2>1. ArtifactsAdvance
    BY <1>4, ReadyAdvances
  <2>2. artifacts[i].status = "pending" /\ artifacts'[i].status = "ready"
    <3>1. artifacts' = [artifacts EXCEPT ![i] =
            [artifacts[i] EXCEPT !.status = "ready", !.content = workers[b].token,
                                 !.token = 0, !.lease = "none"]]
      BY <1>2, <1>4 DEF Ready
    <3>2. artifacts'[i].status = "ready"
      BY <1>2, <3>1 DEF Artifacts
    <3> QED
      BY <1>4, <3>2 DEF HoldsClaim
  <2>3. \A j \in DOMAIN artifacts \ {i} : artifacts'[j].status = artifacts[j].status
    BY <1>4 DEF Ready
  <2> QED
    BY <1>1, <1>2, <2>1, <2>2, <2>3, WorkerCompletes
<1>5. CASE FailAttempt(b) /\ HoldsClaim(b)
  <2>1. ArtifactsAdvance
    BY <1>5, FailedAdvances
  <2>2. artifacts' = [artifacts EXCEPT ![i] = Attempted(artifacts[i])]
        /\ artifacts[i].status = "pending"
    BY <1>5 DEF FailAttempt, HoldsClaim
  <2>3. artifacts'[i].status \in {"pending", "failed"}
    BY <1>2, <2>2 DEF Attempted, Artifacts
  <2>4. \A j \in DOMAIN artifacts \ {i} : artifacts'[j].status = artifacts[j].status
    BY <2>2
  <2>5. CASE artifacts'[i].status = "failed"
    <3>1. {i} \in SUBSET DOMAIN artifacts
      BY <1>2
    <3> QED
      BY <1>1, <2>1, <2>2, <2>4, <2>5, <3>1, WorkersGiveUp
  <2>6. CASE artifacts'[i].status = "pending"
    BY <1>1, <2>1, <2>2, <2>4, <2>6, NothingShown
  <2> QED
    BY <2>3, <2>5, <2>6
<1> QED
  BY <1>3, <1>4, <1>5 DEF Finalize, FinalizeFails, FailAttempt, Ready

LEMMA OthersRefine ==
  ASSUME IInv,
         \/ \E i \in DOMAIN artifacts : LeaseExpires(i)
         \/ AdvanceRevision
         \/ UNCHANGED <<stage, artifacts>>
  PROVE  Abstract!Next \/ UNCHANGED Abstract!vars
<1>1. CASE AdvanceRevision
  <2>1. Abstract!Advance
    BY <1>1 DEF AdvanceRevision, Abstract!Advance
  <2> QED
    BY <2>1 DEF Abstract!Next
<1>2. CASE UNCHANGED <<stage, artifacts>>
  BY <1>2 DEF Abstract!vars
<1>3. ASSUME NEW i \in DOMAIN artifacts, LeaseExpires(i)
      PROVE  UNCHANGED Abstract!vars
  <2>1. /\ artifacts \in Seq(Artifacts) /\ artifacts' = [artifacts EXCEPT ![i].lease = "expired"]
        /\ UNCHANGED stage
    BY <1>3 DEF LeaseExpires, IInv, TypeOK
  <2>2. /\ DOMAIN artifacts = 1..Len(artifacts) /\ Len(artifacts') = Len(artifacts)
        /\ \A j \in DOMAIN artifacts : /\ artifacts'[j].evidence = artifacts[j].evidence
                                       /\ artifacts'[j].status = artifacts[j].status
    <3>1. artifacts[i] \in Artifacts /\ artifacts'[i] = [artifacts[i] EXCEPT !.lease = "expired"]
      BY <2>1
    <3>2. artifacts'[i].evidence = artifacts[i].evidence /\ artifacts'[i].status = artifacts[i].status
      BY <3>1 DEF Artifacts
    <3>3. \A j \in DOMAIN artifacts \ {i} : artifacts'[j] = artifacts[j]
      BY <2>1
    <3>4. DOMAIN artifacts = 1..Len(artifacts) /\ Len(artifacts') = Len(artifacts)
      BY <2>1
    <3> QED
      BY <3>2, <3>3, <3>4
  <2>3. \A j \in DOMAIN artifacts : Shown(artifacts'[j]) = Shown(artifacts[j])
    BY <2>2 DEF Shown
  <2>4. UNCHANGED View
    BY <2>2, <2>3 DEF View
  <2> QED
    BY <2>1, <2>4 DEF Abstract!vars, View, Shown
<1> QED
  BY <1>1, <1>2, <1>3

\* Requests, workers, leases and crashes do nothing to the exports that capturing
\* a revision, completing an export or giving some up would not do.
THEOREM ExportsAreKeptAlways == Spec => ExportsAreKept
<1>1. Init => Abstract!Init
  <2>1. ASSUME Init PROVE View = << >>
    BY <2>1 DEF Init, View
  <2> QED
    BY <2>1, SMT DEF Init, Abstract!Init, View, Shown
<1>2. IInv /\ IInv' /\ [Next]_vars => [Abstract!Next]_(Abstract!vars)
  <2> SUFFICES ASSUME IInv, IInv', [Next]_vars
               PROVE  Abstract!Next \/ UNCHANGED Abstract!vars
    OBVIOUS
  <2> QED
    BY StepKinds, CommitCaptures, ClaimRefines, OutcomeRefines, OthersRefine
<1> QED
  BY <1>1, <1>2, Invariance, PTL DEF Spec, ExportsAreKept, Abstract!Spec

=============================================================================
