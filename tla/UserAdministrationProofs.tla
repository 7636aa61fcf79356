-------------------- MODULE UserAdministrationProofs --------------------
(***************************************************************************)
(* Theorems about UserAdministration, for any number of requests and       *)
(* accounts, every table the database may start with and any number of     *)
(* transactions.                                                           *)
(***************************************************************************)
EXTENDS UserAdministration, SequenceTheorems, WellFoundedInduction, TLAPS

\* What a request was asked fits its kind; a kept identity is somebody's.
Asked(r) ==
  pc[r] # "idle" =>
    /\ work[r] \in Work
    /\ pc[r] = "verifying" <=> work[r].kind = "login"
    /\ pc[r] = "counting" => Changes(r)
    /\ work[r].kind # "bootstrap" => work[r].actor \in Accounts
    /\ work[r].kind \in {"create", "role"} => work[r].value \in Roles
    /\ work[r].kind = "bootstrap" => work[r].value = "administrator"
    /\ work[r].kind = "status" => work[r].value \in Statuses
    /\ Changes(r) => ~SelfProtected(work[r].actor, work[r].target, work[r].value)

NoAdministrator == ~ \E a \in Accounts : IsAdministrator(account[a])
Checked(r) == pc[r] \in {"checked", "counting", "written"}

\* While its transaction shares the actor's row, the actor stays an enabled
\* administrator; while it has the advisory lock, nobody becomes the first one.
ActorHeld(r) ==
  Checked(r) =>
    IF work[r].kind = "bootstrap"
    THEN r \in bootstrapLock /\ bootstrapLock \subseteq {r} /\ NoAdministrator
    ELSE r \in shared[work[r].actor] /\ ActorCurrent(r)

\* While it has the target's row, the row stays what it was found to be.
TargetHeld(r) ==
  pc[r] \in {"counting", "written"} /\ Changes(r) =>
    r \in exclusive[work[r].target] /\ ~TargetSettled(r)

\* While its insert is uncommitted, nobody else takes the username.
NameHeld(r) ==
  pc[r] = "written" /\ Creates(r) => Target(r) = Absent /\ Inserting(r) \subseteq {r}

\* The counting statement finds the actor and the target, which are two.
YetToFind(r, a) == IF a \in uncounted[r] THEN 1 ELSE 0
CountsBoth(r) ==
  pc[r] = "counting" /\ Removes(r) =>
    counted[r] + YetToFind(r, work[r].actor) + YetToFind(r, work[r].target) >= 2

\* What the UPDATE has established holds until the commit.
Prepared(r) ==
  pc[r] = "written" /\ Changes(r) =>
    /\ EndsSessions(r) => SessionsOf(work[r].target) \subseteq ending[r]
    /\ NewTimestamp(r)

RequestSafe(r) ==
  Asked(r) /\ ActorHeld(r) /\ TargetHeld(r) /\ NameHeld(r) /\ CountsBoth(r) /\ Prepared(r)

\* A row FOR UPDATE is nobody else's.
RowsExclude ==
  \A a \in Accounts : \A r \in exclusive[a] : shared[a] \cup exclusive[a] \subseteq {r}

\* The audit events of an account lead from one to the next, and to its row.
Consecutive(i, j) ==
  i < j /\ ~ \E k \in About(audit[i].target) : i < k /\ k < j
FollowedUp(a, i) ==
  /\ account[a] # Absent /\ audit[i].at <= account[a].updated
  /\ (\A j \in About(a) : j <= i) => account[a] = audit[i].result
  /\ \A j \in About(a) :
       /\ i < j => audit[i].at < audit[j].at
       /\ Consecutive(i, j) => audit[j].prior = audit[i].result
HistoryKept == \A a \in Accounts : \A i \in About(a) : FollowedUp(a, i)

IInv ==
  /\ TypeOK /\ RowsExclude /\ \A r \in Requests : RequestSafe(r)
  /\ AdministratorRemains /\ SessionsFollowRevocation /\ HistoryKept /\ BootstrapOnce
-----------------------------------------------------------------------------
(* What requests do to each other.                                         *)

\* What a step of r that writes no account does to the other requests.
Aside(r) ==
  /\ \A s \in Requests \ {r} :
       /\ pc'[s] = pc[s] /\ work'[s] = work[s] /\ started'[s] = started[s]
       /\ uncounted'[s] = uncounted[s] /\ counted'[s] = counted[s] /\ ending'[s] = ending[s]
       /\ \A a \in Accounts : /\ s \in shared'[a] <=> s \in shared[a]
                              /\ s \in exclusive'[a] <=> s \in exclusive[a]
       /\ s \in bootstrapLock' <=> s \in bootstrapLock
  /\ r \in bootstrapLock' => r \in bootstrapLock \/ bootstrapLock \subseteq {r}
  /\ pc'[r] = "written" => /\ work'[r] = work[r]
                           /\ Creates(r) => pc[r] = "written" \/ Inserting(r) \subseteq {r}

LEMMA AskedTypes ==
  ASSUME TypeOK, NEW r \in Requests, Asked(r), pc[r] # "idle"
  PROVE  /\ work[r] \in Work /\ work[r].kind \in Kinds
         /\ work[r].target \in Accounts /\ work[r].actor \in Accounts \cup {Nobody}
         /\ work[r].value \in Roles \cup Statuses
         /\ account[work[r].target] \in AccountRows \cup {Absent}
         /\ shared[work[r].target] \subseteq Requests
         /\ exclusive[work[r].target] \subseteq Requests
<1>1. work[r] \in Work
  BY DEF Asked
<1> QED
  BY <1>1 DEF Work, TypeOK

\* Another request's locks and findings outlast a step that writes no account.
LEMMA OthersKeep ==
  ASSUME IInv, TypeOK', NEW r \in Requests, NEW s \in Requests \ {r}, Aside(r),
         account' = account,
         pc[s] = "written" => SessionsOf(work[s].target)' \subseteq SessionsOf(work[s].target)
  PROVE  RequestSafe(s)'
<1>0. /\ pc'[s] = pc[s] /\ work'[s] = work[s] /\ started'[s] = started[s]
      /\ uncounted'[s] = uncounted[s] /\ counted'[s] = counted[s] /\ ending'[s] = ending[s]
      /\ RequestSafe(s) /\ RequestSafe(r) /\ TypeOK
  BY DEF IInv, Aside
<1>1. Asked(s)'
  BY <1>0 DEF RequestSafe, Asked, Changes, SelfProtected
<1>2. ActorHeld(s)'
  <2> SUFFICES ASSUME Checked(s) PROVE ActorHeld(s)'
    BY <1>0 DEF ActorHeld, Checked
  <2>1. pc[s] # "idle"
    BY DEF Checked
  <2>2. CASE work[s].kind = "bootstrap"
    BY <1>0, <2>2 DEF RequestSafe, ActorHeld, Checked, Aside, NoAdministrator, TypeOK
  <2>3. CASE work[s].kind # "bootstrap"
    <3>1. work[s].actor \in Accounts
      BY <1>0, <2>1, <2>3 DEF RequestSafe, Asked
    <3> QED
      BY <1>0, <2>3, <3>1 DEF RequestSafe, ActorHeld, Checked, ActorCurrent, Aside
  <2> QED
    BY <2>2, <2>3
<1>3. TargetHeld(s)'
  <2> SUFFICES ASSUME pc[s] \in {"counting", "written"}, Changes(s) PROVE TargetHeld(s)'
    BY <1>0 DEF TargetHeld, Changes
  <2>1. work[s].target \in Accounts
    BY <1>0, AskedTypes DEF RequestSafe
  <2> QED
    BY <1>0, <2>1 DEF RequestSafe, TargetHeld, TargetSettled, Target, NoChange, Aside
<1>4. NameHeld(s)'
  <2> SUFFICES ASSUME pc[s] = "written", Creates(s)
               PROVE  Target(s)' = Absent /\ Inserting(s)' \subseteq {s}
    BY <1>0 DEF NameHeld, Creates
  <2>1. Target(s) = Absent /\ Inserting(s) \subseteq {s}
    BY <1>0 DEF RequestSafe, NameHeld
  <2>2. ASSUME NEW t \in Inserting(s)' PROVE t = s
    <3>1. t \in Requests /\ pc'[t] = "written" /\ Creates(t)' /\ work'[t].target = work[s].target
      BY <1>0, <2>2 DEF Inserting
    <3>2. CASE t # r
      BY <2>1, <3>1, <3>2 DEF Aside, Inserting, Creates
    <3>3. CASE t = r
      <4>1. work'[r] = work[r] /\ (pc[r] = "written" \/ Inserting(r) \subseteq {r})
        BY <3>1, <3>3 DEF Aside, Creates
      <4>2. Creates(r) /\ work[r].target = work[s].target
        BY <3>1, <3>3, <4>1 DEF Creates
      <4>3. s \in Inserting(r)
        BY <4>2 DEF Inserting
      <4>4. pc[r] = "written" => r \in Inserting(s)
        BY <4>2 DEF Inserting
      <4> QED
        BY <2>1, <4>1, <4>3, <4>4
    <3> QED
      BY <3>2, <3>3
  <2> QED
    BY <1>0, <2>1, <2>2 DEF Target
<1>5. CountsBoth(s)'
  BY <1>0 DEF RequestSafe, CountsBoth, Removes, Changes, Target, YetToFind
<1>6. Prepared(s)'
  BY <1>0 DEF RequestSafe, Prepared, Changes, EndsSessions, NewTimestamp, Target
<1> QED
  BY <1>1, <1>2, <1>3, <1>4, <1>5, <1>6 DEF RequestSafe

\* A step that neither writes an account or an event nor opens a session, keeps
\* the invariant if it keeps the acting request's part of it.
LEMMA QuietKeeps ==
  ASSUME IInv, NEW r \in Requests, TypeOK', UNCHANGED <<account, audit>>,
         sessions' \subseteq sessions, Aside(r), RequestSafe(r)', RowsExclude'
  PROVE  IInv'
<1>1. \A s \in Requests \ {r} : RequestSafe(s)'
  <2> TAKE s \in Requests \ {r}
  <2>1. pc'[s] = pc[s] /\ work'[s] = work[s]
    BY DEF Aside
  <2>2. SessionsOf(work[s].target)' \subseteq SessionsOf(work[s].target)
    BY <2>1 DEF SessionsOf
  <2> QED
    BY <2>2, OthersKeep
<1>2. AdministratorRemains' /\ SessionsFollowRevocation' /\ BootstrapOnce'
  BY DEF IInv, AdministratorRemains, SessionsFollowRevocation, BootstrapOnce, Succeeded
<1>3. HistoryKept'
  BY DEF IInv, HistoryKept, FollowedUp, About, Succeeded, Consecutive
<1> QED
  BY <1>1, <1>2, <1>3 DEF IInv
-----------------------------------------------------------------------------
(* The beginning of a request and the ways it ends.                        *)

LEMMA InitIInv == Init => IInv
<1> SUFFICES ASSUME Init PROVE IInv
  OBVIOUS
<1>1. /\ account \in [Accounts -> AccountRows \cup {Absent}]
      /\ (\E a \in Accounts : account[a] # Absent)
            => \E a \in Accounts : EnabledAdministrator(account[a])
  BY ConstantsAssumption DEF Init, ConstantsAssumption
<1>2. TypeOK
  <2>1. sessions \subseteq Sessions
    BY DEF Init, Sessions
  <2> QED
    BY <1>1, <2>1 DEF Init, TypeOK, Places
<1>3. RowsExclude /\ \A r \in Requests : RequestSafe(r)
  BY DEF Init, RowsExclude, RequestSafe, Asked, ActorHeld, Checked, TargetHeld, NameHeld,
         CountsBoth, Prepared
<1>4. Succeeded = {}
  BY DEF Init, Succeeded
<1> QED
  BY <1>1, <1>2, <1>3, <1>4
     DEF IInv, AdministratorRemains, SessionsFollowRevocation, HistoryKept, About, BootstrapOnce

LEMMA AcceptKeeps ==
  ASSUME IInv, NEW r \in Requests, NEW place \in {"verifying", "resolved"},
         NEW kind \in Kinds, NEW actor \in Accounts \cup {Nobody}, NEW target \in Accounts,
         NEW value \in Roles \cup Statuses,
         Accept(r, place, kind, actor, target, value),
         UNCHANGED <<data, locks>>, clock' \in Nat,
         place = "verifying" <=> kind = "login",
         kind # "bootstrap" => actor \in Accounts,
         kind \in {"create", "role"} => value \in Roles,
         kind = "bootstrap" => value = "administrator",
         kind = "status" => value \in Statuses,
         kind \in {"role", "status"} => ~SelfProtected(actor, target, value)
  PROVE  IInv'
<1> DEFINE asked == [kind |-> kind, actor |-> actor, target |-> target, value |-> value]
<1>0. TypeOK /\ RowsExclude
  BY DEF IInv
<1>1. asked \in Work
  BY DEF Work
<1>2. pc'[r] = place /\ work'[r] = asked
  BY <1>0 DEF Accept, TypeOK
<1>3. TypeOK'
  BY <1>0, <1>1 DEF Accept, TypeOK, data, locks, Places
<1>4. Aside(r)
  BY <1>0, <1>2 DEF Accept, Aside, data, locks, TypeOK
<1>5. Asked(r)'
  BY <1>1, <1>2 DEF Asked, Changes
<1>6. RequestSafe(r)'
  BY <1>2, <1>5
     DEF RequestSafe, ActorHeld, Checked, TargetHeld, NameHeld, CountsBoth, Prepared
<1>7. RowsExclude'
  BY <1>0 DEF RowsExclude, locks
<1> QED
  BY <1>3, <1>4, <1>6, <1>7, QuietKeeps DEF data

LEMMA LeaveEffect ==
  ASSUME TypeOK, NEW r \in Requests, Leave(r)
  PROVE  /\ pc'[r] = "idle" /\ RequestSafe(r)'
         /\ pc' \in [Requests -> Places] /\ work' \in [Requests -> Work \cup {Absent}]
         /\ started' \in [Requests -> Nat]
         /\ uncounted' \in [Requests -> SUBSET Accounts] /\ counted' \in [Requests -> Nat]
         /\ ending' \in [Requests -> SUBSET Sessions]
         /\ \A s \in Requests \ {r} :
              /\ pc'[s] = pc[s] /\ work'[s] = work[s] /\ started'[s] = started[s]
              /\ uncounted'[s] = uncounted[s] /\ counted'[s] = counted[s]
              /\ ending'[s] = ending[s]
<1>1. pc'[r] = "idle"
  BY DEF Leave, TypeOK
<1>2. RequestSafe(r)'
  BY <1>1 DEF RequestSafe, Asked, ActorHeld, Checked, TargetHeld, NameHeld, CountsBoth, Prepared
<1> QED
  BY <1>1, <1>2 DEF Leave, TypeOK, Places

LEMMA ReleaseEffect ==
  ASSUME TypeOK, NEW r \in Requests, ReleaseLocks(r)
  PROVE  /\ shared' \in [Accounts -> SUBSET Requests] /\ exclusive' \in [Accounts -> SUBSET Requests]
         /\ bootstrapLock' \subseteq Requests /\ changeLock' \subseteq Requests
         /\ \A s \in Requests \ {r} :
              /\ \A a \in Accounts : /\ s \in shared'[a] <=> s \in shared[a]
                                     /\ s \in exclusive'[a] <=> s \in exclusive[a]
              /\ s \in bootstrapLock' <=> s \in bootstrapLock
         /\ r \notin bootstrapLock' /\ bootstrapLock' \subseteq bootstrapLock
         /\ RowsExclude => RowsExclude'
<1>1. \A a \in Accounts : shared'[a] = shared[a] \ {r} /\ exclusive'[a] = exclusive[a] \ {r}
  BY DEF ReleaseLocks
<1>2. RowsExclude => RowsExclude'
  BY <1>1 DEF RowsExclude
<1> QED
  BY <1>1, <1>2 DEF ReleaseLocks, TypeOK

LEMMA RollbackKeeps ==
  ASSUME IInv, NEW r \in Requests, Rollback(r)
  PROVE  IInv'
<1>0. TypeOK /\ RowsExclude /\ ReleaseLocks(r) /\ Leave(r) /\ UNCHANGED <<data, clock>>
  BY DEF IInv, Rollback
<1>1. TypeOK'
  BY <1>0, LeaveEffect, ReleaseEffect DEF TypeOK, data
<1>2. Aside(r)
  BY <1>0, LeaveEffect, ReleaseEffect DEF Aside
<1> QED
  BY <1>0, <1>1, <1>2, LeaveEffect, ReleaseEffect, QuietKeeps DEF data

LEMMA SubmitKeeps ==
  ASSUME IInv, NEW r \in Requests, NEW user \in Accounts, SignIn(r, user) \/ Submit(r, user)
  PROVE  IInv'
<1>0. TypeOK /\ account[user] \in AccountRows \cup {Absent} /\ clock \in Nat
  BY DEF IInv, TypeOK
<1>1. CASE SignIn(r, user)
  <2>1. account[user].role \in Roles
    BY <1>0, <1>1 DEF SignIn, AccountRows
  <2>2. /\ Accept(r, "verifying", "login", user, user, account[user].role)
        /\ UNCHANGED <<data, locks>> /\ clock' = clock + 1
    BY <1>1 DEF SignIn
  <2> QED
    BY <1>0, <2>1, <2>2, AcceptKeeps DEF Kinds
<1>2. ASSUME NEW target \in Accounts, NEW kind \in {"create", "role", "status"},
             NEW value \in Roles \cup Statuses, SubmitAccepted(r, user, kind, target, value),
             kind \in {"create", "role"} => value \in Roles,
             kind = "status" => value \in Statuses
      PROVE  IInv'
  BY <1>0, <1>2, AcceptKeeps DEF SubmitAccepted, Kinds
<1>3. ASSUME NEW target \in Accounts, NEW kind \in {"create", "role", "status"},
             SubmitRejected(r, user, kind, target)
      PROVE  IInv'
  <2> DEFINE event == [outcome |-> "rejected", kind |-> kind, actor |-> user,
                       target |-> target, prior |-> Absent, result |-> Absent, at |-> clock + 1]
  <2>1. event \in Events
    BY <1>0 DEF Events, Kinds
  <2>2. audit' = Append(audit, event) /\ UNCHANGED <<account, sessions, locks, pc, local>>
        /\ clock' = clock + 1
    BY <1>3 DEF SubmitRejected
  <2>3. TypeOK'
    BY <1>0, <2>1, <2>2 DEF TypeOK, locks, local
  <2>4. \A s \in Requests : RequestSafe(s)'
    BY <2>2 DEF IInv, RequestSafe, Asked, Changes, Creates, ActorHeld, Checked, ActorCurrent,
                NoAdministrator, TargetHeld, TargetSettled, Target, NoChange, NameHeld, Inserting,
                CountsBoth, Removes, YetToFind, Prepared, EndsSessions, SessionsOf, NewTimestamp,
                locks, local
  <2>5. /\ Len(audit) \in Nat /\ Len(audit') = Len(audit) + 1
        /\ \A i \in 1..Len(audit) : audit'[i] = audit[i]
        /\ audit'[Len(audit) + 1].outcome = "rejected"
    <3>1. audit'[Len(audit) + 1] = event
      BY <1>0, <2>1, <2>2 DEF TypeOK
    <3> QED
      BY <1>0, <2>1, <2>2, <3>1 DEF TypeOK
  <2>6. Succeeded' = Succeeded /\ Succeeded \subseteq 1..Len(audit)
    <3>1. \A i \in Nat : i \in Succeeded' <=> i \in Succeeded
      BY <2>5 DEF Succeeded
    <3> QED
      BY <2>5, <3>1 DEF Succeeded
  <2>7. \A i \in Succeeded : audit'[i] = audit[i]
    BY <2>5, <2>6
  <2>8. \A a : About(a)' = About(a)
    BY <2>6, <2>7 DEF About
  <2>9. AdministratorRemains' /\ SessionsFollowRevocation' /\ BootstrapOnce'
    BY <2>2, <2>6, <2>7
       DEF IInv, AdministratorRemains, SessionsFollowRevocation, BootstrapOnce
  <2>10. HistoryKept'
    <3>1. \A a \in Accounts : \A i \in About(a) : i \in Succeeded
      BY DEF About
    <3>2. \A i, j \in Succeeded : Consecutive(i, j)' => Consecutive(i, j)
      BY <2>7, <2>8 DEF Consecutive
    <3>3. ASSUME NEW a \in Accounts, NEW i \in About(a)'
          PROVE  FollowedUp(a, i)'
      <4>1. i \in About(a) /\ i \in Succeeded /\ account' = account /\ audit'[i] = audit[i]
        BY <2>2, <2>7, <2>8, <3>1, <3>3
      <4>2. \A j \in About(a) : j \in Succeeded /\ audit'[j] = audit[j]
        BY <2>7, <3>1
      <4>3. FollowedUp(a, i)
        BY <4>1 DEF IInv, HistoryKept
      <4> QED
        BY <2>8, <3>2, <4>1, <4>2, <4>3 DEF FollowedUp
    <3> QED
      BY <3>3 DEF HistoryKept
  <2>11. RowsExclude'
    BY <2>2 DEF IInv, RowsExclude, locks
  <2> QED
    BY <2>3, <2>4, <2>9, <2>10, <2>11 DEF IInv
<1> QED
  BY <1>1, <1>2, <1>3, ConstantsAssumption DEF Submit, ConstantsAssumption

LEMMA BootstrapAskedKeeps ==
  ASSUME IInv, NEW r \in Requests, NEW target \in Accounts, SubmitBootstrap(r, target)
  PROVE  IInv'
<1>1. clock \in Nat
  BY DEF IInv, TypeOK
<1>2. UNCHANGED <<data, locks>> /\ clock' = clock
      /\ Accept(r, "resolved", "bootstrap", Nobody, target, "administrator")
  BY DEF SubmitBootstrap
<1> QED
  BY <1>1, <1>2, AcceptKeeps DEF Kinds, Roles
-----------------------------------------------------------------------------
(* Inside a transaction.                                                   *)

LEMMA OpenSessionKeeps ==
  ASSUME IInv, NEW r \in Requests, OpenSession(r)
  PROVE  IInv'
<1> DEFINE session == [user |-> work[r].target, since |-> Len(audit)]
<1>0. /\ TypeOK /\ RequestSafe(r) /\ pc[r] = "verifying" /\ Leave(r)
      /\ UNCHANGED <<account, audit, locks, clock>>
      /\ sessions' = sessions \cup {session} /\ exclusive[work[r].target] \subseteq {r}
  BY DEF IInv, OpenSession, Free, Blockers
<1>1. work[r].target \in Accounts /\ Len(audit) \in Nat
  BY <1>0, AskedTypes DEF RequestSafe, TypeOK
<1>2. session \in Sessions
  BY <1>1 DEF Sessions
<1>3. TypeOK'
  BY <1>0, <1>2, LeaveEffect DEF TypeOK, locks
<1>4. Aside(r)
  BY <1>0, LeaveEffect DEF Aside, locks
<1>5. \A s \in Requests \ {r} : RequestSafe(s)'
  <2> TAKE s \in Requests \ {r}
  <2>1. ASSUME pc[s] = "written", Changes(s)
        PROVE  SessionsOf(work[s].target)' \subseteq SessionsOf(work[s].target)
    <3>1. work[s].target # work[r].target
      BY <1>0, <2>1 DEF IInv, RequestSafe, TargetHeld
    <3>2. work'[s] = work[s]
      BY <1>4 DEF Aside
    <3> QED
      BY <1>0, <3>1, <3>2 DEF SessionsOf
  <2>2. CASE pc[s] = "written" => Changes(s)
    BY <1>0, <1>3, <1>4, <2>1, <2>2, OthersKeep
  <2>3. CASE pc[s] = "written" /\ ~Changes(s)
    <3>1. /\ pc'[s] = pc[s] /\ work'[s] = work[s] /\ TypeOK /\ RequestSafe(s)
      BY <1>4, <1>0 DEF Aside, IInv
    <3>2. Asked(s)' /\ TargetHeld(s)' /\ CountsBoth(s)' /\ Prepared(s)'
      BY <2>3, <3>1 DEF RequestSafe, Asked, Changes, SelfProtected, TargetHeld, CountsBoth, Prepared
    <3>3. ActorHeld(s)'
      BY <1>0, <3>1 DEF RequestSafe, ActorHeld, Checked, ActorCurrent, NoAdministrator, locks
    <3>4. NameHeld(s)'
      <4>1. \A t \in Requests : pc'[t] = "written" => t # r /\ pc[t] = "written" /\ work'[t] = work[t]
        BY <1>0, <1>4, LeaveEffect DEF Aside
      <4> QED
        BY <1>0, <3>1, <4>1 DEF RequestSafe, NameHeld, Creates, Target, Inserting
    <3> QED
      BY <3>2, <3>3, <3>4 DEF RequestSafe
  <2> QED
    BY <2>2, <2>3
<1>6. AdministratorRemains' /\ BootstrapOnce' /\ HistoryKept'
  BY <1>0 DEF IInv, AdministratorRemains, BootstrapOnce, Succeeded, HistoryKept, FollowedUp, About,
              Consecutive
<1>7. SessionsFollowRevocation'
  BY <1>0, <1>1 DEF IInv, SessionsFollowRevocation, Succeeded
<1>8. RowsExclude'
  BY <1>0 DEF IInv, RowsExclude, locks
<1> QED
  BY <1>0, <1>3, <1>5, <1>6, <1>7, <1>8, LeaveEffect DEF IInv

LEMMA CloseSessionKeeps ==
  ASSUME IInv, NEW s \in sessions, CloseSession(s)
  PROVE  IInv'
<1>1. /\ sessions' \subseteq sessions /\ UNCHANGED <<account, audit, locks, clock, pc, local>>
  BY DEF CloseSession
<1>2. TypeOK'
  BY <1>1 DEF IInv, TypeOK, locks, local
<1>3. \A r \in Requests : RequestSafe(r)'
  BY <1>1 DEF IInv, RequestSafe, Asked, Changes, Creates, ActorHeld, Checked, ActorCurrent,
              NoAdministrator, TargetHeld, TargetSettled, Target, NoChange, NameHeld, Inserting,
              CountsBoth, Removes, YetToFind, Prepared, EndsSessions, SessionsOf, NewTimestamp,
              locks, local
<1>4. AdministratorRemains' /\ SessionsFollowRevocation' /\ BootstrapOnce'
  BY <1>1 DEF IInv, AdministratorRemains, SessionsFollowRevocation, BootstrapOnce, Succeeded
<1>5. HistoryKept' /\ RowsExclude'
  BY <1>1 DEF IInv, HistoryKept, FollowedUp, About, Succeeded, Consecutive, RowsExclude, locks
<1> QED
  BY <1>2, <1>3, <1>4, <1>5 DEF IInv

LEMMA BeginKeeps ==
  ASSUME IInv, NEW r \in Requests, Begin(r)
  PROVE  IInv'
<1>0. TypeOK /\ RequestSafe(r) /\ RowsExclude
  BY DEF IInv
<1>1. pc'[r] = "begun" /\ pc[r] = "resolved" /\ work' = work /\ UNCHANGED <<data, locks>>
  BY <1>0 DEF Begin, TypeOK
<1>2. TypeOK'
  BY <1>0 DEF Begin, TypeOK, data, locks, Places
<1>3. Aside(r)
  BY <1>0, <1>1 DEF Begin, Aside, TypeOK, locks
<1>4. RequestSafe(r)'
  BY <1>0, <1>1 DEF RequestSafe, Asked, Changes, SelfProtected, ActorHeld, Checked, TargetHeld,
                    NameHeld, CountsBoth, Prepared
<1> QED
  BY <1>0, <1>1, <1>2, <1>3, <1>4, QuietKeeps DEF data, locks, RowsExclude

LEMMA CheckActorKeeps ==
  ASSUME IInv, NEW r \in Requests, CheckActor(r)
  PROVE  IInv'
<1>0. TypeOK /\ RequestSafe(r) /\ RowsExclude
  BY DEF IInv
<1>1. /\ pc[r] = "begun" /\ work[r].kind # "bootstrap" /\ ActorCurrent(r)
      /\ exclusive[work[r].actor] \subseteq {r}
      /\ shared' = [shared EXCEPT ![work[r].actor] = @ \cup {r}]
      /\ UNCHANGED <<data, exclusive, bootstrapLock, changeLock, clock, local>>
  BY DEF CheckActor, Free, Blockers
<1>2. pc'[r] = "checked" /\ pc' = [pc EXCEPT ![r] = "checked"]
  BY <1>0 DEF CheckActor, TypeOK
<1>3. work[r].actor \in Accounts
  BY <1>0, <1>1 DEF RequestSafe, Asked
<1>4. /\ \A a \in Accounts : shared'[a] = IF a = work[r].actor THEN shared[a] \cup {r} ELSE shared[a]
      /\ shared' \in [Accounts -> SUBSET Requests]
  BY <1>0, <1>1, <1>3 DEF TypeOK
<1>5. TypeOK'
  BY <1>0, <1>1, <1>2, <1>4 DEF TypeOK, data, local, Places
<1>6. Aside(r)
  BY <1>0, <1>1, <1>2, <1>4 DEF Aside, TypeOK, local
<1>7. RequestSafe(r)'
  BY <1>0, <1>1, <1>2, <1>3, <1>4
     DEF RequestSafe, Asked, Changes, SelfProtected, ActorHeld, Checked, ActorCurrent, TargetHeld,
         NameHeld, CountsBoth, Prepared, data, local
<1>8. RowsExclude'
  BY <1>0, <1>1, <1>4 DEF RowsExclude
<1> QED
  BY <1>1, <1>5, <1>6, <1>7, <1>8, QuietKeeps DEF data

LEMMA CheckBootstrapKeeps ==
  ASSUME IInv, NEW r \in Requests, CheckBootstrap(r)
  PROVE  IInv'
<1>0. TypeOK /\ RequestSafe(r) /\ RowsExclude
  BY DEF IInv
<1>1. /\ pc[r] = "begun" /\ work[r].kind = "bootstrap" /\ bootstrapLock \subseteq {r}
      /\ NoAdministrator /\ bootstrapLock' = bootstrapLock \cup {r}
      /\ UNCHANGED <<data, shared, exclusive, changeLock, clock, local>>
  BY DEF CheckBootstrap, Free, Blockers, NoAdministrator
<1>2. pc'[r] = "checked" /\ pc' = [pc EXCEPT ![r] = "checked"]
  BY <1>0 DEF CheckBootstrap, TypeOK
<1>3. TypeOK'
  BY <1>0, <1>1, <1>2 DEF TypeOK, data, local, Places
<1>4. Aside(r)
  BY <1>0, <1>1, <1>2 DEF Aside, TypeOK, local
<1>5. RequestSafe(r)'
  BY <1>0, <1>1, <1>2
     DEF RequestSafe, Asked, Changes, SelfProtected, ActorHeld, Checked, NoAdministrator, TargetHeld,
         NameHeld, CountsBoth, Prepared, data, local
<1> QED
  BY <1>0, <1>1, <1>3, <1>4, <1>5, QuietKeeps DEF data, RowsExclude

LEMMA InsertUserKeeps ==
  ASSUME IInv, NEW r \in Requests, InsertUser(r)
  PROVE  IInv'
<1>0. TypeOK /\ RequestSafe(r) /\ RowsExclude
  BY DEF IInv
<1>1. /\ pc[r] = "checked" /\ Creates(r) /\ Inserting(r) \subseteq {r} /\ Target(r) = Absent
      /\ UNCHANGED <<data, locks, clock, local>>
  BY DEF InsertUser, Free, Blockers, Creates, Changes
<1>2. pc'[r] = "written" /\ pc' = [pc EXCEPT ![r] = "written"]
  BY <1>0 DEF InsertUser, TypeOK
<1>3. TypeOK'
  BY <1>0, <1>1, <1>2 DEF TypeOK, data, locks, local, Places
<1>4. Aside(r)
  BY <1>0, <1>1, <1>2 DEF Aside, TypeOK, locks, local
<1>5. NameHeld(r)'
  <2>1. \A s \in Requests : s # r => pc'[s] = pc[s]
    BY <1>4 DEF Aside
  <2> QED
    BY <1>1, <1>2, <2>1 DEF NameHeld, Inserting, Target, Creates, data, local
<1>6. RequestSafe(r)'
  BY <1>0, <1>1, <1>2, <1>5
     DEF RequestSafe, Asked, Changes, Creates, SelfProtected, ActorHeld, Checked, ActorCurrent,
         NoAdministrator, TargetHeld, CountsBoth, Prepared, data, locks, local
<1> QED
  BY <1>0, <1>1, <1>3, <1>4, <1>6, QuietKeeps DEF data, locks, RowsExclude

\* Who takes an enabled administrator away is somebody else.
LEMMA ActorIsAnother ==
  ASSUME NEW r \in Requests, Asked(r), pc[r] # "idle", Removes(r)
  PROVE  work[r].actor \in Accounts /\ work[r].actor # work[r].target
BY DEF Asked, Removes, Changes, SelfProtected

LEMMA LockTargetKeeps ==
  ASSUME IInv, NEW r \in Requests, LockTarget(r)
  PROVE  IInv'
<1> DEFINE target == work[r].target
<1>0. TypeOK /\ RequestSafe(r) /\ RowsExclude
  BY DEF IInv
<1>1. /\ pc[r] = "checked" /\ Changes(r) /\ ~TargetSettled(r)
      /\ shared[target] \cup exclusive[target] \subseteq {r}
      /\ exclusive' = [exclusive EXCEPT ![target] = @ \cup {r}]
      /\ UNCHANGED <<data, shared, bootstrapLock, changeLock, clock, work, started, counted, ending>>
  BY DEF LockTarget, Free, Blockers, Creates, Changes
<1>2. /\ pc'[r] = "counting" /\ pc' = [pc EXCEPT ![r] = "counting"]
      /\ uncounted' \in [Requests -> SUBSET Accounts]
      /\ Removes(r) => uncounted'[r] = {a \in Accounts : EnabledAdministrator(account[a])}
      /\ \A s \in Requests \ {r} : uncounted'[s] = uncounted[s]
  BY <1>0 DEF LockTarget, TypeOK
<1>3. target \in Accounts /\ account[target] \in AccountRows \cup {Absent}
  BY <1>0, <1>1, AskedTypes DEF RequestSafe
<1>4. /\ \A a \in Accounts : exclusive'[a] = IF a = target THEN exclusive[a] \cup {r} ELSE exclusive[a]
      /\ exclusive' \in [Accounts -> SUBSET Requests]
  BY <1>0, <1>1, <1>3 DEF TypeOK
<1>5. TypeOK'
  BY <1>0, <1>1, <1>2, <1>4 DEF TypeOK, data, Places
<1>6. Aside(r)
  BY <1>0, <1>1, <1>2, <1>4 DEF Aside, TypeOK
<1>7. CountsBoth(r)'
  <2> SUFFICES ASSUME Removes(r)
               PROVE  counted'[r] + YetToFind(r, work[r].actor)' + YetToFind(r, target)' >= 2
    BY <1>1 DEF CountsBoth, Removes, Changes, Target, data
  <2>1. work[r].actor \in Accounts
    BY <1>0, <1>1, ActorIsAnother DEF RequestSafe
  <2>2. work[r].actor \in uncounted'[r] /\ target \in uncounted'[r]
    BY <1>0, <1>1, <1>2, <1>3, <2>1
       DEF RequestSafe, ActorHeld, Checked, ActorCurrent, Removes, Changes, Target
  <2>3. counted'[r] \in Nat
    BY <1>5 DEF TypeOK
  <2> QED
    BY <1>1, <2>2, <2>3 DEF YetToFind
<1>8. TargetHeld(r)'
  BY <1>0, <1>1, <1>3, <1>4 DEF TargetHeld, TargetSettled, Target, NoChange, data
<1>9. RequestSafe(r)'
  BY <1>0, <1>1, <1>2, <1>7, <1>8
     DEF RequestSafe, Asked, Changes, Creates, SelfProtected, ActorHeld, Checked, ActorCurrent,
         NameHeld, Prepared, data
<1>10. RowsExclude'
  BY <1>0, <1>1, <1>4 DEF RowsExclude
<1> QED
  BY <1>1, <1>5, <1>6, <1>9, <1>10, QuietKeeps DEF data

\* One row of the counting statement: a, found to be an enabled administrator's
\* or not.
LEMMA CountRowKeeps ==
  ASSUME IInv, NEW r \in Requests, NEW a, NEW found \in BOOLEAN,
         found <=> EnabledAdministrator(account[a]),
         pc[r] = "counting", shared[a] \cup exclusive[a] \subseteq {r},
         UNCHANGED <<data, shared, bootstrapLock, changeLock, clock, pc, work, started, ending>>,
         uncounted' = [uncounted EXCEPT ![r] = @ \ {a}],
         found => /\ counted' = [counted EXCEPT ![r] = @ + 1]
                  /\ exclusive' = [exclusive EXCEPT ![a] = @ \cup {r}],
         ~found => UNCHANGED <<counted, exclusive>>
  PROVE  IInv'
<1>0. TypeOK /\ RequestSafe(r) /\ RowsExclude
  BY DEF IInv
<1>1. /\ exclusive' \in [Accounts -> SUBSET Requests]
      /\ \A b \in Accounts : \/ exclusive'[b] = exclusive[b]
                             \/ b = a /\ exclusive'[b] = exclusive[b] \cup {r}
  <2>1. CASE found
    <3>1. exclusive' = [b \in Accounts |-> IF b = a THEN exclusive[b] \cup {r} ELSE exclusive[b]]
      BY <1>0, <2>1 DEF TypeOK
    <3>2. \A b \in Accounts : exclusive[b] \subseteq Requests
      BY <1>0 DEF TypeOK
    <3> QED
      BY <3>1, <3>2
  <2>2. CASE ~found
    BY <1>0, <2>2 DEF TypeOK
  <2> QED
    BY <2>1, <2>2
<1>2. /\ uncounted'[r] = uncounted[r] \ {a} /\ uncounted' \in [Requests -> SUBSET Accounts]
      /\ \A s \in Requests \ {r} : uncounted'[s] = uncounted[s]
  BY <1>0 DEF TypeOK
<1>3. /\ counted[r] \in Nat /\ counted' \in [Requests -> Nat]
      /\ found => counted'[r] = counted[r] + 1
      /\ ~found => counted'[r] = counted[r]
      /\ \A s \in Requests \ {r} : counted'[s] = counted[s]
  <2>1. CASE found
    BY <1>0, <2>1 DEF TypeOK
  <2>2. CASE ~found
    BY <1>0, <2>2 DEF TypeOK
  <2> QED
    BY <2>1, <2>2
<1>4. TypeOK'
  BY <1>0, <1>1, <1>2, <1>3 DEF TypeOK, data
<1>5. Aside(r)
  BY <1>0, <1>1, <1>2, <1>3 DEF Aside, TypeOK
<1>6. CountsBoth(r)'
  <2> SUFFICES ASSUME Removes(r)
               PROVE  counted'[r] + YetToFind(r, work[r].actor)'
                        + YetToFind(r, work[r].target)' >= 2
    BY DEF CountsBoth, Removes, Changes, Target, data
  <2> DEFINE actor == work[r].actor
             target == work[r].target
  <2>1. /\ actor # target
        /\ EnabledAdministrator(account[actor]) /\ EnabledAdministrator(account[target])
        /\ counted[r] + YetToFind(r, actor) + YetToFind(r, target) >= 2
    BY <1>0, ActorIsAnother
       DEF RequestSafe, CountsBoth, ActorHeld, Checked, ActorCurrent, Removes, Changes, Target
  <2>2. \A b : /\ b # a => YetToFind(r, b)' = YetToFind(r, b)
               /\ YetToFind(r, b) \in 0..1 /\ YetToFind(r, b)' \in 0..1
    BY <1>2 DEF YetToFind
  <2>3. a = actor \/ a = target => counted'[r] = counted[r] + 1
    BY <1>3, <2>1
  <2>4. counted'[r] \in Nat /\ counted'[r] >= counted[r]
    BY <1>3
  <2>5. work' = work
    OBVIOUS
  <2> HIDE DEF actor, target
  <2> QED
    BY <1>3, <2>1, <2>2, <2>3, <2>4, <2>5 DEF actor, target
<1>7. TargetHeld(r)'
  <2>1. work[r].target \in Accounts
    BY <1>0, AskedTypes DEF RequestSafe
  <2> QED
    BY <1>0, <1>1, <2>1
       DEF RequestSafe, TargetHeld, TargetSettled, Target, NoChange, Changes, data
<1>8. RequestSafe(r)'
  BY <1>0, <1>6, <1>7
     DEF RequestSafe, Asked, Changes, Creates, SelfProtected, ActorHeld, Checked, ActorCurrent,
         NameHeld, Prepared, data
<1>9. RowsExclude'
  BY <1>0, <1>1 DEF RowsExclude
<1> QED
  BY <1>4, <1>5, <1>8, <1>9, QuietKeeps DEF data

LEMMA CountAdministratorKeeps ==
  ASSUME IInv, NEW r \in Requests, CountAdministrator(r)
  PROVE  IInv'
<1>1. shared[NextToCount(r)] \cup exclusive[NextToCount(r)] \subseteq {r}
  BY DEF CountAdministrator, Free, Blockers
<1> QED
  BY <1>1, CountRowKeeps DEF CountAdministrator

LEMMA UpdateUserKeeps ==
  ASSUME IInv, NEW r \in Requests, UpdateUser(r)
  PROVE  IInv'
<1>0. TypeOK /\ RequestSafe(r) /\ RowsExclude
  BY DEF IInv
<1>1. /\ pc[r] = "counting" /\ Changes(r) /\ ~Creates(r) /\ NewTimestamp(r)
      /\ UNCHANGED <<data, shared, exclusive, bootstrapLock, clock, work, started, uncounted, counted>>
      /\ changeLock' = changeLock \cup {r}
  BY <1>0 DEF UpdateUser, RequestSafe, Asked, Changes, Creates
<1>2. /\ pc'[r] = "written" /\ pc' = [pc EXCEPT ![r] = "written"]
      /\ ending'[r] = IF EndsSessions(r) THEN SessionsOf(work[r].target) ELSE {}
      /\ ending' \in [Requests -> SUBSET Sessions]
      /\ \A s \in Requests \ {r} : ending'[s] = ending[s]
  <2>1. SessionsOf(work[r].target) \subseteq Sessions
    BY <1>0 DEF SessionsOf, TypeOK
  <2> QED
    BY <1>0, <2>1 DEF UpdateUser, TypeOK
<1>3. TypeOK'
  BY <1>0, <1>1, <1>2 DEF TypeOK, data, Places
<1>4. Aside(r)
  BY <1>0, <1>1, <1>2 DEF Aside, TypeOK
<1>5. Prepared(r)'
  BY <1>0, <1>1, <1>2 DEF Prepared, EndsSessions, SessionsOf, NewTimestamp, Target, data
<1>6. RequestSafe(r)'
  BY <1>0, <1>1, <1>2, <1>5
     DEF RequestSafe, Asked, Changes, Creates, SelfProtected, ActorHeld, Checked, ActorCurrent,
         TargetHeld, TargetSettled, Target, NoChange, NameHeld, CountsBoth, data
<1> QED
  BY <1>0, <1>1, <1>3, <1>4, <1>6, QuietKeeps DEF data, RowsExclude
-----------------------------------------------------------------------------
(* The commit.                                                             *)

\* What the deferred triggers look at has been ensured already.
LEMMA WrittenMayCommit ==
  ASSUME IInv, NEW r \in Requests, pc[r] = "written"
  PROVE  CommitAllowed(r)
BY DEF IInv, RequestSafe, Prepared, ActorHeld, Checked, NoAdministrator, CommitAllowed

\* The actor of a transaction that writes is somebody else than its target.
LEMMA WritersActor ==
  ASSUME TypeOK, NEW r \in Requests, RequestSafe(r),
         pc[r] = "written" \/ (pc[r] = "counting" /\ Changes(r)), work[r].kind # "bootstrap"
  PROVE  /\ work[r].actor \in Accounts /\ ActorCurrent(r)
         /\ work[r].actor # work[r].target
<1>1. work[r].actor \in Accounts /\ ActorCurrent(r) /\ work[r].kind \in Kinds
  BY AskedTypes DEF RequestSafe, Asked, ActorHeld, Checked
<1>2. Creates(r) \/ Changes(r)
  BY <1>1 DEF RequestSafe, Asked, Kinds, Creates, Changes
<1>3. CASE Creates(r)
  BY <1>1, <1>3 DEF RequestSafe, NameHeld, Creates, Changes, Target, ActorCurrent,
                    EnabledAdministrator, IsAdministrator
<1>4. CASE Changes(r)
  <2> SUFFICES ASSUME work[r].actor = work[r].target PROVE FALSE
    BY <1>1
  <2>1. work[r].value \in {"administrator", "enabled"}
    BY <1>4 DEF RequestSafe, Asked, SelfProtected
  <2>2. NoChange(Target(r), work[r].value)
    BY <1>1, <2>1 DEF NoChange, Target, ActorCurrent, EnabledAdministrator, IsAdministrator
  <2> QED
    BY <1>4, <2>2 DEF RequestSafe, TargetHeld, TargetSettled
<1> QED
  BY <1>1, <1>2, <1>3, <1>4

\* The row a commit leaves: of its type, stamped with the transaction's start.
LEMMA ResultTypes ==
  ASSUME TypeOK, NEW r \in Requests, RequestSafe(r), pc[r] = "written"
  PROVE  /\ work[r].target \in Accounts /\ started[r] \in Nat
         /\ Creates(r) <=> ~Changes(r)
         /\ Target(r) = Absent <=> Creates(r)
         /\ Result(r) \in AccountRows /\ Result(r) # Absent /\ Result(r).updated = started[r]
         /\ Creates(r) => Result(r).status = "enabled"
         /\ work[r].kind = "bootstrap" => EnabledAdministrator(Result(r))
         /\ Changes(r) /\ ~EndsSessions(r) => Result(r).status = "enabled"
<1>1. /\ work[r].kind \in Kinds \ {"login"} /\ work[r].target \in Accounts /\ started[r] \in Nat
      /\ Target(r) \in AccountRows \cup {Absent}
      /\ work[r].kind \in {"create", "role", "bootstrap"} => work[r].value \in Roles
      /\ work[r].kind = "status" => work[r].value \in Statuses \ Roles
      /\ work[r].kind = "bootstrap" => work[r].value = "administrator"
  <2>1. "administrator" \in Roles /\ Statuses \cap Roles = {}
    BY DEF Roles, Statuses
  <2> QED
    BY <2>1, AskedTypes DEF RequestSafe, Asked, Target, TypeOK
<1>2. Creates(r) <=> ~Changes(r)
  BY <1>1 DEF Creates, Changes, Kinds
<1>3. Target(r) = Absent <=> Creates(r)
  BY <1>1, <1>2 DEF RequestSafe, NameHeld, TargetHeld, TargetSettled
<1>4. Absent \notin AccountRows
  BY ConstantsAssumption DEF ConstantsAssumption
<1>5. CASE Creates(r)
  <2>1. Result(r) = [role |-> work[r].value, status |-> "enabled", updated |-> started[r]]
    BY <1>5 DEF Result
  <2>2. work[r].value \in Roles
    BY <1>1, <1>5 DEF Creates
  <2>3. Result(r) \in AccountRows
    BY <1>1, <2>1, <2>2 DEF AccountRows, Statuses
  <2>4. work[r].kind = "bootstrap" => EnabledAdministrator(Result(r))
    BY <1>1, <1>4, <2>1, <2>3 DEF EnabledAdministrator, IsAdministrator
  <2> QED
    BY <1>1, <1>2, <1>3, <1>4, <2>1, <2>3, <2>4
<1>6. CASE Changes(r)
  <2>1. Result(r) = Updated(Target(r), work[r].value, started[r]) /\ Target(r) \in AccountRows
    BY <1>1, <1>2, <1>3, <1>6 DEF Result
  <2>2. CASE work[r].kind = "role"
    <3>1. Result(r) = [Target(r) EXCEPT !.role = work[r].value, !.updated = started[r]]
      BY <1>1, <2>1, <2>2 DEF Updated
    <3>2. Result(r) \in AccountRows /\ Result(r).updated = started[r]
      BY <1>1, <2>1, <2>2, <3>1 DEF AccountRows
    <3> QED
      BY <1>1, <1>2, <1>3, <1>4, <1>6, <2>2, <3>2 DEF EndsSessions
  <2>3. CASE work[r].kind = "status"
    <3>1. Result(r) = [Target(r) EXCEPT !.status = work[r].value, !.updated = started[r]]
      BY <1>1, <2>1, <2>3 DEF Updated
    <3>2. /\ Result(r) \in AccountRows /\ Result(r).updated = started[r]
          /\ Result(r).status = work[r].value
      BY <1>1, <2>1, <2>3, <3>1 DEF AccountRows
    <3>3. ~EndsSessions(r) => work[r].value = "enabled"
      BY <1>1, <2>3 DEF EndsSessions, Statuses
    <3> QED
      BY <1>1, <1>2, <1>3, <1>4, <1>6, <2>3, <3>2, <3>3
  <2> QED
    BY <1>6, <2>2, <2>3 DEF Changes
<1> QED
  BY <1>2, <1>5, <1>6

LEMMA PublishEffect ==
  ASSUME IInv, NEW r \in Requests, pc[r] = "written", Publish(r)
  PROVE  /\ account' \in [Accounts -> AccountRows \cup {Absent}]
         /\ \A a \in Accounts :
              account'[a] = IF a = work[r].target THEN Result(r) ELSE account[a]
         /\ Len(audit) \in Nat /\ Len(audit') = Len(audit) + 1
         /\ \A i \in 1..Len(audit) : audit'[i] = audit[i]
         /\ audit'[Len(audit) + 1] =
              [outcome |-> "succeeded", kind |-> work[r].kind, actor |-> work[r].actor,
               target |-> work[r].target, prior |-> Target(r), result |-> Result(r),
               at |-> started[r]]
         /\ Succeeded \subseteq 1..Len(audit) /\ Succeeded' = Succeeded \cup {Len(audit) + 1}
         /\ \A a \in Accounts :
              About(a)' = IF a = work[r].target THEN About(a) \cup {Len(audit) + 1} ELSE About(a)
         /\ TypeOK'
<1> DEFINE event == [outcome |-> "succeeded", kind |-> work[r].kind, actor |-> work[r].actor,
                     target |-> work[r].target, prior |-> Target(r), result |-> Result(r),
                     at |-> started[r]]
<1>0. TypeOK /\ RequestSafe(r)
  BY DEF IInv
<1>1. /\ work[r].target \in Accounts /\ started[r] \in Nat /\ Result(r) \in AccountRows
      /\ work[r].kind \in Kinds /\ work[r].actor \in Accounts \cup {Nobody}
      /\ Target(r) \in AccountRows \cup {Absent}
  BY <1>0, ResultTypes, AskedTypes DEF RequestSafe, Target
<1>2. event \in Events
  BY <1>1 DEF Events
<1>3. /\ account' = [account EXCEPT ![work[r].target] = Result(r)]
      /\ audit' = Append(audit, event) /\ sessions' \subseteq sessions
      /\ ReleaseLocks(r) /\ Leave(r) /\ clock' = clock
  BY DEF Publish
<1>4. /\ account' \in [Accounts -> AccountRows \cup {Absent}]
      /\ \A a \in Accounts :
           account'[a] = IF a = work[r].target THEN Result(r) ELSE account[a]
  BY <1>0, <1>1, <1>3 DEF TypeOK
<1>5. /\ audit' \in Seq(Events) /\ Len(audit) \in Nat /\ Len(audit') = Len(audit) + 1
      /\ \A i \in 1..Len(audit) : audit'[i] = audit[i]
      /\ audit'[Len(audit) + 1] = event
  <2> HIDE DEF event
  <2> QED
    BY <1>0, <1>2, <1>3 DEF TypeOK
<1>6. event.outcome = "succeeded" /\ event.target = work[r].target
  OBVIOUS
<1>7. Succeeded \subseteq 1..Len(audit) /\ Succeeded' = Succeeded \cup {Len(audit) + 1}
  <2> HIDE DEF event
  <2>1. \A i \in Nat : i \in Succeeded' <=> i \in Succeeded \/ i = Len(audit) + 1
    BY <1>5, <1>6 DEF Succeeded
  <2>2. Succeeded \subseteq 1..Len(audit) /\ Succeeded' \subseteq 1..Len(audit')
    BY DEF Succeeded
  <2>3. 1..Len(audit) \subseteq Nat /\ 1..Len(audit') \subseteq Nat /\ Len(audit) + 1 \in Nat
    BY <1>5
  <2> QED
    BY <2>1, <2>2, <2>3, Zenon
<1>8. \A a \in Accounts :
        About(a)' = IF a = work[r].target THEN About(a) \cup {Len(audit) + 1} ELSE About(a)
  <2> HIDE DEF event
  <2>1. \A i \in Succeeded : audit'[i].target = audit[i].target
    BY <1>5, <1>7
  <2>2. audit'[Len(audit) + 1].target = work[r].target
    BY <1>5, <1>6
  <2>3. \A a : About(a) = {i \in Succeeded : audit[i].target = a}
    BY DEF About
  <2>4. \A a : About(a)' = {i \in Succeeded' : audit'[i].target = a}
    BY DEF About
  <2> QED
    BY <1>7, <2>1, <2>2, <2>3, <2>4
<1>9. TypeOK'
  BY <1>0, <1>3, <1>4, <1>5, LeaveEffect, ReleaseEffect DEF TypeOK
<1> QED
  BY <1>4, <1>5, <1>7, <1>8, <1>9

\* A commit leaves alone what the other requests hold.
LEMMA PublishLeavesOthers ==
  ASSUME IInv, NEW r \in Requests, pc[r] = "written", Publish(r), NEW s \in Requests \ {r}
  PROVE  RequestSafe(s)'
<1> DEFINE target == work[r].target
<1>0. TypeOK /\ RequestSafe(r) /\ RequestSafe(s) /\ RowsExclude /\ ReleaseLocks(r) /\ Leave(r)
  BY DEF IInv, Publish
<1>1. /\ target \in Accounts /\ (Target(r) = Absent <=> Creates(r)) /\ (Creates(r) <=> ~Changes(r))
      /\ \A a \in Accounts : a # target => account'[a] = account[a]
  BY <1>0, ResultTypes, PublishEffect
<1>2. /\ pc'[r] = "idle"
      /\ \A t \in Requests \ {r} :
           /\ pc'[t] = pc[t] /\ work'[t] = work[t] /\ started'[t] = started[t]
           /\ uncounted'[t] = uncounted[t] /\ counted'[t] = counted[t] /\ ending'[t] = ending[t]
      /\ \A a \in Accounts : /\ s \in shared'[a] <=> s \in shared[a]
                             /\ s \in exclusive'[a] <=> s \in exclusive[a]
      /\ (s \in bootstrapLock' <=> s \in bootstrapLock) /\ bootstrapLock' \subseteq bootstrapLock
  BY <1>0, LeaveEffect, ReleaseEffect
<1>3. Asked(s)'
  BY <1>0, <1>2 DEF RequestSafe, Asked, Changes, SelfProtected
<1>4. Changes(r) => r \in exclusive[target]
  BY <1>0 DEF RequestSafe, TargetHeld
<1>5. ActorHeld(s)'
  <2> SUFFICES ASSUME Checked(s) PROVE ActorHeld(s)'
    BY <1>2 DEF ActorHeld, Checked
  <2>1. work[s].kind # "bootstrap"
    <3> SUFFICES ASSUME work[s].kind = "bootstrap" PROVE FALSE
      OBVIOUS
    <3>1. NoAdministrator /\ bootstrapLock \subseteq {s}
      BY <1>0 DEF RequestSafe, ActorHeld
    <3>2. CASE work[r].kind = "bootstrap"
      BY <1>0, <3>1, <3>2 DEF RequestSafe, ActorHeld, Checked
    <3>3. CASE work[r].kind # "bootstrap"
      BY <1>0, <3>1, <3>3, WritersActor DEF ActorCurrent, EnabledAdministrator, NoAdministrator
    <3> QED
      BY <3>2, <3>3
  <2>2. /\ work[s].actor \in Accounts /\ s \in shared[work[s].actor] /\ ActorCurrent(s)
    BY <1>0, <2>1 DEF RequestSafe, Asked, ActorHeld, Checked
  <2>3. work[s].actor # target
    BY <1>0, <1>1, <1>4, <2>2
       DEF RowsExclude, ActorCurrent, EnabledAdministrator, IsAdministrator, Target
  <2> QED
    BY <1>1, <1>2, <2>1, <2>2, <2>3 DEF ActorHeld, Checked, ActorCurrent
<1>6. pc[s] \in {"counting", "written"} /\ Changes(s) =>
        /\ work[s].target \in Accounts \ {target} /\ s \in exclusive[work[s].target]
        /\ Target(s)' = Target(s)
  <2> SUFFICES ASSUME pc[s] \in {"counting", "written"}, Changes(s)
               PROVE  /\ work[s].target \in Accounts \ {target} /\ s \in exclusive[work[s].target]
                      /\ Target(s)' = Target(s)
    OBVIOUS
  <2>1. work[s].target \in Accounts /\ s \in exclusive[work[s].target] /\ Target(s) # Absent
    BY <1>0, AskedTypes DEF RequestSafe, TargetHeld, TargetSettled
  <2>2. work[s].target # target
    BY <1>0, <1>1, <1>4, <2>1 DEF RowsExclude, Target
  <2> QED
    BY <1>1, <1>2, <2>1, <2>2 DEF Target
<1>7. TargetHeld(s)'
  BY <1>0, <1>2, <1>6 DEF RequestSafe, TargetHeld, TargetSettled, NoChange, Changes
<1>8. NameHeld(s)'
  <2> SUFFICES ASSUME pc[s] = "written", Creates(s)
               PROVE  Target(s)' = Absent /\ Inserting(s)' \subseteq {s}
    BY <1>2 DEF NameHeld, Creates
  <2>1. work[s].target \in Accounts /\ Target(s) = Absent /\ Inserting(s) \subseteq {s}
    BY <1>0, AskedTypes DEF RequestSafe, NameHeld
  <2>2. work[s].target # target
    <3>1. CASE Creates(r)
      <4>1. Inserting(r) \subseteq {r}
        BY <1>0, <3>1 DEF RequestSafe, NameHeld
      <4> QED
        BY <4>1 DEF Inserting
    <3>2. CASE ~Creates(r)
      BY <1>1, <2>1, <3>2 DEF Target
    <3> QED
      BY <3>1, <3>2
  <2>3. Inserting(s)' \subseteq Inserting(s)
    BY <1>2 DEF Inserting, Creates
  <2> QED
    BY <1>1, <1>2, <2>1, <2>2, <2>3 DEF Target
<1>9. CountsBoth(s)'
  BY <1>0, <1>2, <1>6 DEF RequestSafe, CountsBoth, Removes, Changes, YetToFind
<1>10. Prepared(s)'
  <2>1. sessions' \subseteq sessions
    BY DEF Publish
  <2> QED
    BY <1>0, <1>2, <1>6, <2>1
       DEF RequestSafe, Prepared, Changes, EndsSessions, SessionsOf, NewTimestamp
<1> QED
  BY <1>3, <1>5, <1>7, <1>8, <1>9, <1>10 DEF RequestSafe

\* The new event follows the last one of its account, and is the last one now.
LEMMA PublishKeepsHistory ==
  ASSUME IInv, NEW r \in Requests, pc[r] = "written", Publish(r),
         NEW target, target = work[r].target, NEW last, last = Len(audit) + 1
  PROVE  HistoryKept'
<1>0. TypeOK /\ RequestSafe(r) /\ HistoryKept
  BY DEF IInv
<1>1. /\ Len(audit) \in Nat /\ Succeeded \subseteq 1..Len(audit)
      /\ \A i \in Succeeded : i \in Nat /\ i < last /\ audit'[i] = audit[i] /\ audit[i] \in Events
  <2>1. Len(audit) \in Nat /\ Succeeded \subseteq 1..Len(audit)
    BY PublishEffect
  <2>2. \A i \in 1..Len(audit) : audit'[i] = audit[i]
    BY PublishEffect
  <2>3. audit \in Seq(Events)
    BY <1>0 DEF TypeOK
  <2>4. \A i \in 1..Len(audit) : audit[i] \in Events
    BY <2>3
  <2> QED
    BY <2>1, <2>2, <2>4
<1>2. /\ audit'[last].prior = account[target] /\ audit'[last].result = Result(r)
      /\ audit'[last].at = started[r] /\ audit'[last].target = target
  <2>1. audit'[last] = [outcome |-> "succeeded", kind |-> work[r].kind, actor |-> work[r].actor,
                        target |-> work[r].target, prior |-> Target(r), result |-> Result(r),
                        at |-> started[r]]
    BY PublishEffect, Zenon
  <2> QED
    BY <2>1 DEF Target
<1>3. /\ target \in Accounts /\ started[r] \in Nat /\ Result(r) # Absent
      /\ Result(r).updated = started[r]
  BY <1>0, ResultTypes
<1>4. \A a \in Accounts : \A i \in About(a) :
        i \in Succeeded /\ audit[i].target = a /\ FollowedUp(a, i)
  BY <1>0 DEF About, HistoryKept
<1>5. /\ About(target)' = About(target) \cup {last} /\ account'[target] = Result(r)
      /\ \A a \in Accounts \ {target} : About(a)' = About(a) /\ account'[a] = account[a]
  BY <1>3, PublishEffect
<1>6. ASSUME NEW a \in Accounts \ {target}, NEW i \in About(a)
      PROVE  FollowedUp(a, i)'
  <2>1. /\ FollowedUp(a, i) /\ audit[i].target = a /\ audit'[i] = audit[i]
        /\ About(a)' = About(a) /\ account'[a] = account[a]
    BY <1>1, <1>4, <1>5, <1>6
  <2>2. \A j \in About(a) : audit'[j] = audit[j]
    BY <1>1, <1>4
  <2>3. \A j : Consecutive(i, j)' <=> Consecutive(i, j)
    BY <2>1 DEF Consecutive
  <2> QED
    BY <2>1, <2>2, <2>3 DEF FollowedUp
<1>7. \A i \in About(target) : started[r] > audit[i].at /\ audit[i].at \in Nat
  <2> TAKE i \in About(target)
  <2>1. i \in Succeeded /\ FollowedUp(target, i) /\ account[target] \in AccountRows \cup {Absent}
    BY <1>0, <1>3, <1>4 DEF TypeOK
  <2>2. account[target] \in AccountRows /\ audit[i].at <= account[target].updated
    BY <2>1 DEF FollowedUp
  <2>3. Changes(r)
    BY <1>0, <2>1, ResultTypes DEF FollowedUp, Target
  <2>4. started[r] > account[target].updated
    BY <1>0, <2>3 DEF RequestSafe, Prepared, NewTimestamp, Target
  <2>5. audit[i].at \in Nat /\ account[target].updated \in Nat
    BY <1>1, <2>1, <2>2 DEF Events, AccountRows
  <2> QED
    BY <1>3, <2>2, <2>4, <2>5
<1>8. ASSUME NEW i \in About(target)
      PROVE  FollowedUp(target, i)'
  <2>1. /\ i \in Succeeded /\ FollowedUp(target, i) /\ audit[i].target = target
        /\ audit'[i] = audit[i] /\ i \in Nat /\ i < last
    BY <1>1, <1>3, <1>4, <1>8
  <2>2. account'[target] # Absent /\ audit'[i].at <= account'[target].updated
    BY <1>3, <1>5, <1>7, <2>1
  <2>3. last \in About(target)' /\ ~(last <= i)
    BY <1>1, <1>5, <2>1
  <2>4. ASSUME NEW j \in About(target)'
        PROVE  /\ i < j => audit'[i].at < audit'[j].at
               /\ Consecutive(i, j)' => audit'[j].prior = audit'[i].result
    <3>1. CASE j \in About(target)
      <4>1. audit'[j] = audit[j]
        BY <1>1, <1>3, <1>4, <3>1
      <4>2. Consecutive(i, j)' => Consecutive(i, j)
        BY <1>5, <2>1 DEF Consecutive
      <4> QED
        BY <2>1, <3>1, <4>1, <4>2 DEF FollowedUp
    <3>2. CASE j = last
      <4>1. audit'[i].at < audit'[j].at
        BY <1>2, <1>3, <1>7, <2>1, <3>2
      <4>2. ASSUME Consecutive(i, j)' PROVE \A k \in About(target) : k <= i
        <5> TAKE k \in About(target)
        <5>1. k \in About(target)' /\ k \in Nat /\ k < last
          BY <1>1, <1>3, <1>4, <1>5
        <5>2. ~(i < k)
          BY <2>1, <3>2, <4>2, <5>1 DEF Consecutive
        <5> QED
          BY <2>1, <5>1, <5>2
      <4>3. Consecutive(i, j)' => audit'[j].prior = audit'[i].result
        BY <1>2, <2>1, <3>2, <4>2 DEF FollowedUp
      <4> QED
        BY <4>1, <4>3
    <3> QED
      BY <1>5, <3>1, <3>2
  <2> QED
    BY <2>2, <2>3, <2>4 DEF FollowedUp
<1>9. FollowedUp(target, last)'
  <2>1. account'[target] # Absent /\ audit'[last].at <= account'[target].updated
    BY <1>2, <1>3, <1>5
  <2>2. account'[target] = audit'[last].result
    BY <1>2, <1>5
  <2>3. \A j \in About(target)' : ~(last < j)
    <3> TAKE j \in About(target)'
    <3>1. j = last \/ (j \in Nat /\ j < last)
      BY <1>1, <1>3, <1>4, <1>5
    <3> QED
      BY <1>1, <3>1
  <2>4. \A j : Consecutive(last, j)' => last < j
    BY DEF Consecutive
  <2> QED
    BY <2>1, <2>2, <2>3, <2>4 DEF FollowedUp
<1> QED
  BY <1>3, <1>5, <1>6, <1>8, <1>9 DEF HistoryKept

LEMMA PublishKeeps ==
  ASSUME IInv, NEW r \in Requests, pc[r] = "written", Publish(r),
         NEW target, target = work[r].target, NEW last, last = Len(audit) + 1
  PROVE  IInv'
<1>0. /\ TypeOK /\ RequestSafe(r) /\ RowsExclude /\ ReleaseLocks(r) /\ Leave(r)
      /\ AdministratorRemains /\ SessionsFollowRevocation /\ HistoryKept /\ BootstrapOnce
      /\ sessions' = sessions \ ending[r]
  BY DEF IInv, Publish
<1>1. /\ target \in Accounts /\ (Creates(r) <=> ~Changes(r))
      /\ Creates(r) \/ ~EndsSessions(r) => Result(r).status = "enabled"
      /\ work[r].kind = "bootstrap" => EnabledAdministrator(Result(r))
  BY <1>0, ResultTypes
<1>2. /\ TypeOK'
      /\ \A a \in Accounts : account'[a] = IF a = target THEN Result(r) ELSE account[a]
      /\ Len(audit) \in Nat /\ Succeeded \subseteq 1..Len(audit)
      /\ Succeeded' = Succeeded \cup {last}
      /\ \A i \in 1..Len(audit) : audit'[i] = audit[i]
  BY PublishEffect
<1>3. /\ audit'[last].kind = work[r].kind /\ audit'[last].target = target
      /\ audit'[last].result = Result(r)
  <2>1. audit'[last] = [outcome |-> "succeeded", kind |-> work[r].kind, actor |-> work[r].actor,
                        target |-> work[r].target, prior |-> Target(r), result |-> Result(r),
                        at |-> started[r]]
    BY PublishEffect, Zenon
  <2> QED
    BY <2>1
<1>4. \A i \in Succeeded : i \in Nat /\ i < last /\ audit'[i] = audit[i]
  BY <1>2
<1>5. RowsExclude' /\ \A s \in Requests : RequestSafe(s)'
  BY <1>0, LeaveEffect, ReleaseEffect, PublishLeavesOthers
<1>6. AdministratorRemains'
  <2>1. CASE work[r].kind = "bootstrap"
    BY <1>1, <1>2, <2>1 DEF AdministratorRemains
  <2>2. CASE work[r].kind # "bootstrap"
    BY <1>0, <1>2, <2>2, WritersActor DEF AdministratorRemains, ActorCurrent
  <2> QED
    BY <2>1, <2>2
<1>7. SessionsFollowRevocation'
  <2> SUFFICES ASSUME NEW s \in sessions', NEW i \in Succeeded',
                      audit'[i].target = s.user, i > s.since
               PROVE  audit'[i].kind # "role" /\ audit'[i].result.status = "enabled"
    BY DEF SessionsFollowRevocation
  <2>1. CASE i \in Succeeded
    BY <1>0, <1>4, <2>1 DEF SessionsFollowRevocation
  <2>2. CASE i = last
    <3>1. s \in SessionsOf(target) /\ s \notin ending[r]
      BY <1>0, <1>3, <2>2 DEF SessionsOf
    <3>2. Creates(r) \/ ~EndsSessions(r)
      BY <1>0, <1>1, <3>1 DEF RequestSafe, Prepared
    <3>3. work[r].kind # "role"
      BY <3>2 DEF Creates, EndsSessions
    <3> QED
      BY <1>1, <1>3, <2>2, <3>2, <3>3
  <2> QED
    BY <1>2, <2>1, <2>2
<1>8. BootstrapOnce'
  <2>1. CASE work[r].kind = "bootstrap"
    <3>1. \A a \in Accounts : account[a] = Absent
      BY <1>0, <2>1 DEF RequestSafe, ActorHeld, Checked, NoAdministrator, AdministratorRemains,
                        EnabledAdministrator
    <3>2. \A i \in Succeeded : audit[i].target \in Accounts
      <4>1. audit \in Seq(Events)
        BY <1>0 DEF TypeOK
      <4>2. \A i \in 1..Len(audit) : audit[i] \in Events
        BY <4>1
      <4> QED
        BY <1>2, <4>2 DEF Events
    <3>3. Succeeded = {}
      BY <1>0, <3>1, <3>2 DEF HistoryKept, FollowedUp, About
    <3> QED
      BY <1>2, <3>3 DEF BootstrapOnce
  <2>2. CASE work[r].kind # "bootstrap"
    BY <1>0, <1>2, <1>3, <1>4, <2>2 DEF BootstrapOnce
  <2> QED
    BY <2>1, <2>2
<1> QED
  BY <1>2, <1>5, <1>6, <1>7, <1>8, PublishKeepsHistory DEF IInv

LEMMA CommitKeeps ==
  ASSUME IInv, NEW r \in Requests, Commit(r)
  PROVE  IInv'
<1>1. pc[r] = "written" /\ Publish(r)
  BY WrittenMayCommit DEF Commit
<1> QED
  BY <1>1, PublishKeeps

-----------------------------------------------------------------------------
(* Every behaviour.                                                        *)

LEMMA StutterKeeps ==
  ASSUME IInv, UNCHANGED vars
  PROVE  IInv'
<1>1. TypeOK' /\ RowsExclude'
  BY DEF IInv, TypeOK, RowsExclude, vars, data, locks, local
<1>2. \A r \in Requests : RequestSafe(r)'
  BY DEF IInv, RequestSafe, Asked, Changes, Creates, ActorHeld, Checked, ActorCurrent,
         NoAdministrator, TargetHeld, TargetSettled, Target, NoChange, NameHeld, Inserting,
         CountsBoth, Removes, YetToFind, Prepared, EndsSessions, SessionsOf, NewTimestamp,
         vars, data, locks, local
<1>3. AdministratorRemains' /\ SessionsFollowRevocation' /\ BootstrapOnce'
  BY DEF IInv, AdministratorRemains, SessionsFollowRevocation, BootstrapOnce, Succeeded, vars, data
<1>4. HistoryKept'
  BY DEF IInv, HistoryKept, FollowedUp, About, Succeeded, Consecutive, vars, data
<1> QED
  BY <1>1, <1>2, <1>3, <1>4 DEF IInv

LEMMA StepKeeps == IInv /\ [Next]_vars => IInv'
<1> SUFFICES ASSUME IInv, [Next]_vars PROVE IInv'
  OBVIOUS
<1>1. ASSUME NEW r \in Requests, Advance(r) PROVE IInv'
  <2>1. CASE OpenSession(r)
    BY <2>1, OpenSessionKeeps
  <2>2. CASE Begin(r) \/ CheckActor(r) \/ CheckBootstrap(r) \/ InsertUser(r)
    BY <2>2, BeginKeeps, CheckActorKeeps, CheckBootstrapKeeps, InsertUserKeeps
  <2>3. CASE LockTarget(r) \/ CountAdministrator(r) \/ UpdateUser(r)
    BY <2>3, LockTargetKeeps, CountAdministratorKeeps, UpdateUserKeeps
  <2>4. CASE Commit(r)
    BY <2>4, CommitKeeps
  <2>5. CASE \/ RefuseActor(r) \/ RefuseBootstrap(r) \/ RefuseUsername(r) \/ LeaveTarget(r)
             \/ RefuseUpdate(r) \/ AbortDeadlocked(r)
    BY <2>5, RollbackKeeps
       DEF RefuseActor, RefuseBootstrap, RefuseUsername, LeaveTarget, RefuseUpdate, AbortDeadlocked
  <2> QED
    BY <1>1, <2>1, <2>2, <2>3, <2>4, <2>5 DEF Advance
<1>2. ASSUME NEW r \in Requests, NEW user \in Accounts,
             SignIn(r, user) \/ Submit(r, user) \/ SubmitBootstrap(r, user)
      PROVE  IInv'
  BY <1>2, SubmitKeeps, BootstrapAskedKeeps
<1>3. ASSUME NEW s \in sessions, CloseSession(s) PROVE IInv'
  BY <1>3, CloseSessionKeeps
<1>4. CASE UNCHANGED vars
  BY <1>4, StutterKeeps
<1> QED
  BY <1>1, <1>2, <1>3, <1>4 DEF Next

\* The inductive invariant holds in every state.
THEOREM Invariance == Spec => []IInv
<1> QED
  BY InitIInv, StepKeeps, PTL DEF Spec

\* The variables have their types.
THEOREM TypeCorrect == Spec => []TypeOK
<1>1. IInv => TypeOK
  BY DEF IInv
<1> QED
  BY <1>1, Invariance, PTL

\* However administrators demote, disable and create each other, an enabled one
\* remains (assertCanRemoveEnabledAdministrator).
THEOREM AnAdministratorRemains == Spec => []AdministratorRemains
<1>1. IInv => AdministratorRemains
  BY DEF IInv
<1> QED
  BY <1>1, Invariance, PTL

\* Sessions do not outlive a change of role or a disabling of their account.
THEOREM SessionsAreRevoked == Spec => []SessionsFollowRevocation
<1>1. IInv => SessionsFollowRevocation
  BY DEF IInv
<1> QED
  BY <1>1, Invariance, PTL

\* The command line creates at most one administrator, and the first account.
THEOREM FirstAdministratorOnce == Spec => []BootstrapOnce
<1>1. IInv => BootstrapOnce
  BY DEF IInv
<1> QED
  BY <1>1, Invariance, PTL

\* The triggers and the store's count find what the store has ensured.
THEOREM GuardsAlwaysAgree == Spec => []GuardsAgree
<1>1. IInv => GuardsAgree
  <2> SUFFICES ASSUME IInv, NEW r \in Requests
               PROVE  /\ pc[r] = "counting" /\ uncounted[r] = {}
                           => AdministratorsAllow(r) /\ ~LastAdministrator(r)
                      /\ pc[r] = "written" => CommitAllowed(r)
    BY DEF GuardsAgree
  <2>1. ASSUME pc[r] = "counting", uncounted[r] = {}
        PROVE  AdministratorsAllow(r) /\ ~LastAdministrator(r)
    <3>1. TypeOK /\ RequestSafe(r) /\ Changes(r) /\ work[r].kind # "bootstrap"
      BY <2>1 DEF IInv, RequestSafe, Asked, Changes
    <3>2. /\ work[r].actor \in Accounts \ {work[r].target}
          /\ EnabledAdministrator(account[work[r].actor])
      BY <2>1, <3>1, WritersActor DEF ActorCurrent
    <3>3. AdministratorsAllow(r)
      BY <3>2 DEF AdministratorsAllow, ActorCurrent
    <3>4. counted[r] \in Nat /\ (Removes(r) => counted[r] >= 2)
      BY <2>1, <3>1 DEF RequestSafe, CountsBoth, YetToFind, TypeOK
    <3> QED
      BY <3>3, <3>4 DEF LastAdministrator
  <2> QED
    BY <2>1, WrittenMayCommit
<1> QED
  BY <1>1, Invariance, PTL

\* A nonempty set of numbers has a least one.
LEMMA Earliest ==
  ASSUME NEW S \in SUBSET Nat, S # {}
  PROVE  \E i \in S : \A j \in S : i <= j
<1> DEFINE R == {pair \in Nat \X Nat : pair[1] < pair[2]}
<1>1. IsWellFoundedOn(R, Nat)
  <2>1. R = OpToRel(<, Nat)
    BY Zenon DEF OpToRel
  <2> QED
    BY <2>1, NatLessThanWellFounded, Zenon
<1>2. PICK i \in S : \A j \in S : <<j, i>> \notin R
  <2> HIDE DEF R
  <2> QED
    BY <1>1, WFMin, Zenon
<1>3. ASSUME NEW j \in S PROVE i <= j
  <2>1. i \in Nat /\ j \in Nat /\ <<j, i>> \notin R
    BY <1>2, <1>3
  <2>2. ~(j < i)
    BY <2>1
  <2> QED
    BY <2>1, <2>2
<1> QED
  BY <1>2, <1>3

\* The audit events of an account are its history, in the order of their commits
\* and of their timestamps.
THEOREM AuditIsHistory == Spec => []AuditTellsHistory
<1>1. IInv => AuditTellsHistory
  <2> SUFFICES ASSUME IInv, NEW a \in Accounts, NEW i \in About(a)
               PROVE  /\ \A j \in About(a) : i < j => audit[i].at < audit[j].at
                      /\ LET later == {j \in About(a) : i < j} IN
                           IF later = {} THEN account[a] = audit[i].result
                           ELSE audit[CHOOSE j \in later : \A k \in later : j <= k].prior
                                  = audit[i].result
    BY DEF AuditTellsHistory
  <2> DEFINE later == {j \in About(a) : i < j}
             next == CHOOSE j \in later : \A k \in later : j <= k
  <2>1. FollowedUp(a, i) /\ audit[i].target = a
    BY DEF IInv, HistoryKept, About
  <2>2. About(a) \subseteq Nat
    BY DEF About, Succeeded
  <2>3. CASE later = {}
    <3>1. \A j \in About(a) : j <= i
      BY <2>2, <2>3
    <3> QED
      BY <2>1, <2>3, <3>1 DEF FollowedUp
  <2>4. CASE later # {}
    <3>1. later \in SUBSET Nat
      BY <2>2
    <3>2. next \in later /\ \A k \in later : next <= k
      <4>1. \E j \in later : \A k \in later : j <= k
        BY <2>4, <3>1, Earliest
      <4> HIDE DEF later
      <4> QED
        BY <4>1
    <3>3. ASSUME NEW k \in About(a), i < k PROVE ~(k < next)
      BY <2>2, <3>2, <3>3
    <3>4. Consecutive(i, next) /\ next \in About(a)
      <4> HIDE DEF next
      <4> QED
        BY <2>1, <3>2, <3>3 DEF Consecutive
    <3>5. audit[next].prior = audit[i].result
      <4> HIDE DEF next
      <4> QED
        BY <2>1, <3>4 DEF FollowedUp
    <3> QED
      BY <2>1, <2>4, <3>5 DEF FollowedUp
  <2> QED
    BY <2>3, <2>4
<1> QED
  BY <1>1, Invariance, PTL

\* Only the commit of a request writes an account.
LEMMA OnlyCommitWrites ==
  ASSUME [Next]_vars, account' # account
  PROVE  \E r \in Requests : Commit(r)
<1>1. ASSUME NEW r \in Requests, NEW user \in Accounts,
             SignIn(r, user) \/ Submit(r, user) \/ SubmitBootstrap(r, user)
      PROVE  account' = account
  BY <1>1 DEF SignIn, Submit, SubmitAccepted, SubmitRejected, SubmitBootstrap, data
<1>2. ASSUME NEW r \in Requests, Advance(r) PROVE account' = account \/ Commit(r)
  BY <1>2 DEF Advance, OpenSession, Begin, CheckActor, RefuseActor, CheckBootstrap,
              RefuseBootstrap, InsertUser, RefuseUsername, LockTarget, LeaveTarget,
              CountAdministrator, UpdateUser, RefuseUpdate, AbortDeadlocked, Rollback, data
<1>3. ASSUME NEW s \in sessions, CloseSession(s) PROVE account' = account
  BY <1>3 DEF CloseSession
<1> QED
  BY <1>1, <1>2, <1>3 DEF Next, vars, data

\* Accounts change only by audited requests of current administrators about
\* somebody else.
THEOREM ChangesAlwaysAuthorized == Spec => ChangesAreAuthorized
<1>1. ASSUME IInv, [Next]_vars, NEW a \in Accounts, account'[a] # account[a],
             NEW event, event = audit'[Len(audit')]
      PROVE  /\ Len(audit') = Len(audit) + 1
             /\ event.target = a /\ event.prior = account[a] /\ event.result = account'[a]
             /\ \/ /\ event.actor # a /\ event.actor # Nobody
                   /\ EnabledAdministrator(account[event.actor])
                \/ event.kind = "bootstrap" /\ \A b \in Accounts : ~IsAdministrator(account[b])
  <2>1. PICK r \in Requests : Commit(r)
    BY <1>1, OnlyCommitWrites
  <2>2. pc[r] = "written" /\ Publish(r) /\ CommitAllowed(r) /\ TypeOK /\ RequestSafe(r)
    BY <1>1, <2>1, WrittenMayCommit DEF Commit, IInv
  <2>3. /\ Len(audit') = Len(audit) + 1
        /\ event = [outcome |-> "succeeded", kind |-> work[r].kind, actor |-> work[r].actor,
                    target |-> work[r].target, prior |-> Target(r), result |-> Result(r),
                    at |-> started[r]]
        /\ a = work[r].target /\ account'[a] = Result(r)
    BY <1>1, <2>2, PublishEffect
  <2>4. /\ event.target = a /\ event.prior = account[a] /\ event.result = account'[a]
        /\ event.actor = work[r].actor /\ event.kind = work[r].kind
    BY <2>3 DEF Target
  <2>5. CASE work[r].kind = "bootstrap"
    BY <2>2, <2>3, <2>4, <2>5 DEF CommitAllowed
  <2>6. CASE work[r].kind # "bootstrap"
    <3>1. /\ work[r].actor \in Accounts /\ ActorCurrent(r) /\ work[r].actor # a
          /\ Nobody \notin Accounts
      BY <2>2, <2>3, <2>6, WritersActor, ConstantsAssumption DEF ConstantsAssumption
    <3> QED
      BY <2>3, <2>4, <3>1 DEF ActorCurrent
  <2> QED
    BY <2>5, <2>6
<1>2. IInv /\ [Next]_vars => [\A a \in Accounts : account[a]' # account[a] =>
       LET event == audit'[Len(audit')] IN
         /\ Len(audit') = Len(audit) + 1
         /\ event.target = a /\ event.prior = account[a] /\ event.result = account[a]'
         /\ \/ /\ event.actor # a /\ event.actor # Nobody
               /\ EnabledAdministrator(account[event.actor])
            \/ event.kind = "bootstrap" /\ \A b \in Accounts : ~IsAdministrator(account[b])]_vars
  BY <1>1
<1> QED
  BY <1>2, Invariance, PTL DEF Spec, ChangesAreAuthorized
=============================================================================
