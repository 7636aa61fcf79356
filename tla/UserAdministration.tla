------------------------- MODULE UserAdministration -------------------------
(***************************************************************************)
(* Accounts, sessions and the administration of users, as served by        *)
(* apps/backend/src/auth-service.ts and pg-store.ts, with the triggers on  *)
(* users and sessions that the stage 8 migrations install.                 *)
(*                                                                         *)
(* A request is a process.  An administration request resolves its session *)
(* once, hashes or validates, then runs one READ COMMITTED transaction:    *)
(* its actor's row FOR SHARE, the target's row FOR UPDATE, and, when an    *)
(* enabled administrator would be lost, every enabled administrator's row  *)
(* FOR UPDATE in the order of their ids.  These row locks wait for each    *)
(* other; PostgreSQL aborts one transaction of a cycle.  Writes become     *)
(* visible at the commit.  now() is the start of the transaction, so every *)
(* transaction is stamped when it begins, not when it writes.              *)
(***************************************************************************)
EXTENDS Integers, Sequences, Authorization

CONSTANTS
  Requests,         \* requests that may be in flight together
  Accounts,         \* user names; their order is that of the user ids
  Absent,           \* no account under that name
  Nobody,           \* no actor: the command line creating the first administrator
  InitialAccounts,  \* the account tables a behaviour may start with
  AssignableRoles,  \* roles given to accounts
  MaxTransactions   \* bound: logins, transactions begun and rejections recorded

Statuses == {"enabled", "disabled"}
\* updated is users.updated_at.
AccountRows == [role : Roles, status : Statuses, updated : Nat]
IsAdministrator(row) == row # Absent /\ row.role = "administrator"
EnabledAdministrator(row) == IsAdministrator(row) /\ row.status = "enabled"

ASSUME ConstantsAssumption ==
  /\ Accounts \subseteq Nat
  /\ Nobody \notin Accounts
  /\ Absent \notin AccountRows
  /\ AssignableRoles \subseteq Roles
  /\ MaxTransactions \in Nat
  /\ \A table \in InitialAccounts :
       /\ table \in [Accounts -> AccountRows \cup {Absent}]
       /\ \A a \in Accounts : table[a] # Absent => table[a].updated = 0
       /\ (\E a \in Accounts : table[a] # Absent)
            => \E a \in Accounts : EnabledAdministrator(table[a])

VARIABLES
  account,      \* users, as committed
  sessions,     \* sessions neither revoked nor expired
  audit,        \* user_administration_audit_events, in the order of their commits
  shared,       \* requests that hold the row FOR SHARE
  exclusive,    \* requests that hold the row FOR UPDATE (or have updated it)
  bootstrapLock, changeLock,  \* holders of the two advisory locks
  clock,        \* how often that has happened so far
  pc,           \* where each request is
  work,         \* what it was asked, by whom
  started,      \* now() of its transaction
  uncounted,    \* administrators' rows its counting statement has yet to lock
  counted,      \* rows that statement has returned
  ending        \* sessions its UPDATE has revoked

data == <<account, sessions, audit>>
locks == <<shared, exclusive, bootstrapLock, changeLock>>
local == <<work, started, uncounted, counted, ending>>
vars == <<data, locks, clock, pc, local>>
-----------------------------------------------------------------------------
Kinds == {"login", "bootstrap", "create", "role", "status"}
Work == [kind : Kinds, actor : Accounts \cup {Nobody}, target : Accounts,
         value : Roles \cup Statuses]
Places == {"idle", "verifying", "resolved", "begun", "checked", "counting", "written"}

\* since (auxiliary): how many audit events were committed when it was opened.
Sessions == [user : Accounts, since : Nat]
Events == [outcome : {"succeeded", "rejected"}, kind : Kinds, actor : Accounts \cup {Nobody},
           target : Accounts, prior : AccountRows \cup {Absent},
           result : AccountRows \cup {Absent}, at : Nat]

TypeOK ==
  /\ account \in [Accounts -> AccountRows \cup {Absent}]
  /\ sessions \subseteq Sessions
  /\ audit \in Seq(Events)
  /\ shared \in [Accounts -> SUBSET Requests] /\ exclusive \in [Accounts -> SUBSET Requests]
  /\ bootstrapLock \subseteq Requests /\ changeLock \subseteq Requests
  /\ clock \in Nat
  /\ pc \in [Requests -> Places]
  /\ work \in [Requests -> Work \cup {Absent}]
  /\ started \in [Requests -> Nat]
  /\ uncounted \in [Requests -> SUBSET Accounts] /\ counted \in [Requests -> Nat]
  /\ ending \in [Requests -> SUBSET Sessions]

\* An empty database, or one that holds accounts, some of them signed in.
Init ==
  /\ account \in InitialAccounts
  /\ sessions \in SUBSET {[user |-> a, since |-> 0] : a \in {b \in Accounts :
                              account[b] # Absent /\ account[b].status = "enabled"}}
  /\ audit = << >>
  /\ shared = [a \in Accounts |-> {}] /\ exclusive = [a \in Accounts |-> {}]
  /\ bootstrapLock = {} /\ changeLock = {}
  /\ clock = 0
  /\ pc = [r \in Requests |-> "idle"]
  /\ work = [r \in Requests |-> Absent]
  /\ started = [r \in Requests |-> 0]
  /\ uncounted = [r \in Requests |-> {}] /\ counted = [r \in Requests |-> 0]
  /\ ending = [r \in Requests |-> {}]
-----------------------------------------------------------------------------
\* What a request asks for.
Creates(r) == work[r].kind \in {"bootstrap", "create"}
Changes(r) == work[r].kind \in {"role", "status"}
Target(r) == account[work[r].target]
\* Mutant of Updated: every change is written into the role column.
UpdatedAsRole(row, value, at) == [row EXCEPT !.role = value, !.updated = at]

Updated(row, value, at) ==
  IF value \in Roles THEN [row EXCEPT !.role = value, !.updated = at]
                     ELSE [row EXCEPT !.status = value, !.updated = at]
NoChange(row, value) == value \in {row.role, row.status}

\* Mutant of Result: the first account gets the default role.
ResultDefaultRole(r) ==
  IF Creates(r)
  THEN [role |-> IF work[r].kind = "bootstrap" THEN "designer" ELSE work[r].value,
        status |-> "enabled", updated |-> started[r]]
  ELSE Updated(Target(r), work[r].value, started[r])

\* The row the transaction of r leaves behind.
Result(r) ==
  IF Creates(r) THEN [role |-> work[r].value, status |-> "enabled", updated |-> started[r]]
                ELSE Updated(Target(r), work[r].value, started[r])

\* assertCanRemoveEnabledAdministrator counts only for a change that takes an
\* enabled administrator away.
Removes(r) ==
  /\ Changes(r) /\ EnabledAdministrator(Target(r))
  /\ work[r].value \notin {"administrator", "enabled"}

\* Mutant of EndsSessions: a change of role leaves the sessions alone.
EndsSessionsDisabled(r) == work[r].value = "disabled"

\* A change of role, and a disabling, end the target's sessions.
EndsSessions(r) == work[r].kind = "role" \/ work[r].value = "disabled"
SessionsOf(a) == {s \in sessions : s.user = a}

\* Mutant of ActorCurrent: the identity resolved with the session is trusted.
ActorCurrentAlways(r) == TRUE

ActorCurrent(r) == EnabledAdministrator(account[work[r].actor])
NextToCount(r) == CHOOSE a \in uncounted[r] : \A b \in uncounted[r] : a <= b

\* Requests whose uncommitted insert of the same username r has to wait for.
Inserting(r) == {s \in Requests : pc[s] = "written" /\ Creates(s)
                                    /\ work[s].target = work[r].target}

\* Mutant of Blockers: opening a session and sharing a row wait for nobody.
BlockersOfWriters(r) ==
  CASE pc[r] = "begun" /\ work[r].kind = "bootstrap" -> bootstrapLock
    [] pc[r] = "checked" /\ Creates(r) -> Inserting(r)
    [] pc[r] = "checked" /\ Changes(r) -> exclusive[work[r].target]
    [] pc[r] = "counting" /\ uncounted[r] # {} -> exclusive[NextToCount(r)]
    [] pc[r] = "counting" /\ uncounted[r] = {} -> changeLock
    [] OTHER -> {}

\* The holders of what r waits for: row locks, advisory locks, a username.
Blockers(r) ==
  CASE pc[r] = "verifying" -> exclusive[work[r].target]
    [] pc[r] = "begun" /\ work[r].kind = "bootstrap" -> bootstrapLock
    [] pc[r] = "begun" /\ work[r].kind # "bootstrap" -> exclusive[work[r].actor]
    [] pc[r] = "checked" /\ Creates(r) -> Inserting(r)
    [] pc[r] = "checked" /\ Changes(r) ->
         shared[work[r].target] \cup exclusive[work[r].target]
    [] pc[r] = "counting" /\ uncounted[r] # {} ->
         shared[NextToCount(r)] \cup exclusive[NextToCount(r)]
    [] pc[r] = "counting" /\ uncounted[r] = {} -> changeLock
    [] OTHER -> {}

\* Mutant of Free: the statements run outside a transaction, so nothing is locked.
FreeAlways(r) == TRUE

Free(r) == Blockers(r) \subseteq {r}
WaitsFor(r, s) == s # r /\ s \in Blockers(r)

\* r is on a cycle of waits: some set of several requests, r among them, in
\* which every part waits for the rest.
Deadlocked(r) ==
  \E group \in SUBSET Requests :
    /\ r \in group /\ group # {r}
    /\ \A part \in (SUBSET group) \ {{}, group} :
         \E s \in part, t \in group \ part : WaitsFor(s, t)
-----------------------------------------------------------------------------
\* The end of a transaction releases its locks; the client gets its answer.
ReleaseLocks(r) ==
  /\ shared' = [a \in Accounts |-> shared[a] \ {r}]
  /\ exclusive' = [a \in Accounts |-> exclusive[a] \ {r}]
  /\ bootstrapLock' = bootstrapLock \ {r}
  /\ changeLock' = changeLock \ {r}

Leave(r) ==
  /\ pc' = [pc EXCEPT ![r] = "idle"]
  /\ work' = [work EXCEPT ![r] = Absent]
  /\ started' = [started EXCEPT ![r] = 0]
  /\ uncounted' = [uncounted EXCEPT ![r] = {}]
  /\ counted' = [counted EXCEPT ![r] = 0]
  /\ ending' = [ending EXCEPT ![r] = {}]

\* Mutant of Rollback: the connection is released without a ROLLBACK.
RollbackLeavingLocks(r) == Leave(r) /\ UNCHANGED <<data, locks, clock>>

\* inTransaction: an error rolls back, releases and is reported to the client.
Rollback(r) ==
  /\ ReleaseLocks(r) /\ Leave(r)
  /\ UNCHANGED <<data, clock>>

Accept(r, place, kind, actor, target, value) ==
  /\ pc' = [pc EXCEPT ![r] = place]
  /\ work' = [work EXCEPT ![r] = [kind |-> kind, actor |-> actor, target |-> target,
                                  value |-> value]]
  /\ UNCHANGED <<started, uncounted, counted, ending>>

\* login reads the account once, then verifies the password against that row.
SignIn(r, user) ==
  /\ pc[r] = "idle" /\ clock < MaxTransactions
  /\ account[user] # Absent /\ account[user].status = "enabled"
  /\ clock' = clock + 1
  /\ Accept(r, "verifying", "login", user, user, account[user].role)
  /\ UNCHANGED <<data, locks>>

\* createSession looks at nothing again; only its foreign key waits for a
\* transaction that has the user's row FOR UPDATE.
OpenSession(r) ==
  /\ pc[r] = "verifying" /\ Free(r)
  /\ sessions' = sessions \cup {[user |-> work[r].target, since |-> Len(audit)]}
  /\ Leave(r)
  /\ UNCHANGED <<account, audit, locks, clock>>

\* Logout, or the session's expiry.
CloseSession(s) ==
  /\ sessions' = sessions \ {s}
  /\ UNCHANGED <<account, audit, locks, clock, pc, local>>

\* findSession: a live session of an enabled account.
Authenticated(user) ==
  /\ account[user] # Absent /\ account[user].status = "enabled"
  /\ \E s \in sessions : s.user = user

\* An administrator never disables or demotes the own account.
SelfProtected(user, target, value) ==
  user = target /\ value \notin {"administrator", "enabled"}

SubmitAccepted(r, user, kind, target, value) ==
  /\ pc[r] = "idle" /\ Authenticated(user)
  /\ HasCapability(account[user].role, "users")
  /\ kind \in {"role", "status"} => ~SelfProtected(user, target, value)
  /\ Accept(r, "resolved", kind, user, target, value)
  /\ UNCHANGED <<data, locks, clock>>

\* Anyone else's attempt is recorded, in a statement of its own.
SubmitRejected(r, user, kind, target) ==
  /\ pc[r] = "idle" /\ Authenticated(user) /\ clock < MaxTransactions
  /\ ~HasCapability(account[user].role, "users")
  /\ clock' = clock + 1
  /\ audit' = Append(audit, [outcome |-> "rejected", kind |-> kind, actor |-> user,
                             target |-> target, prior |-> Absent, result |-> Absent,
                             at |-> clock + 1])
  /\ UNCHANGED <<account, sessions, locks, pc, local>>

Submit(r, user) ==
  \E target \in Accounts :
    \/ \E value \in AssignableRoles :
         \/ SubmitAccepted(r, user, "create", target, value)
         \/ SubmitAccepted(r, user, "role", target, value)
    \/ \E value \in Statuses : SubmitAccepted(r, user, "status", target, value)
    \/ \E kind \in {"create", "role", "status"} : SubmitRejected(r, user, kind, target)

\* createInitialAdministrator counts the administrators before it hashes.
SubmitBootstrap(r, target) ==
  /\ pc[r] = "idle"
  /\ ~ \E a \in Accounts : IsAdministrator(account[a])
  /\ Accept(r, "resolved", "bootstrap", Nobody, target, "administrator")
  /\ UNCHANGED <<data, locks, clock>>

Begin(r) ==
  /\ pc[r] = "resolved" /\ clock < MaxTransactions
  /\ clock' = clock + 1
  /\ started' = [started EXCEPT ![r] = clock + 1]
  /\ pc' = [pc EXCEPT ![r] = "begun"]
  /\ UNCHANGED <<data, locks, work, uncounted, counted, ending>>

\* requireCurrentAdministrator reads the actor's row again, FOR SHARE.
CheckActor(r) ==
  /\ pc[r] = "begun" /\ work[r].kind # "bootstrap" /\ ActorCurrent(r) /\ Free(r)
  /\ shared' = [shared EXCEPT ![work[r].actor] = @ \cup {r}]
  /\ pc' = [pc EXCEPT ![r] = "checked"]
  /\ UNCHANGED <<data, exclusive, bootstrapLock, changeLock, clock, local>>

RefuseActor(r) ==
  /\ pc[r] = "begun" /\ work[r].kind # "bootstrap" /\ ~ActorCurrent(r)
  /\ Rollback(r)

\* The first administrator is created under an advisory lock.
CheckBootstrap(r) ==
  /\ pc[r] = "begun" /\ work[r].kind = "bootstrap" /\ Free(r)
  /\ ~ \E a \in Accounts : IsAdministrator(account[a])
  /\ bootstrapLock' = bootstrapLock \cup {r}
  /\ pc' = [pc EXCEPT ![r] = "checked"]
  /\ UNCHANGED <<data, shared, exclusive, changeLock, clock, local>>

RefuseBootstrap(r) ==
  /\ pc[r] = "begun" /\ work[r].kind = "bootstrap" /\ Free(r)
  /\ \E a \in Accounts : IsAdministrator(account[a])
  /\ Rollback(r)

\* The insert of a user, refused when the username is taken.
InsertUser(r) ==
  /\ pc[r] = "checked" /\ Creates(r) /\ Free(r)
  /\ Target(r) = Absent
  /\ pc' = [pc EXCEPT ![r] = "written"]
  /\ UNCHANGED <<data, locks, clock, local>>

RefuseUsername(r) ==
  /\ pc[r] = "checked" /\ Creates(r) /\ Free(r)
  /\ Target(r) # Absent
  /\ Rollback(r)

\* The target's row FOR UPDATE; a change that changes nothing ends here.
TargetSettled(r) == Target(r) # Absent => NoChange(Target(r), work[r].value)

LockTarget(r) ==
  /\ pc[r] = "checked" /\ Changes(r) /\ Free(r)
  /\ ~TargetSettled(r)
  /\ exclusive' = [exclusive EXCEPT ![work[r].target] = @ \cup {r}]
  /\ uncounted' = [uncounted EXCEPT ![r] =
       IF Removes(r) THEN {a \in Accounts : EnabledAdministrator(account[a])} ELSE {}]
  /\ pc' = [pc EXCEPT ![r] = "counting"]
  /\ UNCHANGED <<data, shared, bootstrapLock, changeLock, clock, work, started, counted,
                 ending>>

LeaveTarget(r) ==
  /\ pc[r] = "checked" /\ Changes(r) /\ Free(r)
  /\ TargetSettled(r)
  /\ Rollback(r)

\* One more row of the counting statement: it is locked, and returned if it
\* still is an enabled administrator's.
CountAdministrator(r) ==
  /\ pc[r] = "counting" /\ uncounted[r] # {} /\ Free(r)
  /\ LET a == NextToCount(r) IN
       /\ uncounted' = [uncounted EXCEPT ![r] = @ \ {a}]
       /\ IF EnabledAdministrator(account[a])
            THEN /\ counted' = [counted EXCEPT ![r] = @ + 1]
                 /\ exclusive' = [exclusive EXCEPT ![a] = @ \cup {r}]
            ELSE UNCHANGED <<counted, exclusive>>
  /\ UNCHANGED <<data, shared, bootstrapLock, changeLock, clock, pc, work, started, ending>>

LastAdministrator(r) == Removes(r) /\ counted[r] <= 1

\* Mutant of NewTimestamp: the trigger does not compare.
NewTimestampAny(r) == TRUE

\* guard_user_role_status_update: it compares timestamps, then takes the second
\* advisory lock and looks at the actor and the other administrators again.
NewTimestamp(r) == started[r] > Target(r).updated
AdministratorsAllow(r) ==
  /\ ActorCurrent(r)
  /\ Removes(r) => \E a \in Accounts \ {work[r].target} : EnabledAdministrator(account[a])

RefuseUpdate(r) ==
  /\ pc[r] = "counting" /\ uncounted[r] = {}
  /\ LastAdministrator(r) \/ ~NewTimestamp(r) \/ (Free(r) /\ ~AdministratorsAllow(r))
  /\ Rollback(r)

UpdateUser(r) ==
  /\ pc[r] = "counting" /\ uncounted[r] = {} /\ Free(r)
  /\ ~LastAdministrator(r) /\ NewTimestamp(r) /\ AdministratorsAllow(r)
  /\ changeLock' = changeLock \cup {r}
  /\ ending' = [ending EXCEPT ![r] = IF EndsSessions(r) THEN SessionsOf(work[r].target)
                                                        ELSE {}]
  /\ pc' = [pc EXCEPT ![r] = "written"]
  /\ UNCHANGED <<data, shared, exclusive, bootstrapLock, clock, work, started, uncounted,
                 counted>>

\* The deferred triggers look once more at the commit: no session of a changed
\* account may still be live, and without an actor only one administrator exists.
CommitAllowed(r) ==
  /\ Changes(r) /\ EndsSessions(r) => SessionsOf(work[r].target) \subseteq ending[r]
  /\ work[r].kind = "bootstrap" => ~ \E a \in Accounts : IsAdministrator(account[a])

Publish(r) ==
  /\ account' = [account EXCEPT ![work[r].target] = Result(r)]
  /\ sessions' = sessions \ ending[r]
  /\ audit' = Append(audit, [outcome |-> "succeeded", kind |-> work[r].kind,
                             actor |-> work[r].actor, target |-> work[r].target,
                             prior |-> Target(r), result |-> Result(r), at |-> started[r]])
  /\ ReleaseLocks(r) /\ Leave(r)
  /\ UNCHANGED clock

Commit(r) ==
  /\ pc[r] = "written"
  /\ IF CommitAllowed(r) THEN Publish(r) ELSE Rollback(r)

\* PostgreSQL aborts one transaction of a cycle of waits.
AbortDeadlocked(r) == Deadlocked(r) /\ Rollback(r)
-----------------------------------------------------------------------------
\* What a request does by itself once it has been accepted.
Advance(r) ==
  \/ OpenSession(r)
  \/ Begin(r) \/ CheckActor(r) \/ RefuseActor(r) \/ CheckBootstrap(r) \/ RefuseBootstrap(r)
  \/ InsertUser(r) \/ RefuseUsername(r)
  \/ LockTarget(r) \/ LeaveTarget(r) \/ CountAdministrator(r)
  \/ UpdateUser(r) \/ RefuseUpdate(r) \/ Commit(r)
  \/ AbortDeadlocked(r)

Next ==
  \/ \E r \in Requests :
       \/ \E user \in Accounts : SignIn(r, user) \/ Submit(r, user)
       \/ \E target \in Accounts : SubmitBootstrap(r, target)
       \/ Advance(r)
  \/ \E s \in sessions : CloseSession(s)

Spec == Init /\ [][Next]_vars

\* An accepted request keeps running.
FairSpec == Spec /\ \A r \in Requests : WF_vars(Advance(r))
-----------------------------------------------------------------------------
Succeeded == {i \in 1..Len(audit) : audit[i].outcome = "succeeded"}
About(a) == {i \in Succeeded : audit[i].target = a}

\* Once there is an account, some enabled administrator remains: two
\* administrators who demote or disable each other at once, each counting the
\* other as remaining, never leave none (assertCanRemoveEnabledAdministrator and
\* the FOR SHARE of requireCurrentAdministrator).
AdministratorRemains ==
  (\E a \in Accounts : account[a] # Absent)
    => \E a \in Accounts : EnabledAdministrator(account[a])

\* The guards that repeat each other agree: when the trigger looks at the
\* administrators again, and when the deferred triggers look at the sessions and
\* at the first administrator, they find what the store has already ensured,
\* however logins, demotions and bootstraps interleave.  The store's count of
\* administrators, too, never finds the last one: the actor is another.
GuardsAgree ==
  \A r \in Requests :
    /\ pc[r] = "counting" /\ uncounted[r] = {}
         => AdministratorsAllow(r) /\ ~LastAdministrator(r)
    /\ pc[r] = "written" => CommitAllowed(r)

\* A session outlives no change of role and no disabling of its account that was
\* committed after it was opened: it does not come back to life when the account
\* is enabled again (setUserEnabled and setUserRole revoke; createSession waits).
SessionsFollowRevocation ==
  \A s \in sessions, i \in Succeeded :
    /\ audit[i].target = s.user /\ i > s.since
    => audit[i].kind # "role" /\ audit[i].result.status = "enabled"

\* The audit events of an account, in the order of their timestamps, are its
\* history: they are committed in that order, each starts from the row the one
\* before left, and the last one leaves the row as it is.  (now() is the start of
\* the transaction: two changes of one account may begin in one order and take
\* the row in the other.)
AuditTellsHistory ==
  \A a \in Accounts : \A i \in About(a) :
    /\ \A j \in About(a) : i < j => audit[i].at < audit[j].at
    /\ LET later == {j \in About(a) : i < j} IN
         IF later = {} THEN account[a] = audit[i].result
         ELSE audit[CHOOSE j \in later : \A k \in later : j <= k].prior = audit[i].result

\* The command line creates at most one administrator, and none where an account
\* with that role exists: two invocations that both counted none cannot both
\* succeed (the advisory lock of createUser).
BootstrapOnce ==
  \A i \in Succeeded : audit[i].kind = "bootstrap"
    => \A j \in Succeeded : j # i => j > i /\ audit[j].kind # "bootstrap"

\* An account changes only by the audited request of an actor who is, at that
\* very commit, an enabled administrator and somebody else, however long ago the
\* session was resolved; or it is the first administrator.
ChangesAreAuthorized ==
  [][\A a \in Accounts : account[a]' # account[a] =>
       LET event == audit'[Len(audit')] IN
         /\ Len(audit') = Len(audit) + 1
         /\ event.target = a /\ event.prior = account[a] /\ event.result = account[a]'
         /\ \/ /\ event.actor # a /\ event.actor # Nobody
               /\ EnabledAdministrator(account[event.actor])
            \/ event.kind = "bootstrap" /\ \A b \in Accounts : ~IsAdministrator(account[b])]_vars

\* Every request is answered in the end, also those that deadlock on each
\* other's rows: an administrator's own row is taken FOR SHARE, then others' FOR
\* UPDATE and possibly the own once more, in no common order.
EveryRequestIsAnswered ==
  \A r \in Requests : pc[r] \in Places \ {"idle", "resolved"} ~> pc[r] = "idle"
=============================================================================
