--------------------------- MODULE RevisionGuards ---------------------------
(***************************************************************************)
(* What the database itself demands of the rows of a revision's history:   *)
(* the triggers of the stage 8 migrations, each a predicate of the rows it *)
(* is given.  BEFORE triggers see the row as it was; the deferred ones see *)
(* every row of the transaction, at its commit.  They refuse an INSERT or  *)
(* UPDATE by an exception, so what they demand cannot go wrong unseen: the *)
(* question is whether the service ever runs into one of them.             *)
(***************************************************************************)
EXTENDS Integers

\* revision_lifecycle_events_success_shape: the status each action results in.
StatusAfter ==
  [action \in {"save", "check", "approve", "archive"} |->
     CASE action = "save" -> "calculated"
       [] action = "check" -> "checked"
       [] action = "approve" -> "approved"
       [] action = "archive" -> "archived"]

\* The roles an inserted event, or approval, may carry.
ReviewRoles == {"reviewer", "administrator"}
LifecycleRoles(action) == IF action = "save" THEN {"designer"} \cup ReviewRoles ELSE ReviewRoles

\* guard_v2_revision_initial_state
BeginsCalculated(row) == row.status = "calculated"

\* protect_revision_payload: the status moves one on, or to the archive; nothing
\* else of a saved revision changes.
StatusMoves == {<<"calculated", "checked">>, <<"checked", "approved">>}
                 \cup {"calculated", "checked", "approved"} \X {"archived"}
PayloadProtected(old, new) ==
  /\ new = [old EXCEPT !.status = new.status]
  /\ new.status = old.status \/ <<old.status, new.status>> \in StatusMoves

\* require_v2_revision_lifecycle_event: the event that brought a revision where it
\* is, and the decision behind an approval.
Evidenced(number, row, events, approvals) ==
  /\ \E e \in events : e.revision = number /\ StatusAfter[e.action] = row.status
  /\ row.status = "approved" => \E a \in approvals : a.revision = number

\* require_succeeded_revision_lifecycle_state: a new event tells the status its
\* revision has at the commit, and who brought it there.
EventFits(e, row, approvals) ==
  /\ row.status = StatusAfter[e.action]
  /\ e.action = "save" => e.actor = row.author
  /\ e.action = "approve" => \E a \in approvals :
       a.revision = e.revision /\ a.actor = e.actor /\ a.role = e.role

\* guard_revision_approval: the row as it was before the approving UPDATE.
ApprovalAllowed(a, row) == a.role \in ReviewRoles /\ row.status = "checked" /\ row.ready

\* require_v2_approval_transition
ApprovalEvidenced(a, row, events) ==
  /\ row.status = "approved"
  /\ \E e \in events : /\ e.revision = a.revision /\ e.action = "approve"
                       /\ e.actor = a.actor /\ e.role = a.role
=============================================================================
