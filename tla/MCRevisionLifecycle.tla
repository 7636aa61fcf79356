------------------------ MODULE MCRevisionLifecycle ------------------------
(* Instances of RevisionLifecycle for TLC. *)
EXTENDS RevisionLifecycle, TLC

CONSTANTS owner, reviewer

\* The project's owner is a reviewer, so one account can save, check and approve.
OwnerReviews == [a \in Actors |-> "reviewer"]

\* A designer owns the project; the other account reviews it.
OwnerDesigns == [a \in Actors |-> IF a = Owner THEN "designer" ELSE "reviewer"]

\* Histories with at most one recorded rejection.
AtMostOneTombstone == Cardinality(tombstones) <= 1

SymmetricRequests == Permutations(Requests)
SymmetricRequestsAndKeys == Permutations(Requests) \cup Permutations(Keys)
=============================================================================
