-------------------------- MODULE RevisionHistory --------------------------
(***************************************************************************)
(* What the revision workflow promises about one project, with no request, *)
(* lock, retry or role in sight: the draft only moves forward; a revision  *)
(* freezes the draft of the moment it is saved; and only the latest        *)
(* revision advances, one step at a time, to "approved" only if its        *)
(* calculation was ready for approval.  RevisionLifecycle implements it.   *)
(***************************************************************************)
EXTENDS Naturals, Sequences

VARIABLES
  draft,    \* version of the project draft
  history   \* the project's revisions, oldest first

vars == <<draft, history>>

Statuses == {"calculated", "checked", "approved"}

\* A saved revision names the draft version it was saved from, the draft its
\* stored project document shows and the draft its calculation was made for.
Saved == [source : Nat, document : Nat, calculated : Nat, ready : BOOLEAN, status : Statuses]

TypeOK == draft \in Nat /\ history \in Seq(Saved)

Init == draft = 1 /\ history = << >>

EditDraft == draft' = draft + 1 /\ UNCHANGED history

SaveRevision ==
  /\ \E ready \in BOOLEAN :
       history' = Append(history, [source |-> draft, document |-> draft, calculated |-> draft,
                                   ready |-> ready, status |-> "calculated"])
  /\ UNCHANGED draft

\* Only the last element of the history can change, and only its status.
AdvanceLatest(from, to) ==
  /\ history # << >>
  /\ history[Len(history)].status = from
  /\ history' = [history EXCEPT ![Len(history)].status = to]
  /\ UNCHANGED draft

CheckLatest == AdvanceLatest("calculated", "checked")

ApproveLatest ==
  /\ history # << >>
  /\ history[Len(history)].ready
  /\ AdvanceLatest("checked", "approved")

Next == EditDraft \/ SaveRevision \/ CheckLatest \/ ApproveLatest

Spec == Init /\ [][Next]_vars
=============================================================================
