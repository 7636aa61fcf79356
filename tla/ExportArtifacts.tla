--------------------------- MODULE ExportArtifacts ---------------------------
(***************************************************************************)
(* What exporting promises about one saved revision, with no request,      *)
(* worker, lease or retry in sight: an export captures the revision as it  *)
(* is at that moment, once for each renderer identity while the capture is *)
(* usable; it becomes ready or fails, and then never changes.  ExportJobs  *)
(* implements it.                                                          *)
(***************************************************************************)
EXTENDS Naturals, Sequences

CONSTANTS Templates   \* identities of template, mapping and renderer

VARIABLES
  stage,     \* lifecycle status of the revision
  exports    \* its export artifacts, in the order of their creation

vars == <<stage, exports>>

Stages == {"calculated", "checked", "approved"}
Exports == [stage : Stages, template : Templates, status : {"pending", "ready", "failed"}]

TypeOK == stage \in Stages /\ exports \in Seq(Exports)

Init == stage = "calculated" /\ exports = << >>

Advance ==
  /\ \/ stage = "calculated" /\ stage' = "checked"
     \/ stage = "checked" /\ stage' = "approved"
  /\ UNCHANGED exports

\* Only when no usable export shows the same stage by the same template.
Capture(template) ==
  /\ \A i \in DOMAIN exports :
       exports[i].stage = stage /\ exports[i].template = template => exports[i].status = "failed"
  /\ exports' = Append(exports, [stage |-> stage, template |-> template, status |-> "pending"])
  /\ UNCHANGED stage

\* Its workbook is stored, and never changes any more.
Complete(i) ==
  /\ exports[i].status = "pending"
  /\ exports' = [exports EXCEPT ![i].status = "ready"]
  /\ UNCHANGED stage

\* One pass of a worker may give up several exports at once.
GiveUp(S) ==
  /\ \A i \in S : exports[i].status = "pending"
  /\ exports' = [i \in DOMAIN exports |->
                   IF i \in S THEN [exports[i] EXCEPT !.status = "failed"] ELSE exports[i]]
  /\ UNCHANGED stage

Next ==
  \/ Advance
  \/ \E template \in Templates : Capture(template)
  \/ \E i \in DOMAIN exports : Complete(i)
  \/ \E S \in SUBSET DOMAIN exports : GiveUp(S)

Spec == Init /\ [][Next]_vars
=============================================================================
