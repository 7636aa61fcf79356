---------------------------- MODULE MCExportJobs ----------------------------
(* Instances of ExportJobs for TLC. *)
EXTENDS ExportJobs, TLC

CONSTANTS oldBackend, newBackend, oldTemplate, newTemplate

\* Two backends during an upgrade of the workbook template.
MixedTemplates == [b \in Backends |-> IF b = oldBackend THEN oldTemplate ELSE newTemplate]

\* Two backends of the same build.
OneTemplate == [b \in Backends |-> newTemplate]

SymmetricRequests == Permutations(Requests) \cup Permutations(Actors)
SymmetricBackends == Permutations(Backends)
=============================================================================
