--------------------------- MODULE Authorization ---------------------------
(***************************************************************************)
(* The role table of apps/backend/src/authorization-policy.ts: which role  *)
(* may do what, and on whose projects.  The services consult it before a   *)
(* mutation; the repositories consult it again to scope their queries.     *)
(* Only the capabilities the modelled operations use are listed.           *)
(***************************************************************************)

Roles == {"designer", "reviewer", "administrator", "viewer"}

\* CAPABILITIES_BY_ROLE, one capability per modelled operation.
CapabilitiesByRole ==
  [role \in Roles |->
     CASE role = "designer"      -> {"edit", "calculate", "save", "export"}
       [] role = "reviewer"      -> {"edit", "calculate", "save", "export", "check", "approve"}
       [] role = "administrator" -> {"edit", "calculate", "save", "export", "check", "approve", "users"}
       [] role = "viewer"        -> {}]

HasCapability(role, capability) == capability \in CapabilitiesByRole[role]

\* projectAccessScope for "read" and "readHistory": a designer sees only own
\* projects, every other role sees all of them.
MayReadProject(role, owns) == role = "designer" => owns

\* projectAccessScope for "edit", "validate", "calculate" and "saveRevision":
\* an administrator reaches every project, designers and reviewers their own.
MayMutateProject(role, owns) ==
  \/ role = "administrator"
  \/ role \in {"designer", "reviewer"} /\ owns
=============================================================================
