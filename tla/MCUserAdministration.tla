------------------------ MODULE MCUserAdministration ------------------------
(***************************************************************************)
(* Instances of UserAdministration for TLC: an empty database, and one     *)
(* with two administrators.                                                *)
(***************************************************************************)
EXTENDS UserAdministration

MCRow(role) == [role |-> role, status |-> "enabled", updated |-> 0]

MCInitialAccounts ==
  { [a \in Accounts |-> Absent],
    [a \in Accounts |-> MCRow("administrator")] }
MCAssignableRoles == {"administrator", "designer"}
=============================================================================
