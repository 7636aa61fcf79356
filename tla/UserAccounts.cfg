SPECIFICATION FairSpec
CONSTANTS
  Requests = {r1, r2}
  Accounts = {1, 2}
  Absent = Absent
  Nobody = 0
  InitialAccounts <- MCInitialAccounts
  AssignableRoles <- MCAssignableRoles
  MaxTransactions = 3
INVARIANTS AdministratorRemains GuardsAgree SessionsFollowRevocation AuditTellsHistory BootstrapOnce
PROPERTIES ChangesAreAuthorized EveryRequestIsAnswered
CHECK_DEADLOCK FALSE
