SPECIFICATION FairSpec
CONSTANTS
  Nil = Nil
  Namespaces = {"own", "other"}
  OwnNamespace = "own"
  RoleARNs = {"r1", "r2", "r3", "r4", "bad"}
  Inputs <- MCInputs
  Regions = {"e1", "e2"}
  FirstRegion = "e1"
  RoleStates <- MCRoleStates
  OtherRoles = {"r4"}
  Faults = {"error", "lost", "status", "restart"}
  MaxActs = 4
INVARIANTS TypeOK StoredSpecIsTheUsers OnlyUsableRoles NeverTwoMachines
PROPERTIES AdoptNeverCreates InputsSettle AdoptionCompletes DeletionNeedsNoRole
CHECK_DEADLOCK FALSE
