\* Competing grants on one store whose swaps can throw, landed or not.
SPECIFICATION Spec
VIEW serviceState
CONSTANTS
  RootPrincipal = "root"
  MaxRecords = 4
  Actors <- TwoActors
  Requests <- LeaseRequests
  Artifacts <- NoArtifacts
  StoreIds = {"A"}
  Ports = {"root"}
  SharedStore = FALSE
  StoreLosses = {"Threw"}
  MaxHandles = 3
  MaxGrants = 2
  MaxRevisions = 3
INVARIANTS TypeOK CommitsAreFenced LeaseIsLatestGrant
PROPERTIES LeaseEndsWithItsGrant
CHECK_DEADLOCK FALSE
