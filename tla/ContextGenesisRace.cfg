\* Two processes create the genesis of one store.
SPECIFICATION Spec
VIEW serviceState
CONSTANTS
  RootPrincipal = "root"
  MaxRecords = 4
  Actors <- OneActor
  Requests <- QuietRequests
  Artifacts <- NoArtifacts
  StoreIds = {"A"}
  Ports = {"root"}
  SharedStore = TRUE
  StoreLosses = {}
  MaxHandles = 2
  MaxGrants = 1
  MaxRevisions = 2
INVARIANTS PromotedHasStorageIdentity
CHECK_DEADLOCK FALSE
