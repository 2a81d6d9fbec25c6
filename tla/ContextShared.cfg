\* A second process writes the same store; reviewed and unreviewed decisions.
SPECIFICATION Spec
VIEW serviceState
CONSTANTS
  RootPrincipal = "root"
  MaxRecords = 4
  Actors <- OneActor
  Requests <- ReviewRequests
  Artifacts <- NoArtifacts
  StoreIds = {"A"}
  Ports = {"root"}
  SharedStore = TRUE
  StoreLosses = {}
  MaxHandles = 3
  MaxGrants = 1
  MaxRevisions = 3
INVARIANTS StoresAreChains
PROPERTIES ImplementsCanonicalHistory
CHECK_DEADLOCK FALSE
