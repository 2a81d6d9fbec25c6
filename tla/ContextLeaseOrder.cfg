\* The gate order the header documents.
SPECIFICATION Spec
VIEW serviceState
CONSTANTS
  RootPrincipal = "root"
  MaxRecords = 4
  Actors <- OneActor
  Requests <- KeyRequests
  Artifacts <- NoArtifacts
  StoreIds = {"A"}
  Ports = {"root"}
  SharedStore = FALSE
  StoreLosses = {}
  MaxHandles = 2
  MaxGrants = 1
  MaxRevisions = 2
PROPERTIES AppliedHeldTheLease
CHECK_DEADLOCK FALSE
