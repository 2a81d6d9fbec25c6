\* Restored artifacts beside canonical materializations; a revoked identity port.
SPECIFICATION Spec
VIEW serviceState
CONSTANTS
  RootPrincipal = "root"
  MaxRecords = 4
  Actors <- TwoActors
  Requests <- QuietRequests
  Artifacts <- SomeArtifacts
  StoreIds = {"A"}
  Ports = {"root", "revoked"}
  SharedStore = FALSE
  StoreLosses = {}
  MaxHandles = 4
  MaxGrants = 1
  MaxRevisions = 3
INVARIANTS RestoreIsNotAuthority OneLiveEntryPerLineage
CHECK_DEADLOCK FALSE
