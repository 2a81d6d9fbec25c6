\* Idempotency keys over lost acknowledgements, retries from a newer base and a change of store.
SPECIFICATION Spec
VIEW serviceState
CONSTANTS
  RootPrincipal = "root"
  MaxRecords = 4
  Actors <- OneActor
  Requests <- KeyRequests
  Artifacts <- NoArtifacts
  StoreIds = {A, B}
  Ports = {}
  SharedStore = FALSE
  StoreLosses = {"OutcomeUnknown"}
  MaxHandles = 3
  MaxGrants = 1
  MaxRevisions = 3
SYMMETRY StoreSymmetry
INVARIANTS KeyCommitsAtMostOnce ReceiptCoversCommit PromotedIsDurable StoresAreChains
PROPERTIES ReceiptsAreFinal
CHECK_DEADLOCK FALSE
