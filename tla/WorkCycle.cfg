\* Two sessions take turns on one store whose acknowledgements can be lost.
SPECIFICATION CycleSpec
CONSTANTS
  RootPrincipal = "root"
  MaxRecords = 4
  Actors <- OneActor
  Requests <- CycleRequests
  Artifacts <- NoArtifacts
  StoreIds = {"A"}
  Ports = {"root"}
  SharedStore = FALSE
  StoreLosses = {"OutcomeUnknown", "Threw"}
  MaxHandles = 4
  MaxGrants = 2
  MaxRevisions = 3
  Sessions = {"s", "t"}
  ActorOf <- OwnerOfAll
  WorkModes = {"SupervisedForeground"}
INVARIANTS CycleTypeOK TurnHoldsTheLease GapsMatchReceipts BoundIsContinueable
PROPERTIES AppliedDeltaIsVisible HeadMovesUnderThought LeaseIsReturned
CHECK_DEADLOCK FALSE
