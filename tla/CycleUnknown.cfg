\* A session whose last commit outcome is unknown works on.
SPECIFICATION CycleSpec
CONSTANTS
  RootPrincipal = "root"
  MaxRecords = 4
  Actors <- OneActor
  Requests <- CycleRequests
  Artifacts <- NoArtifacts
  StoreIds = {"A"}
  Ports = {"root"}
  SharedStore = FALSE
  StoreLosses = {"OutcomeUnknown", "Threw"}
  MaxHandles = 3
  MaxGrants = 2
  MaxRevisions = 3
  Sessions = {"s", "t"}
  ActorOf <- OwnerOfAll
  WorkModes = {"SupervisedForeground"}
PROPERTIES UnknownStopsDependentWork
CHECK_DEADLOCK FALSE
