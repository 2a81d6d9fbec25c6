\* One tree under admitted transactions and reloads, and what its readers see.
SPECIFICATION Spec
CONSTANTS
  RootPrincipal = "root"
  Texts <- UsedTexts
  MaxRecords = 12
  Pools <- ReadingPools
  MaxTreeRecords = 4
  Budgets <- SmallBudgets
  Policies <- SomePolicies
  Intents <- SomeIntents
  Contracts <- SomeContracts
INVARIANTS TypeOK ReciprocalSupersession StatusMatchesHistory AcyclicOneByOne UniqueIdsOneByOne StoredViewsResolve BundleAccountsForAll FloorsShowWhatBlocks RestoreKeepsReading StoredBytesReadBack CutIsRefused DamageIsRefused ExecutableMeansRecalled OlderFormatsNeverWeaken BlindRetryIsRefused
PROPERTIES HistoryIsKept TerminalObligationsStay BoundaryIsStandingWork ResolutionIsPermanent RecallOnlyGrows
