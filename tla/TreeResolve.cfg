\* An operation submitted together with the resolution of the conflict that blocks it.
SPECIFICATION Spec
CONSTANTS
  RootPrincipal = "root"
  Texts <- AnyText
  MaxRecords = 4
  Pools <- RecordPool
  MaxTreeRecords = 2
INVARIANTS ResolvingTransactionIsAdmitted
