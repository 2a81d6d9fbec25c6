\* A verified memory record read back from the store.
SPECIFICATION Spec
CONSTANTS
  RootPrincipal = "root"
  Texts <- AnyText
  MaxRecords = 4
  Pools <- MemoryPool
  MaxTreeRecords = 2
PROPERTIES EpistemicTypeIsKept
