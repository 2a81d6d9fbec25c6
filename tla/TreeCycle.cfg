\* Two supersessions in one transaction.
SPECIFICATION Spec
CONSTANTS
  RootPrincipal = "root"
  Texts <- AnyText
  MaxRecords = 4
  Pools <- DecisionPool
  MaxTreeRecords = 2
INVARIANTS AcyclicSupersession
