CONSTANTS
  NumProcs = 1
  Scenarios <- MCScenarios
  FaultSets <- MCFaultSets
  AutobindStart <- MCAutobindStart

SPECIFICATION Spec

INVARIANT NamespaceRestored

PROPERTY OracleSpec
