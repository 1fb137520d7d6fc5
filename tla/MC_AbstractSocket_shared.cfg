CONSTANTS
  NumProcs = 2
  Scenarios <- MCSharedName
  FaultSets <- MCConforming
  AutobindStart <- MCAutobindStart

SPECIFICATION Spec


PROPERTY OracleSpec
