CONSTANTS
  NumProcs = 2
  Scenarios <- MCConcurrent
  FaultSets <- MCConforming
  AutobindStart <- MCAutobindStart

SPECIFICATION Spec


PROPERTY OracleSpec
