CONSTANTS
  Orders <- MCOrders
  FaultSets <- MCFaultSets
  ExeName <- MCExeName
  InitDumpable = {0, 2}
SPECIFICATION Spec
PROPERTY OracleSpec
