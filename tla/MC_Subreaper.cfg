CONSTANTS
  Orders <- MCDeclared
  Repeat = 1
  Bugs <- MCBugs

SPECIFICATION Spec

INVARIANTS
  TypeOK

PROPERTIES
  OracleSpec
