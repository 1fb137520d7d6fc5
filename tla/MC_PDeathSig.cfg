CONSTANTS
  Bugs <- MCBugs

SPECIFICATION Spec

INVARIANT
  TypeOK

PROPERTY
  OracleSpec
