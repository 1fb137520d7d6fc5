CONSTANTS
  Bugs <- MCBugs

SPECIFICATION Spec

PROPERTY
  OracleSpec
