\* A kernel that may drop the subreaper's SIGCHLD for the orphan.
CONSTANTS
  Orders <- MCDeclared
  Repeat = 1
  Bugs <- MCSigchldBugs

SPECIFICATION Spec

INVARIANT
  OrphanNotified
