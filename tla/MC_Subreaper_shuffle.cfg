\* --gtest_shuffle on a conforming kernel.
CONSTANTS
  Orders <- MCShuffled
  Repeat = 1
  Bugs = {}

SPECIFICATION Spec

INVARIANT
  NoSpuriousFailure
