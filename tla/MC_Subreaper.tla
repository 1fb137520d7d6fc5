---------------------------- MODULE MC_Subreaper ----------------------------
(* Model-checking instances of Subreaper.                                   *)
EXTENDS Subreaper, SequencesExt

\* The order the tests are declared in prctl.cc, gtest's default order.
MCDeclared == {<<"SimpleSetGet", "ThreadsInherit", "ProcsNoInherit", "Orphans">>}

\* Every order --gtest_shuffle may pick.
MCShuffled == SetToSeqs(Tests)

\* Faults the tests are meant to expose.
MCBugs == {"ThreadStartsClear", "ForkInherits", "NoReparent"}

\* The fault in the SIGCHLD sent for a reparented orphan.
MCSigchldBugs == {"NoOrphanSigchld"}

=============================================================================
