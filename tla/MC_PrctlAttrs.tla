--------------------------- MODULE MC_PrctlAttrs ----------------------------
EXTENDS PrctlAttrs

\* Every order of the six tests.
MCOrders == {o \in [1..6 -> Tests] : \A t \in Tests : \E i \in 1..6 : o[i] = t}

\* Faults interact only through the state they share: every combination of
\* the faults on comm, every combination of those on dumpability, and the
\* PR_SET_MM fault alone.
MCFaultSets ==
  SUBSET {"NoInitialName", "KeepsSixteen", "ForkResetsName"}
  \cup SUBSET {"GetReportsUser", "RootAccepted"} \cup {{"NoCapCheck"}}

\* The test binary's name, "prctl_test" after exec: a run of 10 characters.
MCExeName == Run("p", 10)

\* The declared order of the tests in prctl.cc.
MCDeclared ==
  {<<"NameInitialized", "SetNameLongName", "ChildProcessName",
     "InvalidPrSetMM", "SetGetDumpability", "RootDumpability">>}

MCConforming == {{}}
=============================================================================
