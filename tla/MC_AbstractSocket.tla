------------------------- MODULE MC_AbstractSocket --------------------------
EXTENDS AbstractSocket

\* INSTANTIATE_TEST_SUITE_P: every test over {STREAM, SEQPACKET, DGRAM} x
\* {0, SOCK_NONBLOCK}.
MCScenarios ==
  [test : Tests, type : {"STREAM", "SEQPACKET", "DGRAM"}, nonblock : BOOLEAN]

\* A conforming kernel and each single fault.
MCFaultSets == {{}} \cup {{b} : b \in KnownBugs}

\* Two before the counter wraps, so autobind yields fffff and then 00000.
MCAutobindStart == 16^5 - 2

\* Tests that share no fixed name, run by two processes at once.
MCConcurrent ==
  [test : {"AddressAfterNull", "AutoBindAddrInUse", "BindConnectInSubNamespace"},
   type : {"STREAM"}, nonblock : {FALSE}]

\* The tests that bind a name fixed in the source: ListenZeroBacklog's
\* \0/foo_bar and BindNothing's all-zero sun_path.
MCSharedName ==
  [test : {"ListenZeroBacklog", "BindNothing"}, type : {"STREAM"},
   nonblock : {TRUE}]

MCConforming == {{}}
=============================================================================
