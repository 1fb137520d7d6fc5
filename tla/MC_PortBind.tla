---------------------------- MODULE MC_PortBind -----------------------------
EXTENDS PortBind

\* Command lines the instances may be started with.  Each stands for a class
\* of arguments main treats alike:
\*   no argument; "5000"; " +5000" (white space and sign); "5000x" (a
\*   trailing character); "-" (no digits); a 20-digit number (ERANGE);
\*   "4294972296" = 2^32 + 5000 and "-4294962296" = 5000 - 2^32, which the
\*   (int) cast brings back to 5000; "80" (privileged); "8080" (held by
\*   another program).
Arg(str) == [argc |-> 2, arg |-> str]
MCInvocations ==
  { [argc |-> 1, arg |-> <<>>],
    Arg(<<"5","0","0","0">>), Arg(<<" ","+","5","0","0","0">>),
    Arg(<<"5","0","0","0","x">>), Arg(<<"-">>),
    Arg([i \in 1..20 |-> "9"]),
    Arg(<<"4","2","9","4","9","7","2","2","9","6">>),
    Arg(<<"-","4","2","9","4","9","6","2","2","9","6">>),
    Arg(<<"8","0">>), Arg(<<"8","0","8","0">>) }

\* Arguments whose value is not the port bound: "70536" = 2^16 + 5000
\* (bound as 5000) and "" (port 0, bound to an ephemeral port).
MCWrapping == { Arg(<<"7","0","5","3","6">>), Arg(<<>>) }

MCBusy == {8080}
MCEphemeral == {32768, 32769}
=============================================================================
