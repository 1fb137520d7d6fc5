----------------------------- MODULE TestOracle -----------------------------
(***************************************************************************)
(* What a conformance test promises, independent of how it is written:     *)
(* each test process ends, exactly once, with the verdict its kernel       *)
(* deserves -- "pass" when the kernel has none of the faults the test is   *)
(* written to expose, "fail" otherwise.  expected[p] is that verdict; it   *)
(* is fixed by the kernel and the test instance before the test runs.      *)
(***************************************************************************)
CONSTANT Procs

VARIABLES
  verdict,   \* verdict[p]: "running", "pass" or "fail"
  expected   \* expected[p]: the verdict process p's test deserves

oracleVars == <<verdict, expected>>

Init ==
  /\ verdict = [p \in Procs |-> "running"]
  /\ expected \in [Procs -> {"pass", "fail"}]

\* Process p's test ends with the verdict it deserves.
Decide(p) ==
  /\ verdict[p] = "running"
  /\ verdict' = [verdict EXCEPT ![p] = expected[p]]
  /\ UNCHANGED expected

Next == \E p \in Procs : Decide(p)

\* Every test eventually ends: a hung test is ended by the runner's timeout.
Spec == Init /\ [][Next]_oracleVars /\ \A p \in Procs : WF_oracleVars(Decide(p))

=============================================================================
