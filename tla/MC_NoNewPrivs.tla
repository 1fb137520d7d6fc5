-------------------------- MODULE MC_NoNewPrivs ---------------------------
(* Model-checking instance of NoNewPrivs: every combination of the known  *)
(* kernel faults, the conforming kernel too, from either initial flag.     *)
EXTENDS NoNewPrivs

MCBugs == KnownBugs

=============================================================================
