--------------------------- MODULE MC_PDeathSig ---------------------------
(* Model-checking instance of PDeathSig: every combination of the known  *)
(* kernel faults, the conforming kernel too.                              *)
EXTENDS PDeathSig

MCBugs == KnownBugs

=============================================================================
