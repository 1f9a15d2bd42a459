---------------------------- MODULE MCMetricsHub -----------------------------
(* Instances of MetricsHub for TLC. *)
EXTENDS MetricsHub, TLC

Symmetry == Permutations(Client)
==============================================================================
