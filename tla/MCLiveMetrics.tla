---------------------------- MODULE MCLiveMetrics ----------------------------
(* Instances of LiveMetrics for TLC. *)
EXTENDS LiveMetrics
==============================================================================
