-------------------------- MODULE MCSweepPolicies ---------------------------
(***************************************************************************)
(* The instance of SweepPolicies for TLC.  It checks liveness, so it uses  *)
(* no symmetry; one of the two policies has a long-term Vault as source.   *)
(***************************************************************************)
EXTENDS SweepPolicies, TLC
=============================================================================
