----------------------------- MODULE MCPayments -----------------------------
(***************************************************************************)
(* Instances of Payments for TLC.  Requests are interchangeable until one  *)
(* is built, and so are holdings; the liveness runs use no symmetry.       *)
(***************************************************************************)
EXTENDS Payments, TLC

Symmetry == Permutations(Requests) \cup Permutations(Holdings) \cup Permutations(Execs)
=============================================================================
