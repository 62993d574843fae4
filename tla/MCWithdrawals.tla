--------------------------- MODULE MCWithdrawals ----------------------------
(***************************************************************************)
(* Instances of Withdrawals for TLC.  Executions, foreign withdrawals and  *)
(* transactions are interchangeable; the liveness runs use no symmetry.    *)
(***************************************************************************)
EXTENDS Withdrawals, TLC

Symmetry == Permutations(Execs) \cup Permutations(Foreign) \cup Permutations(Txs)
=============================================================================
