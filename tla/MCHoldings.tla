------------------------------- MODULE MCHoldings ------------------------------
(* Two holdings; a single-key text, a multisig one, and one of raw keys,   *)
(* which no creation accepts.                                              *)
EXTENDS Holdings, TLC

CONSTANTS single, multi, raw

Shape(form, clause, keys) ==
    [form |-> form, multi |-> clause, lock |-> "none", branch |-> FALSE, lsp |-> FALSE,
     multipath |-> FALSE, origin |-> FALSE, required |-> IF clause THEN 2 ELSE 0,
     xpubs |-> keys]

MCShapeOf == [t \in {single, multi, raw} |->
                IF t = single THEN Shape("WPKH", FALSE, 0)
                ELSE Shape("WSH_SORTED_MULTI", TRUE, IF t = multi THEN 2 ELSE 1)]

MCSymmetry == Permutations(Ids) \union Permutations(Items)
=============================================================================
