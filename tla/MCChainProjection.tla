------------------------- MODULE MCChainProjection --------------------------
(***************************************************************************)
(* Two holdings.  t0 pays h1; t1 spends that coin, pays h2 and returns     *)
(* change; t2 is a replacement of t1 that pays a stranger.                 *)
(***************************************************************************)
EXTENDS ChainProjection, TLC

CONSTANTS t0, t1, t2, a, b, c, d1, d2, h1, h2

MCInputs       == t0 :> {} @@ t1 :> {a} @@ t2 :> {a}
MCCreator      == a :> t0 @@ b :> t1 @@ c :> t1
MCValue        == a :> 5 @@ b :> 2 @@ c :> 3
MCAddress      == a :> 1 @@ b :> 3 @@ c :> 2
MCDescriptorOf == 1 :> d1 @@ 2 :> d1 @@ 3 :> d2 @@ 4 :> d2
MCChange       == {2}
MCHoldingOf    == d1 :> h1 @@ d2 :> h2
MCPrimary      == h1 :> d1 @@ h2 :> d2
=============================================================================
