---------------------------- MODULE MCMsuSystem ----------------------------
(***************************************************************************)
(* MsuSystem with two-bit counts: one squaring, two, two across the wrap   *)
(* of the count, and equal counts, which go all the way round.             *)
(***************************************************************************)
EXTENDS MsuSystem_proofs

SomeRequests == {<<0, 1>>, <<1, 3>>, <<2, 0>>, <<3, 1>>, <<2, 2>>}
FewRequests  == {<<0, 1>>, <<2, 0>>}
=============================================================================
