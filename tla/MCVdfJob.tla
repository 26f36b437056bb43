------------------------------ MODULE MCVdfJob ------------------------------
(***************************************************************************)
(* VdfJob for TLC: moduli of four bits, words of two.  The inputs are      *)
(* a residue, a larger number, the modulus itself, a zero divisor whose    *)
(* square is a multiple of the modulus, and none, which draws one at       *)
(* random.                                                                 *)
(***************************************************************************)
EXTENDS VdfJob_proofs

SomeInputs == {<<9, 3>>, <<11, 60>>, <<13, 13>>, <<5, 0>>, <<15, 7>>}
=============================================================================
