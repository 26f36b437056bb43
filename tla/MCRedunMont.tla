----------------------------- MODULE MCRedunMont -----------------------------
(***************************************************************************)
(* RedunMont on four words of four bits: R = 2^16, and every input that    *)
(* fits in three words.  The last two sets hold one input each: one whose  *)
(* first squaring hits the boundary in the low and then in the high        *)
(* product, and 2^8, whose square is R.                                    *)
(***************************************************************************)
EXTENDS RedunMont

AllInputs  == 0 .. Base^(NUM_WRDS - 1) - 1
SomeInputs == {2, 849}
CoincidingInput == {849}
SquareRootOfR   == {2^((NUM_WRDS * WRD_BITS) \div 2)}
=============================================================================
