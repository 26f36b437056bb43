-------------------------- MODULE RedunMontDataflow --------------------------
(***************************************************************************)
(* The data path of redun_mont.sv with every word vector replaced by its   *)
(* provenance: which job's which iterate it is, at which stage of the      *)
(* squaring, and whether every carry over the word boundary is in it.      *)
(* What the multiplier makes of two operands and an addition term is       *)
(* meaningful only if the three belong together; anything else is junk.    *)
(* So the question "does o_mul hold the next iterate when o_val is high?"  *)
(* becomes one about the schedule alone, for every word size and modulus.  *)
(*                                                                         *)
(* Nondeterminism: whether a product lies on the boundary ("short"),      *)
(* when the input arrives, and when the wrapper resets the squarer.        *)
(***************************************************************************)
EXTENDS RedunMontFsm

CONSTANTS
  MaxSquarings,   \* bound: results per job after which only a reset follows
  MaxJobs         \* bound: jobs started

ASSUME BoundsAssumption == MaxSquarings \in Nat /\ MaxJobs \in Nat

VARIABLES
  i_sq_r, i_sq_r_a, i_sq_r_b, add_term, add_term_r,
  mult_out, mult_out_r, mult_out_equalized_r,
  mult_out_h_equalized_r, mult_out_h_equalized_rr, mult_out_h_equalized_rrr,
  o_mul,
  \* History, not in the code: the job, whether its input has been given,
  \* the results announced for it, the edges since the last of them (or
  \* since the input), whether in the squaring in progress the
  \* low product was redone, and whether a high product of this job hit the
  \* boundary after such a redo.
  job, fed, squarings, elapsed, redone, coincided

data_vars == <<i_sq_r, i_sq_r_a, i_sq_r_b, add_term, add_term_r, mult_out, mult_out_r,
               mult_out_equalized_r, mult_out_h_equalized_r, mult_out_h_equalized_rr,
               mult_out_h_equalized_rrr, o_mul>>
hist_vars == <<job, fed, squarings, elapsed, redone, coincided>>
vars == <<fsm_vars, data_vars, hist_vars>>

(***************************************************************************)
(* Provenance tags.  x: an iterate; sq, m, hi: the three products of a     *)
(* squaring; mp: the exact low half of m*P, whose overflow is the carry    *)
(* that a short hi may lack; F, P: the two constants.                   *)
(***************************************************************************)
Kinds == {"junk", "zero", "F", "P", "x", "sq", "m", "hi", "mp"}
Carries == {"all", "short"}
Tag(kind, j, k, carries) == [kind |-> kind, job |-> j, k |-> k, carries |-> carries]
Tags == [kind : Kinds, job : Nat, k : Nat, carries : Carries]

Junk(carries) == Tag("junk", 0, 0, carries)
Zero   == Tag("zero", 0, 0, "all")
Factor == Tag("F", 0, 0, "all")
Prime  == Tag("P", 0, 0, "all")
X(j, k) == Tag("x", j, k, "all")

DataTypeOK ==
  /\ i_sq_r \in Tags /\ i_sq_r_a \in Tags /\ i_sq_r_b \in Tags
  /\ add_term \in Tags /\ add_term_r \in Tags
  /\ mult_out \in Tags /\ mult_out_r \in Tags /\ mult_out_equalized_r \in Tags
  /\ mult_out_h_equalized_r \in Tags /\ mult_out_h_equalized_rr \in Tags
  /\ mult_out_h_equalized_rrr \in Tags /\ o_mul \in Tags
  /\ job \in Nat /\ squarings \in Nat /\ elapsed \in Nat
  /\ fed \in BOOLEAN /\ redone \in BOOLEAN /\ coincided \in BOOLEAN

TypeOK == FsmTypeOK /\ DataTypeOK

(***************************************************************************)
(* The multiplier.  An operand that may lack a carry spoils a further      *)
(* product; the addition term is added in every mode, so it has to be zero *)
(* except in the high product, where it is the upper half of the square    *)
(* whose lower half made m.                                                *)
(***************************************************************************)
IsSquare(ctl, a, b, add) == ctl = "SQR" /\ a = b /\ a.kind = "x" /\ add = Zero
IsLow(ctl, a, b, add) ==
  ctl = "MUL_L" /\ a.kind = "sq" /\ a.carries = "all" /\ b = Factor /\ add = Zero
IsHigh(ctl, a, b, add) ==
  /\ ctl = "MUL_H" /\ a.kind = "m" /\ a.carries = "all" /\ b = Prime
  /\ add = Tag("sq", a.job, a.k, "all")
IsCarry(ctl, a, b, add) ==
  ctl = "MUL_L" /\ a.kind = "m" /\ a.carries = "all" /\ b = Prime /\ add = Zero

Product(ctl, a, b, add, carries) ==
  IF IsSquare(ctl, a, b, add) THEN Tag("sq", a.job, a.k, carries)
  ELSE IF IsLow(ctl, a, b, add) THEN Tag("m", a.job, a.k, carries)
  ELSE IF IsHigh(ctl, a, b, add) THEN Tag("hi", a.job, a.k, carries)
  ELSE IF IsCarry(ctl, a, b, add) THEN Tag("mp", a.job, a.k, carries)
  ELSE Junk(carries)

\* hmul_out_h: the words of a high product in order are the next iterate.
HighWords(t) == IF t.kind = "hi" /\ t.carries = "all" THEN X(t.job, t.k + 1) ELSE Junk("all")

\* equalize(): sum the low words, so that no carry over the boundary is missing.
Equalize(t) == IF t.kind \in {"sq", "m"} THEN [t EXCEPT !.carries = "all"] ELSE Junk("all")

\* The result words: the high product, plus the carry out of m*P's exact
\* low half if the final carry was called for.
ResultWords ==
  LET h == mult_out_h_equalized_rrr
      l == mult_out_r
      with_carry == mul2_carry /\ l.kind = "mp" /\ l.job = h.job /\ l.k = h.k
  IN  IF h.kind = "hi" /\ (IF mul2_carry THEN with_carry ELSE h.carries = "all")
      THEN X(h.job, h.k + 1) ELSE Junk("all")

\* The multiplier's operands, by mul_in_sel.
Operands ==
  CASE mul_in_sel = "operands"      -> <<i_sq_r_a, i_sq_r_b>>
    [] mul_in_sel = "square_factor" -> <<mult_out, Factor>>
    [] mul_in_sel = "low_p"         -> <<mult_out, Prime>>
    [] mul_in_sel = "high_high"     -> <<HighWords(mult_out), HighWords(mult_out)>>

-----------------------------------------------------------------------------
(***************************************************************************)
(* The registers without reset.  Of several assignments to i_sq_r_a and    *)
(* i_sq_r_b on one edge the textually last wins: the conditions below are  *)
(* in the reverse of the source's order.                                   *)
(***************************************************************************)
HoldForRedo1 == mul1_equalize /\ state_r = "MUL1"
HoldForRedo0 == mul0_equalize /\ state_r = "MUL0"

NextOperands_ResultFirst ==
  IF o_val THEN <<o_mul, o_mul>>
  ELSE IF HoldForRedo1 \/ state = "MUL2" THEN <<Equalize(mult_out_r), Prime>>
  ELSE IF HoldForRedo0 THEN <<Equalize(mult_out_r), Factor>>
  ELSE IF state = "IDLE" THEN <<i_sq_r, i_sq_r>>
  ELSE IF mul2_carry THEN <<ResultWords, ResultWords>>
  ELSE <<i_sq_r_a, i_sq_r_b>>

NextOperands ==
  IF HoldForRedo1 \/ state = "MUL2" THEN <<Equalize(mult_out_r), Prime>>
  ELSE IF HoldForRedo0 THEN <<Equalize(mult_out_r), Factor>>
  ELSE IF o_val THEN <<o_mul, o_mul>>
  ELSE IF state = "IDLE" THEN <<i_sq_r, i_sq_r>>
  ELSE IF mul2_carry THEN <<ResultWords, ResultWords>>
  ELSE <<i_sq_r_a, i_sq_r_b>>

\* The upper half of a square, for the high product to add.
UpperHalf(t) == IF t.kind = "sq" THEN t ELSE Junk("all")

NextAddTerm ==
  IF mul2_equalize THEN Zero
  ELSE IF mul1_equalize THEN add_term_r
  ELSE IF mul0_equalize
       THEN IF state_r = "MUL1" THEN UpperHalf(mult_out_equalized_r) ELSE Zero
  ELSE IF state = "MUL0" THEN UpperHalf(mult_out) ELSE Zero

DataClock(i_sq) ==
  /\ i_sq_r'   = i_sq
  /\ i_sq_r_a' = NextOperands[1]
  /\ i_sq_r_b' = NextOperands[2]
  /\ add_term' = NextAddTerm
  /\ add_term_r' = add_term
  /\ mult_out_r' = mult_out
  /\ mult_out_equalized_r' = Equalize(mult_out_r)
  /\ mult_out_h_equalized_r'   = mult_out_r
  /\ mult_out_h_equalized_rr'  = mult_out_h_equalized_r
  /\ mult_out_h_equalized_rrr' = mult_out_h_equalized_rr
  /\ o_mul' = ResultWords

\* The multiplier's registered output; carries is the product's own doing.
Multiply(carries) ==
  mult_out' = Product(mult_ctl, Operands[1], Operands[2], add_term, carries)

-----------------------------------------------------------------------------
\* A product may lack a carry only if its top word is on the boundary.
bndry == mult_out.carries = "short"

History ==
  /\ squarings' = IF o_val_d = 4 THEN squarings + 1 ELSE squarings
  /\ elapsed' = IF o_val_d = 4 \/ ~fed THEN 0 ELSE elapsed + 1
  /\ redone' = ((redone \/ Hit("MUL1", bndry)) /\ state # "MUL0")
  /\ coincided' = (coincided \/ (redone /\ Hit("MUL2", bndry)))
  /\ UNCHANGED job

\* An edge of clk_int.
Edge(feed, carries) ==
  /\ fed' = (fed \/ feed)
  /\ FsmClock(feed, bndry)
  /\ FsmSelect
  /\ DataClock(IF feed THEN X(job, 0) ELSE Junk("all"))
  /\ Multiply(carries)
  /\ History

\* The input word arrives at most once after a reset.
Clock ==
  /\ squarings < MaxSquarings
  /\ \E feed \in BOOLEAN, carries \in Carries : (feed => ~fed) /\ Edge(feed, carries)

\* An edge on which i_rst is high: the wrapper ends the job.
Reset ==
  /\ job < MaxJobs
  /\ FsmReset
  /\ FsmSelect
  /\ DataClock(Junk("all"))
  /\ mult_out' = Zero
  /\ job' = job + 1
  /\ squarings' = 0 /\ elapsed' = 0
  /\ fed' = FALSE /\ redone' = FALSE /\ coincided' = FALSE

Init ==
  /\ FsmInit
  /\ i_sq_r = Junk("all") /\ i_sq_r_a = Junk("all") /\ i_sq_r_b = Junk("all")
  /\ add_term = Zero /\ add_term_r = Zero
  /\ mult_out = Zero /\ mult_out_r = Zero /\ mult_out_equalized_r = Junk("all")
  /\ mult_out_h_equalized_r = Zero /\ mult_out_h_equalized_rr = Zero
  /\ mult_out_h_equalized_rrr = Zero
  /\ o_mul = Junk("all")
  /\ job = 0 /\ squarings = 0 /\ elapsed = 0
  /\ fed = FALSE /\ redone = FALSE /\ coincided = FALSE

Next == Clock \/ Reset

Spec == Init /\ [][Next]_vars

\* The squarings in which no high product hits the boundary after a redo.
UncoincidedSpec == Init /\ [][Next /\ ~coincided']_vars

-----------------------------------------------------------------------------
(***************************************************************************)
(* What redun_mont_tb.sv asserts of every result (its line 79), in terms   *)
(* of provenance: the n-th o_val of a job comes with the n-th iterate.     *)
(* Nothing is lost, repeated, announced early or taken from an earlier     *)
(* job, whatever redos happen on the way.                                  *)
(***************************************************************************)
EveryResultIsNextIterate == o_val => o_mul = X(job, squarings)

(* The same, up to the first squaring in which the high product hits the   *)
(* boundary after the low product has been redone: then i_sq_r_a no longer *)
(* holds the low product when the final carry is computed from it.         *)
ResultIsNextIterate == ~coincided => EveryResultIsNextIterate

(* Results are never closer than three edges (a redo overwrites the early  *)
(* announcement of the product it replaces), so that the lanes of the      *)
(* output FIFO see single writes, and never further apart than the longest *)
(* chain of redos: no combination of the three flags makes the machine     *)
(* circle.  elapsed is read on the edge before o_val rises.                *)
ShortestSquaring == 2
LongestSquaring == 12
Paced == /\ elapsed <= LongestSquaring
         /\ o_val_d = 4 => elapsed >= ShortestSquaring

(* Seen at its ports the squarer implements IteratingSquarer, which MsuSystem  *)
(* takes in its place: successive squares of the input, none of them after *)
(* a reset, paced as above.                                                *)
PortValue(t) == [job |-> t.job, k |-> IF t.kind = "x" THEN t.k ELSE 0]
Squarer ==
  INSTANCE IteratingSquarer WITH
    MinGap <- ShortestSquaring + 1, MaxGap <- LongestSquaring + 1,
    Jobs <- 0 .. MaxJobs,
    running <- fed, x <- IF fed THEN PortValue(X(job, squarings)) ELSE PortValue(Zero),
    since <- elapsed,
    o_mul <- PortValue(IF o_val THEN o_mul ELSE Zero)

IteratesSquares == Squarer!SquarerSpec
=============================================================================
