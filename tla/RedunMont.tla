------------------------------ MODULE RedunMont ------------------------------
(***************************************************************************)
(* redun_mont.sv with its words: repeated Montgomery squaring in redundant *)
(* representation, clock edge by clock edge, together with the scoreboard  *)
(* of its test bench (redun_mont_tb.sv), which squares the input alongside *)
(* with fe_mul_mont.  The control is that of RedunMontFsm; here the        *)
(* boundary conditions come from the words themselves.                     *)
(***************************************************************************)
EXTENDS RedunMontFsm, MultiModeMultiplier

CONSTANTS
  Inputs,           \* values squared by the first job, in Montgomery form
  RestartInputs,    \* values squared by the job that follows a reset
  MaxSquarings      \* bound: results per job

ASSUME InputAssumption == /\ Inputs \subseteq 0 .. Base^(NUM_WRDS - 1) - 1
                          /\ RestartInputs \subseteq 0 .. Base^(NUM_WRDS - 1) - 1

VARIABLES
  i_sq_r, i_sq_r_a, i_sq_r_b, add_term, add_term_r,
  mult_out, mult_out_r, mult_out_equalized_r,
  mult_out_h_equalized_r, mult_out_h_equalized_rr, mult_out_h_equalized_rrr,
  o_mul,
  \* The test bench: the next input to drive (none if negative), the value
  \* the last result should have had, and the number of results.
  in, a_, i,
  \* History: jobs so far, whether some square of this job had a zero lower
  \* half, whether this squaring's low product was redone, and whether its
  \* high product hit the boundary after that.
  job, low_zero, redone, coincided

data_vars == <<i_sq_r, i_sq_r_a, i_sq_r_b, add_term, add_term_r, mult_out, mult_out_r,
               mult_out_equalized_r, mult_out_h_equalized_r, mult_out_h_equalized_rr,
               mult_out_h_equalized_rrr, o_mul>>
test_vars == <<in, a_, i, job, low_zero, redone, coincided>>
vars == <<fsm_vars, data_vars, test_vars>>

FieldValue == 0 .. R - 1

TypeOK ==
  /\ FsmTypeOK
  /\ i_sq_r \in Redun0 /\ i_sq_r_a \in Redun0 /\ i_sq_r_b \in Redun0
  /\ add_term \in Redun0 /\ add_term_r \in Redun0 /\ o_mul \in Redun0
  /\ mult_out \in Redun1 /\ mult_out_r \in Redun1 /\ mult_out_equalized_r \in Redun1
  /\ mult_out_h_equalized_r \in FieldValue /\ mult_out_h_equalized_rr \in FieldValue
  /\ mult_out_h_equalized_rrr \in FieldValue
  /\ in \in FieldValue \cup {-1} /\ a_ \in FieldValue /\ i \in 0 .. MaxSquarings
  /\ job \in {0, 1} /\ low_zero \in BOOLEAN /\ redone \in BOOLEAN /\ coincided \in BOOLEAN

-----------------------------------------------------------------------------
ZeroWords   == to_redun(0)
FactorWords == to_redun(MONT_FACTOR)
PrimeWords  == to_redun(P)

LowWords(w)  == [k \in WordIdx |-> w[k]]
UpperWords(w) == [k \in WordIdx |-> w[NUM_WRDS + k]]
HighWords(w) == [k \in WordIdx |-> w[NUM_WRDS - 1 - k]]      \* hmul_out_h

\* The top word before the boundary is within BOUNDARY_THRESHOLD of its limit.
TopWord == IF state = "MUL2" THEN mult_out[NUM_WRDS] ELSE mult_out[NUM_WRDS - 1]
bndry == TopWord >= Base - BOUNDARY_THRESHOLD

\* The value of the high product, three edges old, and the carry out of the
\* exact low half of m*P.
mult_out_l_equalized == IF mul2_carry THEN from_redun(LowWords(mult_out_r)) \div R ELSE 0
ResultWords ==
  [to_redun(mult_out_h_equalized_rrr) EXCEPT ![0] = @ + (mult_out_l_equalized % Base)]

Operands ==
  CASE mul_in_sel = "operands"      -> <<i_sq_r_a, i_sq_r_b>>
    [] mul_in_sel = "square_factor" -> <<LowWords(mult_out), FactorWords>>
    [] mul_in_sel = "low_p"         -> <<LowWords(mult_out), PrimeWords>>
    [] mul_in_sel = "high_high"     -> <<HighWords(mult_out), HighWords(mult_out)>>

\* In the high product, R - T mod R from the lower half always carries one.
add_term_p1 ==
  [add_term EXCEPT ![0] = (@ + (IF mult_ctl = "MUL_H" THEN 1 ELSE 0)) % (2 * Base)]

-----------------------------------------------------------------------------
HoldForRedo1 == mul1_equalize /\ state_r = "MUL1"
HoldForRedo0 == mul0_equalize /\ state_r = "MUL0"
equalized == LowWords(equalize(mult_out_r))

NextOperands ==
  IF HoldForRedo1 \/ state = "MUL2" THEN <<equalized, PrimeWords>>
  ELSE IF HoldForRedo0 THEN <<equalized, FactorWords>>
  ELSE IF o_val THEN <<o_mul, o_mul>>
  ELSE IF state = "IDLE" THEN <<i_sq_r, i_sq_r>>
  ELSE IF mul2_carry THEN <<ResultWords, ResultWords>>
  ELSE <<i_sq_r_a, i_sq_r_b>>

\* As if a redone low product still added the upper half of the first square.
NextAddTerm_Unequalized ==
  IF mul2_equalize THEN ZeroWords
  ELSE IF mul1_equalize THEN add_term_r
  ELSE IF mul0_equalize
       THEN IF state_r = "MUL1" THEN add_term_r ELSE ZeroWords
  ELSE IF state = "MUL0" THEN UpperWords(mult_out) ELSE ZeroWords

NextAddTerm ==
  IF mul2_equalize THEN ZeroWords
  ELSE IF mul1_equalize THEN add_term_r
  ELSE IF mul0_equalize
       THEN IF state_r = "MUL1" THEN UpperWords(mult_out_equalized_r) ELSE ZeroWords
  ELSE IF state = "MUL0" THEN UpperWords(mult_out) ELSE ZeroWords

DataClock(i_sq) ==
  /\ i_sq_r'   = i_sq
  /\ i_sq_r_a' = NextOperands[1]
  /\ i_sq_r_b' = NextOperands[2]
  /\ add_term' = NextAddTerm
  /\ add_term_r' = add_term
  /\ mult_out_r' = mult_out
  /\ mult_out_equalized_r' = equalize(mult_out_r)
  /\ mult_out_h_equalized_r'   = from_redun(HighWords(mult_out_r)) % R
  /\ mult_out_h_equalized_rr'  = mult_out_h_equalized_r
  /\ mult_out_h_equalized_rrr' = mult_out_h_equalized_rr
  /\ o_mul' = ResultWords

Multiply == mult_out' = Multiplied(mult_ctl, Operands[1], Operands[2], add_term_p1)

-----------------------------------------------------------------------------
\* The test bench drives the input once, and on every result squares its
\* own copy of the value.
Expected == fe_mul_mont(a_, a_)

Score ==
  /\ in' = -1
  /\ IF o_val_d = 4
     THEN /\ a_' = Expected /\ i' = i + 1
          /\ low_zero' = (low_zero \/ (a_ * a_) % R = 0)
     ELSE /\ a_' = (IF in >= 0 THEN in ELSE a_)
          /\ UNCHANGED <<i, low_zero>>
  /\ redone' = ((redone \/ Hit("MUL1", bndry)) /\ state # "MUL0")
  /\ coincided' = (coincided \/ (redone /\ Hit("MUL2", bndry)))
  /\ UNCHANGED job

Clock ==
  /\ i < MaxSquarings
  /\ FsmClock(in >= 0, bndry)
  /\ FsmSelect
  /\ DataClock(IF in >= 0 THEN to_redun(in) ELSE ZeroWords)
  /\ Multiply
  /\ Score

\* msu resets the squarer once it has its last result, and gives it the next
\* job's input; the registers without reset still hold the old job's words.
Reset ==
  /\ job = 0 /\ i > 0
  /\ FsmReset
  /\ FsmSelect
  /\ DataClock(ZeroWords)
  /\ mult_out' = [k \in DoubleIdx |-> 0]
  /\ in' \in RestartInputs
  /\ job' = 1 /\ a_' = 0 /\ i' = 0
  /\ low_zero' = FALSE /\ redone' = FALSE /\ coincided' = FALSE

Init ==
  /\ FsmInit
  /\ i_sq_r = ZeroWords /\ i_sq_r_a = ZeroWords /\ i_sq_r_b = ZeroWords
  /\ add_term = ZeroWords /\ add_term_r = ZeroWords
  /\ mult_out = [k \in DoubleIdx |-> 0] /\ mult_out_r = [k \in DoubleIdx |-> 0]
  /\ mult_out_equalized_r = [k \in DoubleIdx |-> 0]
  /\ mult_out_h_equalized_r = 0 /\ mult_out_h_equalized_rr = 0
  /\ mult_out_h_equalized_rrr = 0
  /\ o_mul = ZeroWords
  /\ in \in Inputs
  /\ a_ = 0 /\ i = 0
  /\ job = 0 /\ low_zero = FALSE /\ redone = FALSE /\ coincided = FALSE

Next == Clock \/ Reset

Spec == Init /\ [][Next]_vars

-----------------------------------------------------------------------------
(***************************************************************************)
(* redun_mont_tb.sv, line 79: every result equals the Montgomery square of *)
(* the previous one.                                                       *)
(***************************************************************************)
ResultIsSquare == o_val => from_redun(o_mul) = a_

(* It does, unless a square's lower half was zero (the high product adds   *)
(* one for the carry out of R, and zero has none) or a high product hit    *)
(* the boundary after its low product had been redone.                     *)
ResultIsSquareOrKnownCase == ~low_zero /\ ~coincided => ResultIsSquare
=============================================================================
