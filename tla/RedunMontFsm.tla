---------------------------- MODULE RedunMontFsm ----------------------------
(***************************************************************************)
(* The control of redun_mont.sv: the one-hot state machine that schedules  *)
(* the three products of a Montgomery squaring (square, low product by     *)
(* MONT_FACTOR, high product by P) on one multiplier, the three "equalize" *)
(* redo paths, and the delay line that raises o_val.                       *)
(*                                                                         *)
(* The data path enters only through bndry: does the top word of the       *)
(* product now at the multiplier's output lie so close to 2^WRD_BITS that  *)
(* a carry may have been missed?  RedunMontDataflow chooses bndry freely;  *)
(* RedunMont computes it from the words.                                   *)
(***************************************************************************)
EXTENDS Naturals

VARIABLES
  state, state_r,                \* state_index_t, and its one-cycle delay
  mult_ctl,                      \* what the multiplier computes this cycle
  mul_in_sel,                    \* where its operands come from this cycle
  mul0_equalize, mul1_equalize, mul2_equalize, mul2_carry,
  o_val_d,                       \* 3-bit delay line, one-hot or 0
  o_val, i_val_r

fsm_regs == <<state, state_r, mul0_equalize, mul1_equalize, mul2_equalize,
              mul2_carry, o_val_d, o_val, i_val_r>>
fsm_vars == <<fsm_regs, mult_ctl, mul_in_sel>>

States == {"IDLE", "START", "MUL0", "MUL1", "MUL2"}
Ctls   == {"SQR", "MUL_L", "MUL_H"}

\* The four settings of the one-hot mul_in_sel, by what they select:
\* [0] the operand registers, [1] the square and MONT_FACTOR,
\* [2] the low product and P, [3] the high product squared.
Sels == {"operands", "square_factor", "low_p", "high_high"}

FsmTypeOK ==
  /\ state \in States /\ state_r \in States
  /\ mult_ctl \in Ctls /\ mul_in_sel \in Sels
  /\ mul0_equalize \in BOOLEAN /\ mul1_equalize \in BOOLEAN
  /\ mul2_equalize \in BOOLEAN /\ mul2_carry \in BOOLEAN
  /\ o_val_d \in {0, 1, 2, 4} /\ o_val \in BOOLEAN /\ i_val_r \in BOOLEAN

(***************************************************************************)
(* Where the machine goes next, with the multiplier mode and the operand   *)
(* source registered on the same edge.                                     *)
(***************************************************************************)
Arc(s, ctl, sel) == [state |-> s, ctl |-> ctl, sel |-> sel]

IdleArc  == Arc(IF i_val_r THEN "START" ELSE "IDLE", "SQR", "operands")
StartArc == IF mul2_carry THEN Arc("START", "SQR", "operands")
                          ELSE Arc("MUL0", "MUL_L", "square_factor")
Mul0Arc  == IF mul2_equalize THEN Arc("MUL2", "MUL_L", "operands")
                             ELSE Arc("MUL1", "MUL_H", "low_p")
Mul1Arc  == IF mul0_equalize THEN Arc("MUL0", "MUL_L", "operands")
                             ELSE Arc("MUL2", "SQR", "high_high")
Mul2Arc  == IF mul1_equalize THEN Arc("MUL1", "MUL_H", "operands")
            ELSE IF mul2_equalize THEN Arc("START", "SQR", "square_factor")
            ELSE Arc("MUL0", "MUL_L", "square_factor")

NextArc == CASE state = "IDLE"  -> IdleArc
             [] state = "START" -> StartArc
             [] state = "MUL0"  -> Mul0Arc
             [] state = "MUL1"  -> Mul1Arc
             [] state = "MUL2"  -> Mul2Arc

(***************************************************************************)
(* A boundary hit in a stage raises that stage's flag, unless a redo or    *)
(* the final carry is already under way; the flag falls again two states   *)
(* later, when state_r shows that the redo has been issued.                *)
(***************************************************************************)
Equalizing == mul0_equalize \/ mul1_equalize \/ mul2_equalize \/ mul2_carry
Hit(s, bndry) == state = s /\ bndry /\ ~Equalizing

\* The delay line: a high product latched in state_r = MUL2 is announced
\* three cycles later; the second one of a redo overwrites the first.
\* (ResultLatched_AnyMul2: as if a product with a redo pending were announced
\* like any other.  Shifted_Unbounded: as if the line had no end.)
ResultLatched_AnyMul2 == state_r = "MUL2"
ResultLatched == state_r = "MUL2" /\ (~mul2_carry \/ mul2_equalize)
Shifted_Unbounded == 2 * o_val_d
Shifted == IF o_val_d = 4 THEN 0 ELSE 2 * o_val_d

\* The registers of "Logic requiring reset", on an edge without i_rst.
FsmClock(i_val, bndry) ==
  /\ state'   = NextArc.state
  /\ state_r' = state
  /\ i_val_r' = i_val
  /\ o_val'   = (o_val_d = 4)
  /\ o_val_d' = IF ResultLatched THEN 1 ELSE Shifted
  /\ mul2_carry' = (o_val_d # 4 /\ (mul2_carry \/ mul2_equalize))
  /\ mul0_equalize' = (state_r # "MUL1" /\ (mul0_equalize \/ Hit("MUL0", bndry)))
  /\ mul1_equalize' = (state_r # "MUL2" /\ (mul1_equalize \/ Hit("MUL1", bndry)))
  /\ mul2_equalize' = (state_r # "MUL0" /\ (mul2_equalize \/ Hit("MUL2", bndry)))

\* The same registers while i_rst is high (the reset is asynchronous).
FsmReset ==
  /\ state' = "IDLE" /\ state_r' = "IDLE"
  /\ o_val_d' = 0 /\ o_val' = FALSE /\ i_val_r' = FALSE
  /\ mul0_equalize' = FALSE /\ mul1_equalize' = FALSE
  /\ mul2_equalize' = FALSE /\ mul2_carry' = FALSE

\* mult_ctl and mul_in_sel have no reset: they follow the state on every edge.
FsmSelect ==
  /\ mult_ctl' = NextArc.ctl
  /\ mul_in_sel' = NextArc.sel

\* Where a reset held for a few cycles leaves the control.
FsmInit ==
  /\ state = "IDLE" /\ state_r = "IDLE"
  /\ mult_ctl = "SQR" /\ mul_in_sel = "operands"
  /\ o_val_d = 0 /\ o_val = FALSE /\ i_val_r = FALSE
  /\ mul0_equalize = FALSE /\ mul1_equalize = FALSE
  /\ mul2_equalize = FALSE /\ mul2_carry = FALSE
=============================================================================
