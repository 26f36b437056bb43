---------------------- MODULE RedunMontDataflow_proofs ----------------------
(***************************************************************************)
(* For any number of jobs and squarings: as long as no high product hits   *)
(* the boundary after its low product was redone, every o_val comes with   *)
(* the next iterate.                                                       *)
(*                                                                         *)
(* The property is not inductive: o_mul is right because the right high    *)
(* product stood three edges earlier at the multiplier, which is right     *)
(* because of what its operands and the addition term held then.  The      *)
(* inductive invariant says, for each place the schedule can be in while   *)
(* it computes iterate c + 1, what the registers that are still to be read *)
(* hold, and which earlier results are on their way to o_val.              *)
(***************************************************************************)
EXTENDS RedunMontDataflow, TLAPS

NoFlags == ~mul0_equalize /\ ~mul1_equalize /\ ~mul2_equalize /\ ~mul2_carry

\* The products of squaring c, with every carry and (on the boundary) short.
Sq(c) == Tag("sq", job, c, "all")
M(c)  == Tag("m", job, c, "all")
Hi(c) == Tag("hi", job, c, "all")
SqHit(c) == Tag("sq", job, c, "short")
MHit(c)  == Tag("m", job, c, "short")
HiHit(c) == Tag("hi", job, c, "short")

Issued(ctl, sel) == mult_ctl = ctl /\ mul_in_sel = sel

\* Results on the way to o_val.  Those of two squarings at most: c - 1 and,
\* only in the first cycle of a square, c - 2.
NothingPending(c) == o_val_d = 0 /\ c = squarings
Pending1(c) == o_val_d = 1 /\ c = squarings + 1 /\ mult_out_h_equalized_r = Hi(squarings)
Pending2(c) == o_val_d = 2 /\ c = squarings + 1 /\ mult_out_h_equalized_rr = Hi(squarings)
Pending4(c) == o_val_d = 4 /\ c = squarings + 1 /\ mult_out_h_equalized_rrr = Hi(squarings)

\* The job's input has not come through yet.
AtIdle ==
  /\ state = "IDLE" /\ state_r = "IDLE" /\ NoFlags
  /\ o_val_d = 0 /\ squarings = 0 /\ ~redone
  /\ i_val_r => i_sq_r = X(job, 0)

\* Iterate c is at the multiplier, to be squared.
AtStart(c) ==
  /\ state = "START" /\ state_r \in {"IDLE", "START"} /\ NoFlags /\ ~redone
  /\ Issued("SQR", "operands")
  /\ i_sq_r_a = X(job, c) /\ i_sq_r_b = X(job, c) /\ add_term = Zero
  /\ NothingPending(c)

\* Its square is out.
AtSquare(c) ==
  /\ state = "MUL0" /\ NoFlags
  /\ Issued("MUL_L", "square_factor")
  /\ mult_out.kind = "sq" /\ mult_out = Tag("sq", job, c, mult_out.carries) /\ add_term = Zero
  /\ \/ state_r = "START" /\ NothingPending(c)
     \/ /\ state_r = "MUL2" /\ o_val_d \in {0, 2}
        /\ c = squarings + 1 /\ mult_out_r = Hi(squarings)
     \/ /\ state_r = "MUL2" /\ o_val_d = 4
        /\ c = squarings + 2 /\ mult_out_r = Hi(squarings + 1)
        /\ mult_out_h_equalized_rrr = Hi(squarings)

\* The square was on the boundary: its low product is dropped, ...
AtSquareHit(c) ==
  /\ state = "MUL1" /\ state_r = "MUL0" /\ mul0_equalize
  /\ ~mul1_equalize /\ ~mul2_equalize /\ ~mul2_carry /\ ~redone
  /\ mult_out_r = SqHit(c)
  /\ NothingPending(c) \/ Pending1(c)

\* ... and the equalized square is multiplied by MONT_FACTOR again.
AtSquareRedo(c) ==
  /\ state = "MUL0" /\ state_r = "MUL1" /\ mul0_equalize
  /\ ~mul1_equalize /\ ~mul2_equalize /\ ~mul2_carry
  /\ Issued("MUL_L", "operands")
  /\ i_sq_r_a = Sq(c) /\ i_sq_r_b = Factor /\ add_term = Zero
  /\ mult_out_equalized_r = Sq(c)
  /\ NothingPending(c) \/ Pending2(c)

\* The low product is out, the upper half of its square waits to be added.
AtLow(c) ==
  /\ state = "MUL1" /\ state_r = "MUL0" /\ NoFlags /\ ~redone
  /\ Issued("MUL_H", "low_p")
  /\ mult_out.kind = "m" /\ mult_out = Tag("m", job, c, mult_out.carries) /\ add_term = Sq(c)
  /\ NothingPending(c) \/ Pending1(c) \/ Pending4(c)

\* The low product was on the boundary: the high product is dropped, ...
AtLowHit(c) ==
  /\ state = "MUL2" /\ state_r = "MUL1" /\ mul1_equalize /\ redone
  /\ ~mul0_equalize /\ ~mul2_equalize /\ ~mul2_carry
  /\ mult_out_r = MHit(c) /\ add_term_r = Sq(c) /\ add_term = Zero
  /\ NothingPending(c) \/ Pending2(c)

\* ... and the equalized low product is multiplied by P again.
AtLowRedo(c) ==
  /\ state = "MUL1" /\ state_r = "MUL2" /\ mul1_equalize /\ redone
  /\ ~mul0_equalize /\ ~mul2_equalize /\ ~mul2_carry
  /\ Issued("MUL_H", "operands")
  /\ i_sq_r_a = M(c) /\ i_sq_r_b = Prime
  /\ add_term = Sq(c) /\ add_term_r = Zero
  /\ NothingPending(c) \/ Pending4(c)

\* The high product is out.  After a redo, o_val_d still counts for the one
\* that was dropped, and mult_out_r is no longer the low product.
AtHigh(c) ==
  /\ state = "MUL2" /\ state_r = "MUL1" /\ NoFlags
  /\ Issued("SQR", "high_high")
  /\ mult_out.kind = "hi" /\ mult_out = Tag("hi", job, c, mult_out.carries) /\ add_term = Zero
  /\ \/ redone /\ o_val_d = 1 /\ c = squarings
     \/ /\ ~redone /\ mult_out_r = M(c)
        /\ NothingPending(c) \/ Pending2(c)

\* The high product was on the boundary: the exact low half of m*P is on
\* its way, while the high product goes down the delay line.
AtHighHit(c) ==
  /\ state = "MUL0" /\ state_r = "MUL2" /\ mul2_equalize /\ ~o_val
  /\ ~mul0_equalize /\ ~mul1_equalize /\ ~mul2_carry
  /\ mult_out_r = HiHit(c)
  /\ i_sq_r_a = M(c) /\ i_sq_r_b = Prime
  /\ NothingPending(c) \/ Pending4(c)

AtCarry1(c) ==
  /\ state = "MUL2" /\ state_r = "MUL0" /\ mul2_equalize
  /\ ~mul0_equalize /\ ~mul1_equalize /\ ~redone
  /\ Issued("MUL_L", "operands")
  /\ i_sq_r_a = M(c) /\ i_sq_r_b = Prime /\ add_term = Zero
  /\ o_val_d = 1 /\ c = squarings /\ mult_out_h_equalized_r = HiHit(c)

AtCarry2(c) ==
  /\ state = "START" /\ state_r = "MUL2" /\ mul2_carry /\ ~o_val
  /\ ~mul0_equalize /\ ~mul1_equalize /\ ~mul2_equalize /\ ~redone
  /\ mult_out.kind = "mp" /\ mult_out = Tag("mp", job, c, mult_out.carries)
  /\ o_val_d = 2 /\ c = squarings /\ mult_out_h_equalized_rr = HiHit(c)

AtCarry3(c) ==
  /\ state = "START" /\ state_r = "START" /\ mul2_carry /\ ~o_val
  /\ ~mul0_equalize /\ ~mul1_equalize /\ ~mul2_equalize /\ ~redone
  /\ mult_out_r.kind = "mp" /\ mult_out_r = Tag("mp", job, c, mult_out_r.carries)
  /\ o_val_d = 4 /\ c = squarings /\ mult_out_h_equalized_rrr = HiHit(c)

Squaring(c) ==
  \/ AtStart(c)
  \/ AtSquare(c) \/ AtSquareHit(c) \/ AtSquareRedo(c)
  \/ AtLow(c) \/ AtLowHit(c) \/ AtLowRedo(c)
  \/ AtHigh(c) \/ AtHighHit(c)
  \/ AtCarry1(c) \/ AtCarry2(c) \/ AtCarry3(c)

(* Until a high product hits the boundary after a redo, every o_val comes  *)
(* with the next iterate, and the squarer is at one of these places.       *)
Schedule == ~coincided =>
  /\ EveryResultIsNextIterate
  /\ AtIdle \/ \E c \in squarings .. squarings + 2 : Squaring(c)

-----------------------------------------------------------------------------
(***************************************************************************)
(* Type correctness.                                                       *)
(***************************************************************************)
\* A tag built from parts of the right kind is a tag.
LEMMA TagType ==
  ASSUME NEW kind \in Kinds, NEW j \in Nat, NEW k \in Nat, NEW carries \in Carries
  PROVE  Tag(kind, j, k, carries) \in Tags
BY DEF Tag, Tags

\* So are the constants of the data path, junk, and the iterates.
LEMMA ConstantTags ==
  /\ Zero \in Tags /\ Factor \in Tags /\ Prime \in Tags
  /\ Junk("all") \in Tags
  /\ \A carries \in Carries : Junk(carries) \in Tags
  /\ \A j, k \in Nat : X(j, k) \in Tags
<1>1. "all" \in Carries /\ {"zero", "F", "P", "junk", "x"} \subseteq Kinds
  BY DEF Carries, Kinds
<1> QED BY <1>1, TagType DEF Zero, Factor, Prime, Junk, X

\* What the data path computes from tags are tags.
LEMMA ProductType ==
  ASSUME NEW ctl, NEW a \in Tags, NEW b, NEW add, NEW carries \in Carries
  PROVE  Product(ctl, a, b, add, carries) \in Tags
BY TagType, ConstantTags DEF Product, Tags, Kinds

\* The rearrangements of a product's words (in order, equalized, upper
\* half) yield tags.
LEMMA HelperType ==
  ASSUME NEW t \in Tags
  PROVE  HighWords(t) \in Tags /\ Equalize(t) \in Tags /\ UpperHalf(t) \in Tags
<1>1. t.job \in Nat /\ t.k + 1 \in Nat
  BY DEF Tags
<1>2. HighWords(t) \in Tags
  BY <1>1, ConstantTags DEF HighWords
<1>3. Equalize(t) \in Tags
  BY ConstantTags DEF Equalize, Tags, Carries
<1>4. UpperHalf(t) \in Tags
  BY ConstantTags DEF UpperHalf
<1> QED BY <1>2, <1>3, <1>4

\* So does the delay line's last stage, with or without the final carry, ...
LEMMA ResultType == TypeOK => ResultWords \in Tags
<1> SUFFICES ASSUME TypeOK PROVE ResultWords \in Tags
  OBVIOUS
<1>1. mult_out_h_equalized_rrr.job \in Nat /\ mult_out_h_equalized_rrr.k + 1 \in Nat
  BY DEF TypeOK, DataTypeOK, Tags
<1> QED BY <1>1, ConstantTags DEF ResultWords

\* ... and whatever mul_in_sel selects.
LEMMA OperandType == TypeOK => Operands[1] \in Tags
<1> SUFFICES ASSUME TypeOK PROVE Operands[1] \in Tags
  OBVIOUS
<1>1. mul_in_sel \in Sels
  BY DEF TypeOK, FsmTypeOK
<1>2. HighWords(mult_out) \in Tags
  BY HelperType DEF TypeOK, DataTypeOK
<1> QED BY <1>1, <1>2 DEF Operands, Sels, TypeOK, DataTypeOK

\* Every arc of the state machine leads to a state, a mode and a source.
LEMMA NextArcType ==
  ASSUME FsmTypeOK
  PROVE  NextArc.state \in States /\ NextArc.ctl \in Ctls /\ NextArc.sel \in Sels
BY DEF FsmTypeOK, NextArc, Arc, IdleArc, StartArc, Mul0Arc, Mul1Arc, Mul2Arc, States, Ctls, Sels

\* An edge leaves tags in the registers without reset.
LEMMA DataClockType ==
  ASSUME TypeOK, NEW i_sq \in Tags, DataClock(i_sq)
  PROVE  /\ i_sq_r' \in Tags /\ i_sq_r_a' \in Tags /\ i_sq_r_b' \in Tags
         /\ add_term' \in Tags /\ add_term_r' \in Tags
         /\ mult_out_r' \in Tags /\ mult_out_equalized_r' \in Tags
         /\ mult_out_h_equalized_r' \in Tags /\ mult_out_h_equalized_rr' \in Tags
         /\ mult_out_h_equalized_rrr' \in Tags /\ o_mul' \in Tags
<1>1. /\ Equalize(mult_out_r) \in Tags /\ UpperHalf(mult_out) \in Tags
      /\ UpperHalf(mult_out_equalized_r) \in Tags /\ ResultWords \in Tags
  BY HelperType, ResultType DEF TypeOK, DataTypeOK
<1>2. NextOperands[1] \in Tags /\ NextOperands[2] \in Tags
  BY <1>1, ConstantTags DEF NextOperands, TypeOK, DataTypeOK
<1>3. NextAddTerm \in Tags
  BY <1>1, ConstantTags DEF NextAddTerm, TypeOK, DataTypeOK
<1> QED BY <1>1, <1>2, <1>3 DEF DataClock, TypeOK, DataTypeOK

(* Every register always holds a value of its type.                        *)
THEOREM TypeCorrect == Spec => []TypeOK
<1>1. Init => TypeOK
  <2>1. Init => FsmTypeOK
    BY DEF Init, FsmInit, FsmTypeOK, States, Ctls, Sels
  <2>2. Junk("all") \in Tags /\ Zero \in Tags
    BY ConstantTags
  <2>3. Init => DataTypeOK
    <3>1. Init => job \in Nat /\ squarings \in Nat /\ elapsed \in Nat
      BY DEF Init
    <3>2. Init => fed \in BOOLEAN /\ redone \in BOOLEAN /\ coincided \in BOOLEAN
      BY Zenon DEF Init
    <3> QED BY <2>2, <3>1, <3>2, Zenon DEF Init, DataTypeOK
  <2> QED BY <2>1, <2>3 DEF TypeOK
<1>2. TypeOK /\ [Next]_vars => TypeOK'
  <2> SUFFICES ASSUME TypeOK, [Next]_vars PROVE TypeOK'
    OBVIOUS
  <2>1. CASE Clock
    <3>1. PICK feed \in BOOLEAN, carries \in Carries : Edge(feed, carries)
      BY <2>1 DEF Clock
    <3>2. FsmTypeOK'
      <4>1. FsmTypeOK
        BY DEF TypeOK
      <4>2. /\ state' \in States /\ state_r' \in States
            /\ mult_ctl' \in Ctls /\ mul_in_sel' \in Sels
        BY <3>1, <4>1, NextArcType DEF Edge, FsmClock, FsmSelect, FsmTypeOK
      <4>3. o_val_d' \in {0, 1, 2, 4}
        BY <3>1, <4>1 DEF Edge, FsmClock, FsmTypeOK, Shifted
      <4>4. /\ mul0_equalize' \in BOOLEAN /\ mul1_equalize' \in BOOLEAN
            /\ mul2_equalize' \in BOOLEAN /\ mul2_carry' \in BOOLEAN
            /\ o_val' \in BOOLEAN /\ i_val_r' \in BOOLEAN
        BY <3>1, <4>1, Zenon DEF Edge, FsmClock
      <4> QED BY <4>2, <4>3, <4>4 DEF FsmTypeOK
    <3>3. (IF feed THEN X(job, 0) ELSE Junk("all")) \in Tags
      BY ConstantTags DEF TypeOK, DataTypeOK
    <3>4. mult_out' \in Tags
      BY <3>1, ProductType, OperandType DEF Edge, Multiply
    <3>5. /\ job' \in Nat /\ squarings' \in Nat /\ elapsed' \in Nat
          /\ fed' \in BOOLEAN /\ redone' \in BOOLEAN /\ coincided' \in BOOLEAN
      BY <2>1, <3>1 DEF Edge, History, TypeOK, DataTypeOK
    <3> HIDE DEF TypeOK
    <3>6. DataTypeOK'
      BY <3>1, <3>3, <3>4, <3>5, DataClockType DEF Edge, DataTypeOK
    <3> QED BY <3>2, <3>6 DEF TypeOK
  <2>2. CASE Reset
    <3>1. FsmTypeOK'
      BY <2>2, NextArcType DEF Reset, FsmReset, FsmSelect, FsmTypeOK, TypeOK, States
    <3>2. DataTypeOK'
      <4>1. Junk("all") \in Tags /\ Zero \in Tags
        BY ConstantTags
      <4>2. /\ i_sq_r' \in Tags /\ i_sq_r_a' \in Tags /\ i_sq_r_b' \in Tags
            /\ add_term' \in Tags /\ add_term_r' \in Tags
            /\ mult_out_r' \in Tags /\ mult_out_equalized_r' \in Tags
            /\ mult_out_h_equalized_r' \in Tags /\ mult_out_h_equalized_rr' \in Tags
            /\ mult_out_h_equalized_rrr' \in Tags /\ o_mul' \in Tags
        BY <2>2, <4>1, DataClockType DEF Reset
      <4>3. job \in Nat
        BY DEF TypeOK, DataTypeOK
      <4>4. job' \in Nat /\ squarings' \in Nat /\ elapsed' \in Nat
        BY <2>2, <4>3 DEF Reset
      <4> QED BY <2>2, <4>1, <4>2, <4>4 DEF Reset, DataTypeOK
    <3> QED BY <3>1, <3>2 DEF TypeOK
  <2>3. CASE UNCHANGED vars
    BY <2>3 DEF vars, fsm_vars, fsm_regs, data_vars, hist_vars, TypeOK, FsmTypeOK, DataTypeOK
  <2> QED BY <2>1, <2>2, <2>3 DEF Next
<1> QED BY <1>1, <1>2, PTL DEF Spec

-----------------------------------------------------------------------------
(***************************************************************************)
(* The schedule.                                                           *)
(***************************************************************************)
\* What the data path makes of the operands that belong together.
LEMMA Algebra ==
  ASSUME NEW j \in Nat, NEW k \in Nat, NEW carries \in Carries
  PROVE  /\ Product("SQR", X(j, k), X(j, k), Zero, carries) = Tag("sq", j, k, carries)
         /\ Product("MUL_L", Tag("sq", j, k, "all"), Factor, Zero, carries) = Tag("m", j, k, carries)
         /\ Product("MUL_H", Tag("m", j, k, "all"), Prime, Tag("sq", j, k, "all"), carries)
              = Tag("hi", j, k, carries)
         /\ Product("MUL_L", Tag("m", j, k, "all"), Prime, Zero, carries) = Tag("mp", j, k, carries)
         /\ HighWords(Tag("hi", j, k, "all")) = X(j, k + 1)
         /\ Equalize(Tag("sq", j, k, "all")) = Tag("sq", j, k, "all")
         /\ Equalize(Tag("sq", j, k, "short")) = Tag("sq", j, k, "all")
         /\ Equalize(Tag("m", j, k, "all")) = Tag("m", j, k, "all")
         /\ Equalize(Tag("m", j, k, "short")) = Tag("m", j, k, "all")
         /\ UpperHalf(Tag("sq", j, k, "all")) = Tag("sq", j, k, "all")
<1>1. /\ Product("SQR", X(j, k), X(j, k), Zero, carries) = Tag("sq", j, k, carries)
      /\ Product("MUL_L", Tag("sq", j, k, "all"), Factor, Zero, carries) = Tag("m", j, k, carries)
      /\ Product("MUL_H", Tag("m", j, k, "all"), Prime, Tag("sq", j, k, "all"), carries)
           = Tag("hi", j, k, carries)
      /\ Product("MUL_L", Tag("m", j, k, "all"), Prime, Zero, carries) = Tag("mp", j, k, carries)
  BY DEF Product, IsSquare, IsLow, IsHigh, IsCarry, Tag, X, Zero, Factor, Prime
<1>2. /\ HighWords(Tag("hi", j, k, "all")) = X(j, k + 1)
      /\ UpperHalf(Tag("sq", j, k, "all")) = Tag("sq", j, k, "all")
  BY DEF HighWords, UpperHalf, Tag, X
<1>3. /\ Equalize(Tag("sq", j, k, "all")) = Tag("sq", j, k, "all")
      /\ Equalize(Tag("sq", j, k, "short")) = Tag("sq", j, k, "all")
      /\ Equalize(Tag("m", j, k, "all")) = Tag("m", j, k, "all")
      /\ Equalize(Tag("m", j, k, "short")) = Tag("m", j, k, "all")
  BY DEF Equalize, Tag
<1> QED BY <1>1, <1>2, <1>3

\* The words the delay line delivers.
LEMMA ResultWithoutCarry ==
  ASSUME NEW j \in Nat, NEW k \in Nat, ~mul2_carry,
         mult_out_h_equalized_rrr = Tag("hi", j, k, "all")
  PROVE  ResultWords = X(j, k + 1)
BY DEF ResultWords, Tag, X

\* With the final carry called for, a short high product is completed by the
\* carry of its own low half.
LEMMA ResultWithCarry ==
  ASSUME NEW j \in Nat, NEW k \in Nat, mul2_carry,
         mult_out_h_equalized_rrr = Tag("hi", j, k, "short"),
         mult_out_r = Tag("mp", j, k, mult_out_r.carries)
  PROVE  ResultWords = X(j, k + 1)
BY DEF ResultWords, Tag, X

\* An edge without reset, whatever arrives and whatever the product is like.
Step == \E feed \in BOOLEAN, carries \in Carries : Edge(feed, carries)

\* The arcs of the state machine.
LEMMA Arcs ==
  ASSUME TypeOK, Step
  PROVE  /\ state = "IDLE" /\ ~i_val_r => state' = "IDLE"
         /\ state = "IDLE" /\ i_val_r => state' = "START" /\ Issued("SQR", "operands")'
         /\ state = "START" /\ mul2_carry => state' = "START" /\ Issued("SQR", "operands")'
         /\ state = "START" /\ ~mul2_carry
              => state' = "MUL0" /\ Issued("MUL_L", "square_factor")'
         /\ state = "MUL0" /\ mul2_equalize => state' = "MUL2" /\ Issued("MUL_L", "operands")'
         /\ state = "MUL0" /\ ~mul2_equalize => state' = "MUL1" /\ Issued("MUL_H", "low_p")'
         /\ state = "MUL1" /\ mul0_equalize => state' = "MUL0" /\ Issued("MUL_L", "operands")'
         /\ state = "MUL1" /\ ~mul0_equalize => state' = "MUL2" /\ Issued("SQR", "high_high")'
         /\ state = "MUL2" /\ mul1_equalize => state' = "MUL1" /\ Issued("MUL_H", "operands")'
         /\ state = "MUL2" /\ ~mul1_equalize /\ mul2_equalize => state' = "START"
         /\ state = "MUL2" /\ ~mul1_equalize /\ ~mul2_equalize
              => state' = "MUL0" /\ Issued("MUL_L", "square_factor")'
         /\ state_r' = state
<1>1. /\ state = "IDLE" => NextArc = IdleArc
      /\ state = "START" => NextArc = StartArc
      /\ state = "MUL0" => NextArc = Mul0Arc
      /\ state = "MUL1" => NextArc = Mul1Arc
      /\ state = "MUL2" => NextArc = Mul2Arc
  BY DEF NextArc
<1>2. /\ state' = NextArc.state /\ state_r' = state
      /\ mult_ctl' = NextArc.ctl /\ mul_in_sel' = NextArc.sel
  BY DEF Step, Edge, FsmSelect, FsmClock
<1> QED BY <1>1, <1>2 DEF IdleArc, StartArc, Mul0Arc, Mul1Arc, Mul2Arc, Arc, Issued

\* The flags: raised by a hit in their state when no other is up, and held
\* until state_r passes the state that issues the redo.
LEMMA Flags ==
  ASSUME TypeOK, Step
  PROVE  /\ NoFlags /\ (~bndry \/ state \in {"IDLE", "START"}) => NoFlags'
         /\ Hit("MUL0", bndry) =>
              /\ NoFlags /\ ~mul1_equalize' /\ ~mul2_equalize' /\ ~mul2_carry'
              /\ (state_r # "MUL1" => mul0_equalize')
         /\ Hit("MUL1", bndry) =>
              /\ NoFlags /\ ~mul0_equalize' /\ ~mul2_equalize' /\ ~mul2_carry'
              /\ (state_r # "MUL2" => mul1_equalize')
         /\ Hit("MUL2", bndry) =>
              /\ NoFlags /\ ~mul0_equalize' /\ ~mul1_equalize' /\ ~mul2_carry'
              /\ (state_r # "MUL0" => mul2_equalize')
         /\ Equalizing =>
              /\ (~mul0_equalize \/ state_r = "MUL1" => ~mul0_equalize')
              /\ (~mul1_equalize \/ state_r = "MUL2" => ~mul1_equalize')
              /\ (~mul2_equalize \/ state_r = "MUL0" => ~mul2_equalize')
         /\ mul0_equalize /\ state_r # "MUL1" => mul0_equalize'
         /\ mul1_equalize /\ state_r # "MUL2" => mul1_equalize'
         /\ mul2_equalize /\ state_r # "MUL0" => mul2_equalize'
         /\ o_val_d = 4 \/ ~(mul2_carry \/ mul2_equalize) => ~mul2_carry'
         /\ o_val_d # 4 /\ (mul2_carry \/ mul2_equalize) => mul2_carry'
<1>1. /\ mul2_carry' <=> (o_val_d # 4 /\ (mul2_carry \/ mul2_equalize))
      /\ mul0_equalize' <=> (state_r # "MUL1" /\ (mul0_equalize \/ Hit("MUL0", bndry)))
      /\ mul1_equalize' <=> (state_r # "MUL2" /\ (mul1_equalize \/ Hit("MUL1", bndry)))
      /\ mul2_equalize' <=> (state_r # "MUL0" /\ (mul2_equalize \/ Hit("MUL2", bndry)))
  BY Zenon DEF Step, Edge, FsmClock
<1> QED BY <1>1 DEF Hit, Equalizing, NoFlags

\* The delay line.
LEMMA DelayLine ==
  ASSUME TypeOK, Step
  PROVE  /\ state_r = "MUL2" /\ (~mul2_carry \/ mul2_equalize) => o_val_d' = 1
         /\ state_r # "MUL2" \/ (mul2_carry /\ ~mul2_equalize) =>
              /\ o_val_d \in {0, 4} => o_val_d' = 0
              /\ o_val_d = 1 => o_val_d' = 2
              /\ o_val_d = 2 => o_val_d' = 4
         /\ o_val' <=> (o_val_d = 4)
         /\ o_val_d \in {0, 1, 2, 4}
<1>1. /\ ResultLatched => o_val_d' = 1
      /\ ~ResultLatched => o_val_d' = Shifted
  BY DEF Step, Edge, FsmClock
<1>2. o_val' <=> (o_val_d = 4)
  BY Zenon DEF Step, Edge, FsmClock
<1>3. ResultLatched <=> state_r = "MUL2" /\ (~mul2_carry \/ mul2_equalize)
  BY Zenon DEF ResultLatched
<1> QED BY <1>1, <1>2, <1>3 DEF Shifted, TypeOK, FsmTypeOK

\* The history.
LEMMA Counting ==
  ASSUME TypeOK, Step
  PROVE  /\ job' = job
         /\ o_val_d = 4 => squarings' = squarings + 1
         /\ o_val_d # 4 => squarings' = squarings
         /\ redone' <=> ((redone \/ Hit("MUL1", bndry)) /\ state # "MUL0")
         /\ squarings \in Nat /\ squarings' \in Nat
         /\ ~coincided' => ~coincided /\ ~(redone /\ Hit("MUL2", bndry))
<1>1. /\ job' = job
      /\ o_val_d = 4 => squarings' = squarings + 1
      /\ o_val_d # 4 => squarings' = squarings
      /\ squarings \in Nat /\ squarings' \in Nat
  BY DEF Step, Edge, History, TypeOK, DataTypeOK
<1>2. /\ redone' <=> ((redone \/ Hit("MUL1", bndry)) /\ state # "MUL0")
      /\ coincided' <=> (coincided \/ (redone /\ Hit("MUL2", bndry)))
  BY Zenon DEF Step, Edge, History
<1> QED BY <1>1, <1>2

\* What the registers take over.
LEMMA Registers ==
  ASSUME TypeOK, Step
  PROVE  /\ job \in Nat /\ squarings \in Nat
         /\ i_sq_r_a' = NextOperands[1] /\ i_sq_r_b' = NextOperands[2]
         /\ add_term' = NextAddTerm /\ add_term_r' = add_term
         /\ mult_out' = Product(mult_ctl, Operands[1], Operands[2], add_term, mult_out'.carries)
         /\ mult_out_r' = mult_out /\ mult_out_equalized_r' = Equalize(mult_out_r)
         /\ mult_out_h_equalized_r' = mult_out_r
         /\ mult_out_h_equalized_rr' = mult_out_h_equalized_r
         /\ mult_out_h_equalized_rrr' = mult_out_h_equalized_rr
         /\ o_mul' = ResultWords
         /\ mult_out.carries \in Carries /\ mult_out'.carries \in Carries
<1>1. PICK feed \in BOOLEAN, carries \in Carries : Edge(feed, carries)
  BY DEF Step
<1>2. mult_out' = Product(mult_ctl, Operands[1], Operands[2], add_term, carries)
  BY <1>1 DEF Edge, Multiply
<1>3. mult_out'.carries = carries
  BY <1>2 DEF Product, Tag, Junk
<1> QED BY <1>1, <1>2, <1>3 DEF Edge, DataClock, TypeOK, FsmTypeOK, DataTypeOK, Tags

\* What is on its way to o_val moves one stage, unless a product is latched.
LatchNow == state_r = "MUL2" /\ (~mul2_carry \/ mul2_equalize)

\* Each stage takes over the one before it.
LEMMA Pipeline ==
  ASSUME TypeOK, Step, NEW c \in Nat
  PROVE  /\ LatchNow => o_val_d' = 1
         /\ ~LatchNow => /\ NothingPending(c) => NothingPending(c)'
                         /\ Pending1(c) => Pending2(c)'
                         /\ Pending2(c) => Pending4(c)'
                         /\ Pending4(c) => NothingPending(c)'
         /\ NothingPending(c) \/ Pending4(c) => c = squarings'
<1>1. LatchNow => o_val_d' = 1
  BY DelayLine DEF LatchNow
<1>2. ~LatchNow => /\ o_val_d \in {0, 4} => o_val_d' = 0
                   /\ o_val_d = 1 => o_val_d' = 2
                   /\ o_val_d = 2 => o_val_d' = 4
  BY DelayLine DEF LatchNow
<1>3. /\ job' = job
      /\ o_val_d = 4 => squarings' = squarings + 1
      /\ o_val_d # 4 => squarings' = squarings
      /\ squarings \in Nat /\ o_val_d \in {0, 1, 2, 4}
  BY Counting, DelayLine
<1>4. /\ mult_out_h_equalized_rr' = mult_out_h_equalized_r
      /\ mult_out_h_equalized_rrr' = mult_out_h_equalized_rr
  BY Registers
<1> QED BY <1>1, <1>2, <1>3, <1>4 DEF NothingPending, Pending1, Pending2, Pending4, Hi

\* The From lemmas: where an edge leads from each place.  The iterate at the
\* multiplier is squared.
LEMMA FromStart ==
  ASSUME TypeOK, Step, NEW c \in Nat, AtStart(c)
  PROVE  AtSquare(c)'
<1>1. /\ state' = "MUL0" /\ state_r' = "START" /\ NoFlags'
      /\ Issued("MUL_L", "square_factor")'
  BY Registers, Arcs, Flags DEF AtStart, NoFlags
<1>2. job' = job /\ o_val_d' = 0 /\ squarings' = c
  BY Registers, DelayLine, Counting DEF AtStart, NothingPending, NoFlags
<1>3. Operands = <<X(job, c), X(job, c)>>
  BY DEF AtStart, Issued, Operands
<1>4. mult_out' = Tag("sq", job, c, mult_out'.carries)
  BY <1>3, Registers, Algebra DEF AtStart, Issued, Sq
<1>5. add_term' = Zero
  BY Registers DEF AtStart, NoFlags, NextAddTerm
<1>6. mult_out'.kind = "sq"
  BY <1>4 DEF Sq, Tag
<1> QED BY <1>1, <1>2, <1>4, <1>5, <1>6 DEF AtSquare, NothingPending, Sq

\* A square goes on to the low product, or is found on the boundary; the
\* preceding result may be announced, or latched, on the same edge.
LEMMA FromSquare ==
  ASSUME TypeOK, Step, NEW c \in Nat, AtSquare(c)
  PROVE  IF mult_out.carries = "all" THEN AtLow(c)' ELSE AtSquareHit(c)'
<1>1. job' = job /\ ~redone'
  BY Counting DEF AtSquare
<1>2. NothingPending(c)' \/ Pending1(c)'
  <2>1. CASE state_r = "START" /\ NothingPending(c)
    BY <2>1, Pipeline DEF LatchNow
  <2>2. CASE /\ state_r = "MUL2" /\ o_val_d \in {0, 2}
             /\ c = squarings + 1 /\ mult_out_r = Hi(squarings)
    <3>1. o_val_d' = 1 /\ squarings' = squarings
      BY <2>2, DelayLine, Counting DEF AtSquare, NoFlags
    <3> QED BY <1>1, <2>2, <3>1, Registers DEF Pending1, Hi
  <2>3. CASE /\ state_r = "MUL2" /\ o_val_d = 4
             /\ c = squarings + 2 /\ mult_out_r = Hi(squarings + 1)
    <3>1. o_val_d' = 1 /\ squarings' = squarings + 1
      BY <2>3, DelayLine, Counting DEF AtSquare, NoFlags
    <3> QED BY <1>1, <2>3, <3>1, Registers DEF Pending1, Hi
  <2> QED BY <2>1, <2>2, <2>3 DEF AtSquare
<1>3. CASE mult_out.carries = "all"
  <2>1. /\ state' = "MUL1" /\ state_r' = "MUL0" /\ NoFlags' /\ Issued("MUL_H", "low_p")'
    <3>1. ~bndry
      BY <1>3 DEF bndry
    <3>2. ~Hit("MUL0", bndry) /\ ~Hit("MUL1", bndry) /\ ~Hit("MUL2", bndry)
      BY <3>1 DEF Hit
    <3>3. NoFlags'
      BY <3>1, Registers, Flags DEF AtSquare, NoFlags
    <3> QED BY <3>3, Registers, Arcs DEF AtSquare, NoFlags
  <2>2. mult_out = Sq(c)
    BY <1>3, Registers DEF AtSquare, Sq
  <2>3. Operands = <<Sq(c), Factor>>
    BY <2>2 DEF AtSquare, Issued, Operands
  <2>4. mult_out' = Tag("m", job, c, mult_out'.carries)
    BY <2>3, Registers, Algebra DEF AtSquare, Issued, M, Sq
  <2>5. mult_out'.kind = "m"
    BY <2>4 DEF M, Tag
  <2>6. add_term' = Sq(c)
    BY <2>2, Registers, Algebra DEF AtSquare, NoFlags, NextAddTerm, Sq
  <2> QED BY <1>1, <1>2, <1>3, <2>1, <2>4, <2>5, <2>6 DEF AtLow, M, Sq
<1>4. CASE mult_out.carries = "short"
  <2>1. Hit("MUL0", bndry)
    BY <1>4 DEF AtSquare, Hit, Equalizing, NoFlags, bndry
  <2>2. /\ state' = "MUL1" /\ state_r' = "MUL0" /\ mul0_equalize'
        /\ ~mul1_equalize' /\ ~mul2_equalize' /\ ~mul2_carry'
    BY <2>1, Registers, Arcs, Flags DEF AtSquare, NoFlags
  <2>4. mult_out_r' = SqHit(c)
    BY <1>4, Registers DEF AtSquare, SqHit
  <2> QED BY <1>1, <1>2, <1>4, <2>2, <2>4 DEF AtSquareHit, Sq, SqHit
<1> QED BY <1>3, <1>4, Registers DEF Carries

\* The equalized square is held as operand for the redo.
LEMMA FromSquareHit ==
  ASSUME TypeOK, Step, NEW c \in Nat, AtSquareHit(c)
  PROVE  AtSquareRedo(c)'
<1>1. job' = job /\ (NothingPending(c)' \/ Pending2(c)')
  BY Pipeline, Counting DEF AtSquareHit, LatchNow
<1>2. /\ state' = "MUL0" /\ state_r' = "MUL1" /\ Issued("MUL_L", "operands")'
      /\ mul0_equalize' /\ ~mul1_equalize' /\ ~mul2_equalize' /\ ~mul2_carry'
  BY Registers, Arcs, Flags DEF AtSquareHit, Equalizing
<1>3. Equalize(mult_out_r) = Sq(c)
  BY Registers, Algebra DEF AtSquareHit, Sq, SqHit
<1>4. NextOperands = <<Sq(c), Factor>>
  BY <1>3 DEF AtSquareHit, NextOperands, HoldForRedo0, HoldForRedo1
<1>5. NextAddTerm = Zero
  BY DEF AtSquareHit, NextAddTerm
<1> QED BY <1>1, <1>2, <1>3, <1>4, <1>5, Registers DEF AtSquareRedo, Sq

\* The redone low product gets the equalized square's upper half to add.
LEMMA FromSquareRedo ==
  ASSUME TypeOK, Step, NEW c \in Nat, AtSquareRedo(c)
  PROVE  AtLow(c)'
<1>1. job' = job /\ ~redone' /\ (NothingPending(c)' \/ Pending4(c)')
  BY Pipeline, Counting DEF AtSquareRedo, LatchNow
<1>2. /\ state' = "MUL1" /\ state_r' = "MUL0" /\ NoFlags' /\ Issued("MUL_H", "low_p")'
  BY Registers, Arcs, Flags DEF AtSquareRedo, Equalizing, NoFlags
<1>3. Operands = <<Sq(c), Factor>>
  BY DEF AtSquareRedo, Issued, Operands
<1>4. mult_out' = Tag("m", job, c, mult_out'.carries)
  BY <1>3, Registers, Algebra DEF AtSquareRedo, Issued, M, Sq
<1>5. mult_out'.kind = "m"
  BY <1>4 DEF M, Tag
<1>6. add_term' = Sq(c)
  BY Registers, Algebra DEF AtSquareRedo, NextAddTerm, Sq
<1> QED BY <1>1, <1>2, <1>4, <1>5, <1>6 DEF AtLow, M, Sq

\* A low product goes on to the high product, or is found on the boundary.
LEMMA FromLow ==
  ASSUME TypeOK, Step, NEW c \in Nat, AtLow(c)
  PROVE  IF mult_out.carries = "all" THEN AtHigh(c)' ELSE AtLowHit(c)'
<1>1. job' = job /\ (NothingPending(c)' \/ Pending2(c)')
  BY Pipeline, Counting DEF AtLow, LatchNow
<1>2. state' = "MUL2" /\ state_r' = "MUL1" /\ add_term' = Zero
  BY Registers, Arcs DEF AtLow, NoFlags, NextAddTerm
<1>3. CASE mult_out.carries = "all"
  <2>1. ~bndry /\ ~Hit("MUL1", bndry)
    BY <1>3 DEF bndry, Hit
  <2>2. NoFlags' /\ ~redone' /\ Issued("SQR", "high_high")'
    <3>1. NoFlags'
      BY <2>1, Flags DEF AtLow
    <3>2. ~redone'
      BY <2>1, Counting DEF AtLow
    <3> QED BY <3>1, <3>2, Arcs DEF AtLow, NoFlags
  <2>3. mult_out = M(c)
    BY <1>3, Registers DEF AtLow, M
  <2>4. Operands = <<M(c), Prime>>
    BY <2>3 DEF AtLow, Issued, Operands
  <2>5. mult_out' = Tag("hi", job, c, mult_out'.carries)
    BY <2>4, Registers, Algebra DEF AtLow, Issued, M, Sq, Hi
  <2>6. mult_out'.kind = "hi"
    BY <2>5 DEF Hi, Tag
  <2>7. mult_out_r' = M(c)
    BY <2>3, Registers
  <2> QED BY <1>1, <1>2, <1>3, <2>2, <2>5, <2>6, <2>7 DEF AtHigh, M, Hi
<1>4. CASE mult_out.carries = "short"
  <2>1. Hit("MUL1", bndry)
    BY <1>4 DEF AtLow, Hit, Equalizing, NoFlags, bndry
  <2>2. /\ mul1_equalize' /\ redone'
        /\ ~mul0_equalize' /\ ~mul2_equalize' /\ ~mul2_carry'
    BY <2>1, Registers, Flags, Counting DEF AtLow
  <2>4. mult_out_r' = MHit(c) /\ add_term_r' = Sq(c)
    BY <1>4, Registers DEF AtLow, MHit
  <2> QED BY <1>1, <1>2, <1>4, <2>2, <2>4 DEF AtLowHit, M, Sq, MHit
<1> QED BY <1>3, <1>4, Registers DEF Carries

\* The equalized low product is held, with the addition term it needs.
LEMMA FromLowHit ==
  ASSUME TypeOK, Step, NEW c \in Nat, AtLowHit(c)
  PROVE  AtLowRedo(c)'
<1>1. job' = job /\ redone' /\ (NothingPending(c)' \/ Pending4(c)')
  BY Pipeline, Counting DEF AtLowHit, LatchNow
<1>2. /\ state' = "MUL1" /\ state_r' = "MUL2" /\ Issued("MUL_H", "operands")'
      /\ mul1_equalize' /\ ~mul0_equalize' /\ ~mul2_equalize' /\ ~mul2_carry'
  BY Registers, Arcs, Flags DEF AtLowHit, Equalizing
<1>3. Equalize(mult_out_r) = M(c)
  BY Registers, Algebra DEF AtLowHit, M, MHit
<1>4. NextOperands = <<M(c), Prime>>
  BY <1>3 DEF AtLowHit, NextOperands
<1>5. NextAddTerm = Sq(c)
  BY DEF AtLowHit, NextAddTerm
<1>6. add_term_r' = Zero
  BY Registers DEF AtLowHit
<1> QED BY <1>1, <1>2, <1>4, <1>5, <1>6, Registers DEF AtLowRedo, M, Sq

\* The redone high product comes out, with redone set.
LEMMA FromLowRedo ==
  ASSUME TypeOK, Step, NEW c \in Nat, AtLowRedo(c)
  PROVE  AtHigh(c)'
<1>1. job' = job /\ redone' /\ o_val_d' = 1 /\ c = squarings'
  BY Pipeline, Counting DEF AtLowRedo, LatchNow
<1>2. state' = "MUL2" /\ state_r' = "MUL1" /\ NoFlags' /\ Issued("SQR", "high_high")'
  BY Registers, Arcs, Flags DEF AtLowRedo, Equalizing, NoFlags
<1>3. Operands = <<M(c), Prime>>
  BY DEF AtLowRedo, Issued, Operands
<1>4. mult_out' = Tag("hi", job, c, mult_out'.carries)
  BY <1>3, Registers, Algebra DEF AtLowRedo, Issued, M, Sq, Hi
<1>5. mult_out'.kind = "hi"
  BY <1>4 DEF Hi, Tag
<1>6. add_term' = Zero
  BY Registers DEF AtLowRedo, NextAddTerm
<1> QED BY <1>1, <1>2, <1>4, <1>5, <1>6 DEF AtHigh, Hi

\* A high product is squared at once and latched for o_val, or is found on
\* the boundary: then, unless the low product was redone, i_sq_r_a holds it.
LEMMA FromHigh ==
  ASSUME TypeOK, Step, NEW c \in Nat, AtHigh(c), ~coincided'
  PROVE  IF mult_out.carries = "all" THEN AtSquare(c + 1)' ELSE AtHighHit(c)'
<1>1. job' = job /\ state' = "MUL0" /\ state_r' = "MUL2"
  BY Registers, Arcs, Counting DEF AtHigh, NoFlags
<1>2. CASE mult_out.carries = "all"
  <2>1. ~bndry
    BY <1>2 DEF bndry
  <2>2. NoFlags' /\ Issued("MUL_L", "square_factor")' /\ add_term' = Zero
    BY <2>1, Registers, Arcs, Flags DEF AtHigh, NoFlags, NextAddTerm
  <2>3. mult_out = Hi(c)
    BY <1>2, Registers DEF AtHigh, Hi
  <2>4. Operands = <<X(job, c + 1), X(job, c + 1)>>
    BY <2>3, Registers, Algebra DEF AtHigh, Issued, Operands, Hi
  <2>5. mult_out' = Tag("sq", job, c + 1, mult_out'.carries)
    <3>1. c + 1 \in Nat /\ job \in Nat /\ mult_out'.carries \in Carries
      BY Registers
    <3>2. mult_out' = Product("SQR", X(job, c + 1), X(job, c + 1), Zero, mult_out'.carries)
      BY <2>4, Registers DEF AtHigh, Issued
    <3> QED BY <3>1, <3>2, Algebra DEF Sq
  <2>6. mult_out'.kind = "sq"
    BY <2>5 DEF Sq, Tag
  <2>7. mult_out_r' = Hi(c)
    BY <2>3, Registers
  <2>8. /\ o_val_d = 0 => o_val_d' = 0
        /\ o_val_d = 1 => o_val_d' = 2
        /\ o_val_d = 2 => o_val_d' = 4
        /\ o_val_d # 4 => squarings' = squarings
    BY DelayLine, Counting DEF AtHigh
  <2>9. \/ /\ o_val_d' \in {0, 2}
           /\ c + 1 = squarings' + 1 /\ mult_out_r' = Hi(squarings')
        \/ /\ o_val_d' = 4
           /\ c + 1 = squarings' + 2 /\ mult_out_r' = Hi(squarings' + 1)
           /\ mult_out_h_equalized_rrr' = Hi(squarings')
    BY <2>7, <2>8, Registers DEF AtHigh, NothingPending, Pending2
  <2> QED BY <1>1, <1>2, <2>2, <2>5, <2>6, <2>9 DEF AtSquare, Hi, Sq
<1>3. CASE mult_out.carries = "short"
  <2>1. Hit("MUL2", bndry) /\ ~redone
    <3>1. Hit("MUL2", bndry)
      BY <1>3 DEF AtHigh, Hit, Equalizing, NoFlags, bndry
    <3> QED BY <3>1, Counting
  <2>2. mul2_equalize' /\ ~mul0_equalize' /\ ~mul1_equalize' /\ ~mul2_carry'
    BY <2>1, Registers, Flags DEF AtHigh
  <2>4. mult_out_r' = HiHit(c)
    BY <1>3, Registers DEF AtHigh, HiHit
  <2>5. Equalize(mult_out_r) = M(c)
    BY <2>1, Registers, Algebra DEF AtHigh, M
  <2>6. i_sq_r_a' = M(c) /\ i_sq_r_b' = Prime
    BY <2>5, Registers DEF AtHigh, NextOperands
  <2>7. ~o_val' /\ (NothingPending(c)' \/ Pending4(c)')
    <3>1. NothingPending(c) \/ Pending2(c)
      BY <2>1 DEF AtHigh
    <3>2. ~o_val'
      BY <3>1, DelayLine DEF NothingPending, Pending2
    <3> QED BY <3>1, <3>2, Pipeline DEF AtHigh, LatchNow
  <2> QED BY <1>1, <1>3, <2>2, <2>4, <2>6, <2>7 DEF AtHighHit, M, Hi, HiHit
<1> QED BY <1>2, <1>3, Registers DEF Carries

\* The low product is multiplied by P once more, for the exact low half.
LEMMA FromHighHit ==
  ASSUME TypeOK, Step, NEW c \in Nat, AtHighHit(c)
  PROVE  AtCarry1(c)'
<1>1. job' = job /\ ~redone' /\ o_val_d' = 1 /\ c = squarings'
  BY Pipeline, Counting DEF AtHighHit, LatchNow
<1>2. /\ state' = "MUL2" /\ state_r' = "MUL0" /\ Issued("MUL_L", "operands")'
      /\ mul2_equalize' /\ ~mul0_equalize' /\ ~mul1_equalize'
  BY Registers, Arcs, Flags DEF AtHighHit, Equalizing
<1>3. i_sq_r_a' = M(c) /\ i_sq_r_b' = Prime
  BY Registers DEF AtHighHit, NextOperands, HoldForRedo0, HoldForRedo1
<1>4. add_term' = Zero
  BY Registers DEF AtHighHit, NextAddTerm
<1>5. mult_out_h_equalized_r' = HiHit(c)
  BY Registers DEF AtHighHit
<1> QED BY <1>1, <1>2, <1>3, <1>4, <1>5 DEF AtCarry1, M, Hi, HiHit

\* It comes out two edges after the short high product, ...
LEMMA FromCarry1 ==
  ASSUME TypeOK, Step, NEW c \in Nat, AtCarry1(c)
  PROVE  AtCarry2(c)'
<1>1. /\ job' = job /\ o_val_d' = 2 /\ c = squarings' /\ ~o_val'
      /\ mult_out_h_equalized_rr' = HiHit(c)
  <2>1. job' = job /\ o_val_d' = 2 /\ c = squarings'
    BY DelayLine, Counting DEF AtCarry1
  <2>2. ~o_val'
    BY DelayLine DEF AtCarry1
  <2> QED BY <2>1, <2>2, Registers DEF AtCarry1
<1>2. ~redone'
  BY Counting DEF AtCarry1, Hit
<1>3. /\ state' = "START" /\ state_r' = "MUL2"
      /\ mul2_carry' /\ ~mul0_equalize' /\ ~mul1_equalize' /\ ~mul2_equalize'
  <2>1. /\ mul2_carry' /\ ~mul0_equalize' /\ ~mul1_equalize' /\ ~mul2_equalize'
    BY Flags DEF AtCarry1, Equalizing
  <2> QED BY <2>1, Arcs DEF AtCarry1
<1>4. Operands = <<M(c), Prime>>
  BY DEF AtCarry1, Issued, Operands
<1>5. mult_out' = Tag("mp", job, c, mult_out'.carries)
  BY <1>4, Registers, Algebra DEF AtCarry1, Issued, M
<1>6. mult_out'.kind = "mp"
  BY <1>5 DEF Tag
<1> QED BY <1>1, <1>2, <1>3, <1>5, <1>6 DEF AtCarry2, Hi, HiHit

\* ... moves on as the high product does, ...
LEMMA FromCarry2 ==
  ASSUME TypeOK, Step, NEW c \in Nat, AtCarry2(c)
  PROVE  AtCarry3(c)'
<1>1. /\ job' = job /\ o_val_d' = 4 /\ c = squarings' /\ ~o_val'
      /\ mult_out_h_equalized_rrr' = HiHit(c)
  <2>1. job' = job /\ o_val_d' = 4 /\ c = squarings'
    BY DelayLine, Counting DEF AtCarry2
  <2>2. ~o_val'
    BY DelayLine DEF AtCarry2
  <2> QED BY <2>1, <2>2, Registers DEF AtCarry2
<1>2. ~redone'
  BY Counting DEF AtCarry2, Hit
<1>3. /\ state' = "START" /\ state_r' = "START"
      /\ mul2_carry' /\ ~mul0_equalize' /\ ~mul1_equalize' /\ ~mul2_equalize'
  <2>1. /\ mul2_carry' /\ ~mul0_equalize' /\ ~mul1_equalize' /\ ~mul2_equalize'
    BY Flags DEF AtCarry2, Equalizing
  <2> QED BY <2>1, Arcs DEF AtCarry2
<1>4. mult_out_r' = mult_out
  BY Registers
<1> QED BY <1>1, <1>2, <1>3, <1>4 DEF AtCarry2, AtCarry3, Hi, HiHit

\* ... and completes it as it is announced, and the result is squared next.
LEMMA FromCarry3 ==
  ASSUME TypeOK, Step, NEW c \in Nat, AtCarry3(c)
  PROVE  AtStart(c + 1)'
<1>1. job' = job /\ o_val_d' = 0 /\ c + 1 = squarings'
  BY Registers, DelayLine, Counting DEF AtCarry3
<1>2. ~redone'
  BY Counting DEF AtCarry3, Hit
<1>3. state' = "START" /\ state_r' = "START" /\ NoFlags' /\ Issued("SQR", "operands")'
  BY Registers, Arcs, Flags DEF AtCarry3, Equalizing, NoFlags
<1>4. ResultWords = X(job, c + 1)
  BY Registers, ResultWithCarry DEF AtCarry3, Hi, HiHit
<1>5. NextOperands = <<X(job, c + 1), X(job, c + 1)>>
  BY <1>4 DEF AtCarry3, NextOperands, HoldForRedo0, HoldForRedo1
<1>6. add_term' = Zero
  BY Registers DEF AtCarry3, NextAddTerm
<1> QED BY <1>1, <1>2, <1>3, <1>5, <1>6, Registers DEF AtStart, NothingPending

\* Until the input comes through, the squarer idles.
LEMMA FromIdle ==
  ASSUME TypeOK, Step, AtIdle, EveryResultIsNextIterate
  PROVE  IF i_val_r THEN AtStart(0)' ELSE AtIdle'
<1>1. /\ job' = job /\ squarings' = 0 /\ ~redone'
      /\ NoFlags' /\ o_val_d' = 0 /\ state_r' = "IDLE"
  <2>1. NoFlags'
    BY Flags DEF AtIdle
  <2>2. ~redone'
    BY Counting DEF AtIdle, Hit
  <2>3. o_val_d' = 0
    BY DelayLine DEF AtIdle
  <2> QED BY <2>1, <2>2, <2>3, Counting, Arcs DEF AtIdle
<1>2. CASE i_val_r
  <2>1. state' = "START" /\ Issued("SQR", "operands")'
    BY <1>2, Arcs DEF AtIdle
  <2>2. NextOperands = <<X(job, 0), X(job, 0)>>
    BY <1>2 DEF AtIdle, EveryResultIsNextIterate, NextOperands, HoldForRedo0, HoldForRedo1, NoFlags
  <2>3. add_term' = Zero
    BY Registers DEF AtIdle, NoFlags, NextAddTerm
  <2> QED BY <1>1, <1>2, <2>1, <2>2, <2>3, Registers DEF AtStart, NothingPending
<1>3. CASE ~i_val_r
  <2>1. state' = "IDLE"
    BY <1>3, Arcs DEF AtIdle
  <2>2. i_val_r' => i_sq_r' = X(job, 0)
    <3>1. PICK feed \in BOOLEAN, carries \in Carries : Edge(feed, carries)
      BY DEF Step
    <3>2. i_val_r' = feed /\ i_sq_r' = IF feed THEN X(job, 0) ELSE Junk("all")
      BY <3>1 DEF Edge, FsmClock, DataClock
    <3> QED BY <3>2
  <2> QED BY <1>1, <1>3, <2>1, <2>2 DEF AtIdle
<1> QED BY <1>2, <1>3

\* The place that announces a result delivers the next iterate.
LEMMA Announced ==
  ASSUME TypeOK, Step, AtIdle \/ \E c \in Nat : Squaring(c)
  PROVE  EveryResultIsNextIterate'
<1> SUFFICES ASSUME o_val' PROVE o_mul' = X(job', squarings')
  BY DEF EveryResultIsNextIterate
<1>1. o_val_d = 4 /\ job' = job /\ squarings' = squarings + 1 /\ o_mul' = ResultWords
      /\ job \in Nat /\ squarings \in Nat
  BY DelayLine, Counting, Registers
<1>2. SUFFICES ResultWords = X(job, squarings + 1)
  BY <1>1
<1>3. PICK c \in Nat : Squaring(c)
  BY <1>1 DEF AtIdle
<1>4. CASE ~mul2_carry /\ mult_out_h_equalized_rrr = Hi(squarings)
  BY <1>1, <1>4, ResultWithoutCarry DEF Hi
<1>5. CASE AtCarry3(c)
  BY <1>1, <1>5, ResultWithCarry DEF AtCarry3, HiHit
<1>6. AtCarry3(c) \/ (~mul2_carry /\ mult_out_h_equalized_rrr = Hi(squarings))
  BY <1>1, <1>3
     DEF Squaring, AtStart, AtSquare, AtSquareHit, AtSquareRedo, AtLow, AtLowHit, AtLowRedo,
         AtHigh, AtHighHit, AtCarry1, AtCarry2, NoFlags,
         NothingPending, Pending1, Pending2, Pending4
<1> QED BY <1>4, <1>5, <1>6

\* A place pins down which iterate it is about.
LEMMA Located ==
  ASSUME squarings' \in Nat
  PROVE  \A c \in Nat : Squaring(c)' => c \in squarings' .. squarings' + 2
<1>1. \A n, c \in Nat : c = n \/ c = n + 1 \/ c = n + 2 => c \in n .. n + 2
  OBVIOUS
<1>2. ASSUME NEW c \in Nat, Squaring(c)'
      PROVE  c = squarings' \/ c = squarings' + 1 \/ c = squarings' + 2
  BY <1>2 DEF Squaring, AtStart, AtSquare, AtSquareHit, AtSquareRedo, AtLow, AtLowHit,
    AtLowRedo, AtHigh, AtHighHit, AtCarry1, AtCarry2, AtCarry3,
    NothingPending, Pending1, Pending2, Pending4
<1> QED BY <1>1, <1>2, Zenon

(* Once every o_val comes with the next iterate and the squarer is at one  *)
(* of the places above, both stay so: the schedule is inductive.           *)
THEOREM ScheduleHolds == Spec => []Schedule
<1>1. Init => Schedule
  BY DEF Init, FsmInit, Schedule, EveryResultIsNextIterate, AtIdle, NoFlags
<1>2. TypeOK /\ TypeOK' /\ Schedule /\ [Next]_vars => Schedule'
  <2> SUFFICES ASSUME TypeOK, TypeOK', Schedule, [Next]_vars PROVE Schedule'
    OBVIOUS
  <2> USE DEF Schedule
  <2>1. CASE Clock
    <3>1. Step
      BY <2>1 DEF Clock, Step
    <3> SUFFICES ASSUME ~coincided'
                 PROVE  /\ EveryResultIsNextIterate'
                        /\ AtIdle' \/ \E c \in squarings' .. squarings' + 2 : Squaring(c)'
      OBVIOUS
    <3>2. ~coincided /\ squarings \in Nat /\ squarings' \in Nat
      BY <3>1, Counting
    <3>3. EveryResultIsNextIterate /\ (AtIdle \/ \E c \in Nat : Squaring(c))
      BY <3>2
    <3>4. EveryResultIsNextIterate'
      BY <3>1, <3>3, Announced
    <3>5. AtIdle' \/ \E c \in Nat : Squaring(c)'
      <4>1. CASE AtIdle
        BY <3>1, <3>3, <4>1, FromIdle DEF Squaring
      <4>2. CASE \E c \in Nat : Squaring(c)
        <5>1. PICK c \in Nat : Squaring(c)
          BY <4>2
        <5>2. Squaring(c)' \/ Squaring(c + 1)'
          BY <3>1, <5>1, FromStart, FromSquare, FromSquareHit, FromSquareRedo,
             FromLow, FromLowHit, FromLowRedo, FromHigh, FromHighHit,
             FromCarry1, FromCarry2, FromCarry3
             DEF Squaring
        <5> QED BY <5>2
      <4> QED BY <3>3, <4>1, <4>2
    <3>6. \A c \in Nat : Squaring(c)' => c \in squarings' .. squarings' + 2
      BY <3>2, Located
    <3> QED BY <3>4, <3>5, <3>6
  <2>2. CASE Reset
    BY <2>2 DEF Reset, FsmReset, EveryResultIsNextIterate, AtIdle, NoFlags
  <2>3. CASE UNCHANGED vars
    BY <2>3 DEF vars, fsm_vars, fsm_regs, data_vars, hist_vars, EveryResultIsNextIterate,
       AtIdle, Squaring, AtStart, AtSquare, AtSquareHit, AtSquareRedo, AtLow, AtLowHit,
       AtLowRedo, AtHigh, AtHighHit, AtCarry1, AtCarry2, AtCarry3, Issued, NoFlags,
       NothingPending, Pending1, Pending2, Pending4, Sq, M, Hi, SqHit, MHit, HiHit, X, Tag
  <2> QED BY <2>1, <2>2, <2>3 DEF Next
<1> QED BY <1>1, <1>2, TypeCorrect, PTL DEF Spec

(* What redun_mont_tb.sv asserts of every result, as far as the code keeps *)
(* it: up to the first high product that hits the boundary after its low   *)
(* product was redone, every o_val comes with the next iterate of its job. *)
THEOREM ResultsCorrect == Spec => []ResultIsNextIterate
<1>1. Schedule => ResultIsNextIterate
  BY DEF Schedule, ResultIsNextIterate
<1> QED BY <1>1, ScheduleHolds, PTL

-----------------------------------------------------------------------------
(***************************************************************************)
(* At the ports: no result comes earlier than three edges or later than    *)
(* thirteen after the one before, and, with the schedule, the squarer      *)
(* implements IteratingSquarer.                                            *)
(*                                                                         *)
(* Pace says for each place of the schedule how many edges may have passed *)
(* when the delay line is at each of its stages.  It holds whatever the    *)
(* products are, also where the schedule's data have gone wrong.           *)
(***************************************************************************)

\* One redo is under way, and nothing else.
Redo0 == mul0_equalize /\ ~mul1_equalize /\ ~mul2_equalize /\ ~mul2_carry
Redo1 == mul1_equalize /\ ~mul0_equalize /\ ~mul2_equalize /\ ~mul2_carry
Redo2 == mul2_equalize /\ ~mul0_equalize /\ ~mul1_equalize /\ ~mul2_carry
CarryOnly == mul2_carry /\ ~mul0_equalize /\ ~mul1_equalize /\ ~mul2_equalize

Between(s, r) == state = s /\ state_r = r
Stage(d, most) == o_val_d = d /\ elapsed <= most

PaceIdle ==
  /\ Between("IDLE", "IDLE") /\ NoFlags /\ Stage(0, 0)
  /\ (fed <=> i_val_r) /\ ~o_val /\ squarings = 0

PaceStart == state = "START" /\ state_r \in {"IDLE", "START"} /\ NoFlags /\ Stage(0, 1)

PaceSquare ==
  /\ state = "MUL0" /\ NoFlags
  /\ \/ state_r = "START" /\ Stage(0, 2)
     \/ state_r = "MUL2" /\ (Stage(0, 7) \/ Stage(2, 9) \/ Stage(4, 12))
PaceSquareHit  == Between("MUL1", "MUL0") /\ Redo0 /\ (Stage(0, 3) \/ Stage(1, 10))
PaceSquareRedo == Between("MUL0", "MUL1") /\ Redo0 /\ (Stage(0, 4) \/ Stage(2, 11))

PaceLow ==
  Between("MUL1", "MUL0") /\ NoFlags /\ (Stage(0, 5) \/ Stage(1, 10) \/ Stage(4, 12))
PaceLowHit  == Between("MUL2", "MUL1") /\ Redo1 /\ (Stage(0, 6) \/ Stage(2, 11))
PaceLowRedo == Between("MUL1", "MUL2") /\ Redo1 /\ (Stage(0, 7) \/ Stage(4, 12))

PaceHigh ==
  Between("MUL2", "MUL1") /\ NoFlags /\ (Stage(0, 6) \/ Stage(1, 8) \/ Stage(2, 11))
PaceHighHit ==
  Between("MUL0", "MUL2") /\ Redo2 /\ (Stage(0, 7) \/ Stage(2, 9) \/ Stage(4, 12))

PaceCarry1 ==
  /\ Between("MUL2", "MUL0") /\ mul2_equalize /\ ~mul0_equalize /\ ~mul1_equalize
  /\ Stage(1, 10)
PaceCarry2 == Between("START", "MUL2") /\ CarryOnly /\ Stage(2, 11)
PaceCarry3 == Between("START", "START") /\ CarryOnly /\ Stage(4, 12)

PaceBusy ==
  \/ PaceStart
  \/ PaceSquare \/ PaceSquareHit \/ PaceSquareRedo
  \/ PaceLow \/ PaceLowHit \/ PaceLowRedo
  \/ PaceHigh \/ PaceHighHit
  \/ PaceCarry1 \/ PaceCarry2 \/ PaceCarry3

\* An edge has passed for each stage that a result has gone down the line.
NotTooSoon == (o_val_d = 2 => elapsed >= 1) /\ (o_val_d = 4 => elapsed >= 2)

Pace == NotTooSoon /\ (PaceIdle \/ (fed /\ PaceBusy)) /\ job <= MaxJobs

-----------------------------------------------------------------------------
(***************************************************************************)
(* The pace.                                                               *)
(***************************************************************************)
\* An edge of a squarer at work: the count of edges, and the delay line.
LEMMA Tick ==
  ASSUME TypeOK, Step, fed
  PROVE  /\ fed' /\ elapsed \in Nat
         /\ o_val_d = 4 => elapsed' = 0
         /\ o_val_d # 4 => elapsed' = elapsed + 1
         /\ LatchNow => o_val_d' = 1
         /\ ~LatchNow => /\ o_val_d \in {0, 4} => o_val_d' = 0
                         /\ o_val_d = 1 => o_val_d' = 2
                         /\ o_val_d = 2 => o_val_d' = 4
<1>1. PICK feed \in BOOLEAN, carries \in Carries : Edge(feed, carries)
  BY DEF Step
<1>2. fed' /\ elapsed' = IF o_val_d = 4 THEN 0 ELSE elapsed + 1
  BY <1>1 DEF Edge, History
<1>3. elapsed \in Nat
  BY DEF TypeOK, DataTypeOK
<1> QED
  BY <1>2, <1>3, DelayLine DEF LatchNow

\* From each place an edge leads to a place, in time.  A squaring begins, ...
LEMMA PaceFromStart ==
  ASSUME TypeOK, Step, fed, PaceStart
  PROVE  PaceSquare'
<1>1. state' = "MUL0" /\ state_r' = "START" /\ NoFlags'
  BY Arcs, Flags DEF PaceStart, NoFlags
<1>2. Stage(0, 2)'
  BY Tick DEF PaceStart, Stage, LatchNow
<1> QED
  BY <1>1, <1>2 DEF PaceSquare

\* ... the square is out, and the high product of the one before is latched, ...
LEMMA PaceFromSquare ==
  ASSUME TypeOK, Step, fed, PaceSquare
  PROVE  PaceLow' \/ PaceSquareHit'
<1>1. Between("MUL1", "MUL0")'
  BY Arcs DEF PaceSquare, NoFlags, Between
<1>2. Stage(0, 3)' \/ Stage(1, 10)'
  <2>1. CASE state_r = "START"
    BY <2>1, Tick DEF PaceSquare, Stage, LatchNow
  <2>2. CASE state_r = "MUL2"
    BY <2>2, Tick DEF PaceSquare, Stage, LatchNow, NoFlags
  <2> QED
    BY <2>1, <2>2 DEF PaceSquare
<1>3. CASE bndry
  <2>1. Hit("MUL0", bndry) /\ state_r # "MUL1"
    BY <1>3 DEF PaceSquare, Hit, Equalizing, NoFlags
  <2>2. Redo0'
    BY <2>1, Flags DEF Redo0
  <2> QED
    BY <1>1, <1>2, <2>2 DEF PaceSquareHit
<1>4. CASE ~bndry
  <2>1. NoFlags'
    BY <1>4, Flags DEF PaceSquare
  <2>2. Stage(0, 5)' \/ Stage(1, 10)'
    BY <1>2, Tick DEF Stage
  <2> QED
    BY <1>1, <2>1, <2>2 DEF PaceLow
<1> QED
  BY <1>3, <1>4

\* ... (if it lay on the boundary, it is equalized on the way, and the low
\* product issued again) ...
LEMMA PaceFromSquareHit ==
  ASSUME TypeOK, Step, fed, PaceSquareHit
  PROVE  PaceSquareRedo'
<1>1. Between("MUL0", "MUL1")' /\ Redo0'
  BY Arcs, Flags DEF PaceSquareHit, Between, Redo0, Equalizing
<1>2. Stage(0, 4)' \/ Stage(2, 11)'
  BY Tick DEF PaceSquareHit, Between, Stage, LatchNow
<1> QED
  BY <1>1, <1>2 DEF PaceSquareRedo

\* ... (which it does once) ...
LEMMA PaceFromSquareRedo ==
  ASSUME TypeOK, Step, fed, PaceSquareRedo
  PROVE  PaceLow'
<1>1. Between("MUL1", "MUL0")' /\ NoFlags'
  BY Arcs, Flags DEF PaceSquareRedo, Between, Redo0, NoFlags, Equalizing
<1>2. Stage(0, 5)' \/ Stage(4, 12)'
  BY Tick DEF PaceSquareRedo, Between, Stage, LatchNow
<1> QED
  BY <1>1, <1>2 DEF PaceLow

\* ... goes on to the low product, ...
LEMMA PaceFromLow ==
  ASSUME TypeOK, Step, fed, PaceLow
  PROVE  PaceHigh' \/ PaceLowHit'
<1>1. Between("MUL2", "MUL1")'
  BY Arcs DEF PaceLow, NoFlags, Between
<1>2. Stage(0, 6)' \/ Stage(2, 11)'
  BY Tick DEF PaceLow, Between, Stage, LatchNow
<1>3. CASE bndry
  <2>1. Hit("MUL1", bndry) /\ state_r # "MUL2"
    BY <1>3 DEF PaceLow, Between, Hit, Equalizing, NoFlags
  <2>2. Redo1'
    BY <2>1, Flags DEF Redo1
  <2> QED
    BY <1>1, <1>2, <2>2 DEF PaceLowHit
<1>4. CASE ~bndry
  BY <1>1, <1>2, <1>4, Flags DEF PaceLow, PaceHigh
<1> QED
  BY <1>3, <1>4

\* ... (redone in the same way if it lay on the boundary) ...
LEMMA PaceFromLowHit ==
  ASSUME TypeOK, Step, fed, PaceLowHit
  PROVE  PaceLowRedo'
<1>1. Between("MUL1", "MUL2")' /\ Redo1'
  BY Arcs, Flags DEF PaceLowHit, Between, Redo1, Equalizing
<1>2. Stage(0, 7)' \/ Stage(4, 12)'
  BY Tick DEF PaceLowHit, Between, Stage, LatchNow
<1> QED
  BY <1>1, <1>2 DEF PaceLowRedo

\* ... (and only once: the high product that was latched too soon is latched
\* again on the same edge, and the delay line begins anew) ...
LEMMA PaceFromLowRedo ==
  ASSUME TypeOK, Step, fed, PaceLowRedo
  PROVE  PaceHigh'
<1>1. Between("MUL2", "MUL1")' /\ NoFlags'
  BY Arcs, Flags DEF PaceLowRedo, Between, Redo1, NoFlags, Equalizing
<1>2. Stage(1, 8)'
  BY Tick DEF PaceLowRedo, Between, Stage, LatchNow, Redo1
<1> QED
  BY <1>1, <1>2 DEF PaceHigh

\* ... and to the high product, ...
LEMMA PaceFromHigh ==
  ASSUME TypeOK, Step, fed, PaceHigh
  PROVE  PaceSquare' \/ PaceHighHit'
<1>1. Between("MUL0", "MUL2")'
  BY Arcs DEF PaceHigh, NoFlags, Between
<1>2. Stage(0, 7)' \/ Stage(2, 9)' \/ Stage(4, 12)'
  BY Tick DEF PaceHigh, Between, Stage, LatchNow
<1>3. CASE bndry
  <2>1. Hit("MUL2", bndry) /\ state_r # "MUL0"
    BY <1>3 DEF PaceHigh, Between, Hit, Equalizing, NoFlags
  <2>2. Redo2'
    BY <2>1, Flags DEF Redo2
  <2> QED
    BY <1>1, <1>2, <2>2 DEF PaceHighHit
<1>4. CASE ~bndry
  BY <1>1, <1>2, <1>4, Flags DEF PaceHigh, PaceSquare, Between
<1> QED
  BY <1>3, <1>4

\* ... whose final carry takes three more edges.
LEMMA PaceFromHighHit ==
  ASSUME TypeOK, Step, fed, PaceHighHit
  PROVE  PaceCarry1'
<1>1. Between("MUL2", "MUL0")' /\ mul2_equalize' /\ ~mul0_equalize' /\ ~mul1_equalize'
  BY Arcs, Flags DEF PaceHighHit, Between, Redo2, Equalizing
<1>2. Stage(1, 10)'
  BY Tick DEF PaceHighHit, Between, Stage, LatchNow, Redo2
<1> QED
  BY <1>1, <1>2 DEF PaceCarry1

\* The low half of m*P is computed, ...
LEMMA PaceFromCarry1 ==
  ASSUME TypeOK, Step, fed, PaceCarry1
  PROVE  PaceCarry2'
<1>1. Between("START", "MUL2")' /\ CarryOnly'
  BY Arcs, Flags DEF PaceCarry1, Between, Stage, CarryOnly, Equalizing
<1>2. Stage(2, 11)'
  BY Tick DEF PaceCarry1, Between, Stage, LatchNow
<1> QED
  BY <1>1, <1>2 DEF PaceCarry2

\* ... is out, while the machine waits in START, ...
LEMMA PaceFromCarry2 ==
  ASSUME TypeOK, Step, fed, PaceCarry2
  PROVE  PaceCarry3'
<1>1. Between("START", "START")' /\ CarryOnly'
  BY Arcs, Flags DEF PaceCarry2, Between, Stage, CarryOnly, Equalizing
<1>2. Stage(4, 12)'
  BY Tick DEF PaceCarry2, Between, Stage, LatchNow, CarryOnly
<1> QED
  BY <1>1, <1>2 DEF PaceCarry3

\* ... and its carry is added as the result leaves the delay line.
LEMMA PaceFromCarry3 ==
  ASSUME TypeOK, Step, fed, PaceCarry3
  PROVE  PaceStart'
<1>1. state' = "START" /\ state_r' = "START" /\ NoFlags'
  BY Arcs, Flags DEF PaceCarry3, Between, Stage, CarryOnly, Equalizing, NoFlags
<1>2. Stage(0, 1)'
  BY Tick DEF PaceCarry3, Between, Stage, LatchNow
<1> QED
  BY <1>1, <1>2 DEF PaceStart

\* Before the input has come through, no edge counts.
LEMMA PaceFromIdle ==
  ASSUME TypeOK, Step, PaceIdle
  PROVE  PaceIdle' \/ (fed' /\ PaceStart')
<1>1. PICK feed \in BOOLEAN, carries \in Carries : Edge(feed, carries)
  BY DEF Step
<1>2. /\ fed' = (fed \/ feed) /\ i_val_r' = feed
      /\ elapsed' = IF fed THEN elapsed + 1 ELSE 0
  BY <1>1 DEF Edge, FsmClock, History, PaceIdle, Stage
<1>3. /\ NoFlags' /\ state_r' = "IDLE" /\ o_val_d' = 0 /\ ~o_val' /\ squarings' = 0
      /\ IF i_val_r THEN state' = "START" ELSE state' = "IDLE"
  BY Flags, Arcs, DelayLine, Counting DEF PaceIdle, Between, Stage
<1>4. elapsed \in Nat /\ elapsed <= 0
  BY DEF TypeOK, DataTypeOK, PaceIdle, Stage
<1>5. CASE i_val_r
  <2>1. fed' /\ elapsed' <= 1
    <3>1. fed
      BY <1>5 DEF PaceIdle
    <3> QED
      BY <1>4, <3>1, Tick DEF PaceIdle, Stage
  <2> QED
    BY <1>3, <1>5, <2>1 DEF PaceStart, Stage
<1>6. CASE ~i_val_r
  <2>1. elapsed' <= 0 /\ (fed' <=> i_val_r')
    BY <1>2, <1>6 DEF PaceIdle
  <2> QED
    BY <1>3, <1>6, <2>1 DEF PaceIdle, Between, Stage
<1> QED
  BY <1>5, <1>6

\* The delay line takes an edge per stage.
LEMMA NotTooSoonStep ==
  ASSUME TypeOK, Step, NotTooSoon, PaceIdle \/ fed
  PROVE  NotTooSoon'
<1>1. CASE fed
  <2>1. elapsed \in Nat
    BY <1>1, Tick
  <2>2. ASSUME o_val_d' = 2 PROVE elapsed' >= 1
    <3>1. o_val_d = 1
      BY <1>1, <2>2, Tick, DelayLine
    <3> QED
      BY <1>1, <2>1, <3>1, Tick
  <2>3. ASSUME o_val_d' = 4 PROVE elapsed' >= 2
    <3>1. o_val_d = 2
      BY <1>1, <2>3, Tick, DelayLine
    <3> QED
      BY <1>1, <2>1, <3>1, Tick DEF NotTooSoon
  <2> QED
    BY <2>2, <2>3 DEF NotTooSoon
<1>2. CASE PaceIdle
  <2>1. o_val_d' = 0
    BY <1>2, DelayLine DEF PaceIdle, Between, Stage
  <2> QED
    BY <2>1 DEF NotTooSoon
<1> QED
  BY <1>1, <1>2

\* The pace is inductive, whatever the products are.
LEMMA PaceHolds == Spec => []Pace
<1>1. Init => Pace
  BY BoundsAssumption
     DEF Init, FsmInit, Pace, NotTooSoon, PaceIdle, Between, NoFlags, Stage
<1>2. TypeOK /\ Pace /\ [Next]_vars => Pace'
  <2> SUFFICES ASSUME TypeOK, Pace, [Next]_vars PROVE Pace'
    OBVIOUS
  <2>1. CASE Clock
    <3>1. Step
      BY <2>1 DEF Clock, Step
    <3>2. NotTooSoon' /\ job' <= MaxJobs
      BY <3>1, NotTooSoonStep, Counting DEF Pace
    <3>3. CASE PaceIdle
      BY <3>1, <3>2, <3>3, PaceFromIdle DEF Pace, PaceBusy
    <3>4. CASE fed /\ PaceBusy
      <4>1. fed'
        BY <3>1, <3>4, Tick
      <4>2. PaceBusy'
        BY <3>1, <3>4, PaceFromStart, PaceFromSquare, PaceFromSquareHit, PaceFromSquareRedo,
           PaceFromLow, PaceFromLowHit, PaceFromLowRedo, PaceFromHigh, PaceFromHighHit,
           PaceFromCarry1, PaceFromCarry2, PaceFromCarry3
           DEF PaceBusy
      <4> QED
        BY <3>2, <4>1, <4>2 DEF Pace
    <3> QED
      BY <3>3, <3>4 DEF Pace
  <2>2. CASE Reset
    <3>1. job \in Nat /\ MaxJobs \in Nat
      BY BoundsAssumption DEF TypeOK, DataTypeOK
    <3> QED
      BY <2>2, <3>1
         DEF Reset, FsmReset, Pace, NotTooSoon, PaceIdle, Between, NoFlags, Stage
  <2>3. CASE UNCHANGED vars
    BY <2>3 DEF vars, fsm_vars, fsm_regs, hist_vars, Pace, NotTooSoon, PaceIdle, PaceBusy,
       PaceStart, PaceSquare, PaceSquareHit, PaceSquareRedo, PaceLow, PaceLowHit, PaceLowRedo,
       PaceHigh, PaceHighHit, PaceCarry1, PaceCarry2, PaceCarry3,
       Redo0, Redo1, Redo2, CarryOnly, NoFlags, Between, Stage
  <2> QED
    BY <2>1, <2>2, <2>3 DEF Next
<1> QED
  BY <1>1, <1>2, TypeCorrect, PTL DEF Spec

(* No combination of redos makes the squarer circle, and none makes two    *)
(* results meet: they are at least three edges apart and at most thirteen. *)
THEOREM PacedAlways == Spec => []Paced
<1>1. ASSUME TypeOK, Pace PROVE Paced
  <2>1. elapsed \in Nat
    BY <1>1 DEF TypeOK, DataTypeOK
  <2>2. elapsed <= 12
    BY <1>1, <2>1 DEF Pace, PaceIdle, PaceBusy,
       PaceStart, PaceSquare, PaceSquareHit, PaceSquareRedo, PaceLow, PaceLowHit, PaceLowRedo,
       PaceHigh, PaceHighHit, PaceCarry1, PaceCarry2, PaceCarry3, Stage
  <2> QED
    BY <1>1, <2>2 DEF Pace, NotTooSoon, Paced, ShortestSquaring, LongestSquaring
<1> QED
  BY <1>1, TypeCorrect, PaceHolds, PTL

-----------------------------------------------------------------------------
(***************************************************************************)
(* At the ports.                                                           *)
(***************************************************************************)
\* The mapping's values: no input has been given, or that of job j is squared.
LEMMA Ports ==
  ASSUME NEW j, NEW k
  PROVE  /\ PortValue(Zero) = Squarer!NoValue
         /\ PortValue(X(j, k)) = Squarer!Value(j, k)
         /\ Squarer!Square(Squarer!Value(j, k)) = Squarer!Value(j, k + 1)
BY DEF PortValue, Zero, X, Tag, Squarer!NoValue, Squarer!Value, Squarer!Square

\* An edge without reset.
LEMMA ClockIsEdge ==
  ASSUME TypeOK, TypeOK', Pace, Pace', Schedule', Clock, ~coincided'
  PROVE  [Squarer!SquarerNext]_(Squarer!squarer_vars)
<1>1. PICK feed \in BOOLEAN, carries \in Carries : (feed => ~fed) /\ Edge(feed, carries)
  BY DEF Clock
<1>2. Step
  BY <1>1 DEF Step
<1>3. fed' = (fed \/ feed) /\ job' = job /\ (o_val' <=> o_val_d = 4)
  BY <1>1, <1>2, Counting, DelayLine DEF Edge
<1>4. {fed, fed', o_val, o_val'} \subseteq BOOLEAN
  BY DEF TypeOK, FsmTypeOK, DataTypeOK
<1>5. CASE ~fed
  <2>1. PaceIdle
    BY <1>5 DEF Pace
  <2>2. /\ squarings = 0 /\ squarings' = 0 /\ ~o_val /\ ~o_val' /\ elapsed' = 0
        /\ elapsed = 0
    <3>1. elapsed' = 0
      BY <1>1, <1>5 DEF Edge, History
    <3>2. elapsed = 0
      BY <2>1 DEF PaceIdle, Stage, TypeOK, DataTypeOK
    <3> QED
      BY <1>2, <1>3, <2>1, <3>1, <3>2, Counting DEF PaceIdle, Stage
  <2>3. CASE feed
    <3>1. fed'
      BY <1>3, <2>3, Zenon
    <3>2. job \in 0 .. MaxJobs
      BY BoundsAssumption DEF Pace, TypeOK, DataTypeOK
    <3>3. Squarer!Feed(Squarer!Value(job, 0))
      BY <1>3, <1>5, <2>2, <3>1, Ports DEF Squarer!Feed
    <3> QED
      BY <3>2, <3>3 DEF Squarer!SquarerNext
  <2>4. CASE ~feed
    <3>1. ~fed'
      BY <1>3, <1>5, <2>4, Zenon
    <3>2. fed = FALSE /\ fed' = FALSE /\ o_val = FALSE /\ o_val' = FALSE
      BY <1>4, <1>5, <2>2, <3>1
    <3> QED
      BY <2>2, <3>2 DEF Squarer!squarer_vars
  <2> QED
    BY <2>3, <2>4
<1>6. CASE fed
  <2>1. fed' /\ elapsed \in Nat
    BY <1>2, <1>6, Tick
  <2>2. CASE o_val_d = 4
    <3>1. o_val' /\ elapsed' = 0 /\ squarings' = squarings + 1 /\ elapsed >= 2
      BY <1>2, <1>3, <1>6, <2>2, Tick, Counting DEF Pace, NotTooSoon
    <3>2. o_mul' = X(job, squarings + 1)
      BY <1>3, <3>1 DEF Schedule, EveryResultIsNextIterate
    <3>3. fed = TRUE /\ fed' = TRUE /\ o_val' = TRUE
      BY <1>4, <1>6, <2>1, <3>1
    <3>4. /\ PortValue(X(job', squarings')) = Squarer!Square(PortValue(X(job, squarings)))
          /\ o_mul' = X(job', squarings')
      BY <1>3, <3>1, <3>2, Ports
    <3>5. Squarer!Announce
      BY <2>1, <3>1, <3>4, <3>3 DEF Squarer!Announce, ShortestSquaring
    <3> QED
      BY <3>5 DEF Squarer!SquarerNext
  <2>3. CASE o_val_d # 4
    <3>1. ~o_val' /\ elapsed' = elapsed + 1 /\ squarings' = squarings
      BY <1>2, <1>3, <1>6, <2>3, Tick, Counting
    <3>2. elapsed' <= 12
      BY <2>1, <3>1 DEF Pace, PaceIdle, PaceBusy,
         PaceStart, PaceSquare, PaceSquareHit, PaceSquareRedo, PaceLow, PaceLowHit, PaceLowRedo,
         PaceHigh, PaceHighHit, PaceCarry1, PaceCarry2, PaceCarry3, Stage
    <3>3. fed = TRUE /\ fed' = TRUE /\ o_val' = FALSE
      BY <1>4, <1>6, <2>1, <3>1
    <3>4. X(job', squarings') = X(job, squarings) /\ PortValue(Zero) = Squarer!NoValue
      BY <1>3, <3>1, Ports
    <3>5. Squarer!Work
      BY <2>1, <3>1, <3>2, <3>4, <3>3 DEF Squarer!Work, LongestSquaring
    <3> QED
      BY <3>5 DEF Squarer!SquarerNext
  <2> QED
    BY <2>2, <2>3
<1> QED
  BY <1>5, <1>6

(* The squarer implements IteratingSquarer, for any number of jobs and     *)
(* squarings: after each input its successive squares, in time, each of    *)
(* them once, and none of them after a reset.                              *)
THEOREM SquarerImplemented == UncoincidedSpec => IteratesSquares
<1>1. Init => Squarer!SquarerInit
  BY Ports DEF Init, FsmInit, Squarer!SquarerInit
<1>2. TypeOK /\ TypeOK' /\ Pace /\ Pace' /\ Schedule' /\ [Next /\ ~coincided']_vars
        => [Squarer!SquarerNext]_(Squarer!squarer_vars)
  <2> SUFFICES ASSUME TypeOK, TypeOK', Pace, Pace', Schedule', [Next /\ ~coincided']_vars
               PROVE  [Squarer!SquarerNext]_(Squarer!squarer_vars)
    OBVIOUS
  <2>1. CASE Clock /\ ~coincided'
    BY <2>1, ClockIsEdge
  <2>2. CASE Reset
    <3>1. ~fed' /\ ~o_val' /\ elapsed' = 0
      BY <2>2 DEF Reset, FsmReset
    <3>2. Squarer!Stop
      BY <3>1, Ports DEF Squarer!Stop
    <3> QED
      BY <3>2 DEF Squarer!SquarerNext
  <2>3. CASE UNCHANGED vars
    BY <2>3 DEF vars, fsm_vars, fsm_regs, data_vars, hist_vars, Squarer!squarer_vars
  <2> QED
    BY <2>1, <2>2, <2>3 DEF Next
<1>3. UncoincidedSpec => Spec
  <2>1. [Next /\ ~coincided']_vars => [Next]_vars
    OBVIOUS
  <2> QED
    BY <2>1, PTL DEF UncoincidedSpec, Spec
<1> QED
  BY <1>1, <1>2, <1>3, TypeCorrect, PaceHolds, ScheduleHolds, PTL
     DEF UncoincidedSpec, IteratesSquares, Squarer!SquarerSpec
=============================================================================
