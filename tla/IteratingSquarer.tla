-------------------------- MODULE IteratingSquarer --------------------------
(***************************************************************************)
(* What redun_mont.sv promises its user, seen at its ports: given a value  *)
(* it announces the value's successive squares, one at a time, at least    *)
(* MinGap and at most MaxGap edges apart, until it is reset.               *)
(*                                                                         *)
(* RedunMontDataflow is shown to implement this specification; MsuSystem   *)
(* is built on its actions.                                                *)
(***************************************************************************)
EXTENDS Naturals

CONSTANTS MinGap, MaxGap

ASSUME GapAssumption == MinGap \in Nat \ {0} /\ MaxGap \in Nat /\ MinGap <= MaxGap

\* A value by its provenance: the k-th square of the input of a job.
Value(job, k) == [job |-> job, k |-> k]
NoValue == Value(0, 0)
Square(v) == [v EXCEPT !.k = @ + 1]

VARIABLES
  running,      \* has an input arrived since the last reset?
  x,            \* the value squared last
  since,        \* edges since the input or the last result
  o_val, o_mul  \* the output ports

squarer_vars == <<running, x, since, o_val, o_mul>>

SquarerInit ==
  /\ running = FALSE /\ x = NoValue /\ since = 0
  /\ o_val = FALSE /\ o_mul = NoValue

\* The first edge with i_val after a reset takes the input; later ones and
\* those on which i_rst is high do not.
Feed(v) ==
  /\ ~running
  /\ running' = TRUE /\ x' = v /\ since' = 0
  /\ o_val' = FALSE /\ o_mul' = NoValue

Rest == ~running /\ UNCHANGED squarer_vars

Work ==
  /\ running /\ since + 1 < MaxGap
  /\ since' = since + 1
  /\ o_val' = FALSE /\ o_mul' = NoValue
  /\ UNCHANGED <<running, x>>

Announce ==
  /\ running /\ since + 1 >= MinGap
  /\ x' = Square(x) /\ since' = 0
  /\ o_val' = TRUE /\ o_mul' = x'
  /\ UNCHANGED running

Stop ==
  /\ running' = FALSE /\ x' = NoValue /\ since' = 0
  /\ o_val' = FALSE /\ o_mul' = NoValue

\* An edge of the squarer's clock.
SquarerEdge(i_rst, i_val, i_sq) ==
  IF i_rst THEN Stop
  ELSE IF ~running THEN (IF i_val THEN Feed(i_sq) ELSE Rest)
  ELSE Work \/ Announce

CONSTANT Jobs       \* the inputs' provenance

SquarerNext == Stop \/ (\E j \in Jobs : Feed(Value(j, 0))) \/ Work \/ Announce

SquarerSpec == SquarerInit /\ [][SquarerNext]_squarer_vars
=============================================================================
