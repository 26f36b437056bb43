----------------------------- MODULE VdfCounter -----------------------------
(***************************************************************************)
(* vdf_counter.sv: a counter of some width that can be loaded, stepped up  *)
(* or down (both at once is neither) and wraps, with a register of its own *)
(* for is_zero, worked out from the count before the step.                 *)
(***************************************************************************)
EXTENDS Naturals

Counters(width) == [count : 0 .. 2^width - 1, is_zero : BOOLEAN]

\* On reset, with C_INIT, and on load.
Loaded(value) == [count |-> value, is_zero |-> value = 0]

Stepped_Unwrapped(c, width, incr, decr) ==
  IF incr /\ ~decr
  THEN [count |-> c.count + 1, is_zero |-> c.count = 2^width - 1]
  ELSE IF decr /\ ~incr
  THEN [count |-> c.count - 1, is_zero |-> c.count = 1]
  ELSE c
Stepped(c, width, incr, decr) ==
  IF incr /\ ~decr
  THEN [count |-> (c.count + 1) % 2^width, is_zero |-> c.count = 2^width - 1]
  ELSE IF decr /\ ~incr
  THEN [count |-> (c.count + 2^width - 1) % 2^width, is_zero |-> c.count = 1]
  ELSE c
=============================================================================
