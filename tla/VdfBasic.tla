------------------------------ MODULE VdfBasic ------------------------------
(***************************************************************************)
(* The delay function itself, as vdf_basic.py computes it: t modular       *)
(* squarings one after the other, each of the result of the one before.    *)
(* Every squarer of the repository is there to do one pass of this loop    *)
(* faster; ModularSquare9Cycles is shown to implement it.                  *)
(***************************************************************************)
EXTENDS ModularArithmetic

CONSTANTS
  Seeds,  \* the values of getrandbits(NUM_BITS)
  t       \* NUM_ITERATIONS

VARIABLES
  N,  \* the modulus: set at the start, never assigned
  x,  \* the running square
  i   \* passes of the loop

vars == <<N, x, i>>

Init ==
  /\ N \in Nat \ {0}
  /\ x \in Seeds
  /\ i = 0

\* One pass of the loop.
Square ==
  /\ i < t
  /\ x' = MulMod(x % N, x % N, N)
  /\ i' = i + 1
  /\ N' = N

Spec == Init /\ [][Square]_vars
=============================================================================
