---------------------------- MODULE RedunMontPkg ----------------------------
(***************************************************************************)
(* redun_mont_pkg.sv: numbers below 2^DAT_BITS as NUM_WRDS words of        *)
(* WRD_BITS bits, each with one redundant bit, and Montgomery arithmetic   *)
(* with R = 2^DAT_BITS.  One word more than the modulus needs makes the    *)
(* final comparison with P unnecessary.                                    *)
(***************************************************************************)
EXTENDS Integers, FiniteSetsExt

CONSTANTS
  NUM_WRDS,             \* words of a field element
  WRD_BITS,             \* bits of a word without the redundant one
  P                     \* the modulus: odd, and one word shorter than R

ASSUME PkgAssumption ==
  /\ NUM_WRDS \in Nat /\ NUM_WRDS >= 3
  /\ WRD_BITS \in Nat \ {0}
  /\ P \in Nat /\ P % 2 = 1 /\ P > 1
  /\ P < 2^((NUM_WRDS - 1) * WRD_BITS)

WordIdx   == 0 .. NUM_WRDS - 1
DoubleIdx == 0 .. 2 * NUM_WRDS - 1
Base == 2^WRD_BITS
R    == 2^(NUM_WRDS * WRD_BITS)

SPECULATIVE_CARRY_WRDS == 2
BOUNDARY_THRESHOLD == 2

Redun0 == [WordIdx -> 0 .. 2 * Base - 1]       \* redun0_t
Redun1 == [DoubleIdx -> 0 .. 2 * Base - 1]     \* redun1_t

\* (x * y) mod R by halves of x, so that TLC's 32-bit integers suffice.
MulModR(x, y) ==
  LET half == 2^((NUM_WRDS * WRD_BITS) \div 2)
  IN  ((((x \div half) * y) % R) * half + (x % half) * y) % R

-----------------------------------------------------------------------------
Word(x, i) == (x \div Base^i) % Base
to_redun(x) == [i \in WordIdx |-> Word(x, i)]
from_redun(w) == MapThenSumSet(LAMBDA i : w[i] * Base^i, WordIdx)

\* Sum the low words, give each its own bits back and add what overflows
\* the boundary to the first upper word.
equalize(w) ==
  LET res == from_redun(w)
  IN  [i \in DoubleIdx |-> IF i < NUM_WRDS THEN Word(res, i)
                           ELSE IF i = NUM_WRDS THEN (w[i] + (res \div R)) % (2 * Base)
                           ELSE w[i]]

\* MONT_FACTOR: calculate_mont_factor() gives the number F with
\* F * P = R * (R^-1 mod P) - 1, that is -1/P mod R.
MONT_FACTOR == CHOOSE f \in 0 .. R - 1 : MulModR(f, P) = R - 1

fe_mul_mont(a, b) ==
  LET m_ == a * b
  IN  (MulModR(m_ % R, MONT_FACTOR) * P + m_) \div R
=============================================================================
