-------------------------------- MODULE Mont --------------------------------
(***************************************************************************)
(* Montgomery arithmetic as the repository has it three times: the class   *)
(* Mont of mont.py, the functions of redun_mont_pkg.sv that compute the    *)
(* hardware's constants, and MontReducer of Squarer.hpp.  They differ in   *)
(* how they invert: plain Euclid, binary Euclid, and GMP.                  *)
(*                                                                         *)
(* The final subtraction is left out everywhere, so values are defined up  *)
(* to a multiple of the modulus.  mont.py asserts that they are not.       *)
(***************************************************************************)
EXTENDS Integers

CONSTANT reducerbits   \* DAT_BITS: those of the modulus and a word

reducer == 2^reducerbits

-----------------------------------------------------------------------------
(* Inverses *)

(***************************************************************************)
(* mont.py: a simplification of the extended Euclidean algorithm; "none"   *)
(* where it raises ValueError.                                             *)
(***************************************************************************)
reciprocal_mod(x0, mod) ==
  LET euclid[s \in Nat \X Nat \X Int \X Int] ==
        LET x == s[1]  y == s[2]  a == s[3]  b == s[4]
        IN  IF y # 0 THEN euclid[<<y, x % y, b, a - (x \div y) * b>>]
            ELSE IF x = 1 THEN a % mod ELSE "none"
  IN  euclid[<<mod, x0, 0, 1>>]

fe_sub(a, b, P) == IF b > a THEN a - b + P ELSE a - b

\* Mutant: an odd coefficient is halved without the modulus added.
fe_inv_rounds(a, P) ==
  LET halved[p \in Nat \X Int] ==
        IF p[1] > 0 /\ p[1] % 2 = 0 THEN halved[<<p[1] \div 2, p[2] \div 2>>] ELSE p
      subtracted(p, q) == IF p[1] >= q[1]
                          THEN <<p[1] - q[1], fe_sub(p[2], q[2], P), q[1], q[2]>>
                          ELSE <<p[1], p[2], q[1] - p[1], fe_sub(q[2], p[2], P)>>
      inv[s \in Nat \X Int \X Nat \X Int] ==
        IF s[1] = 1 THEN s[2] ELSE IF s[3] = 1 THEN s[4]
        ELSE inv[subtracted(halved[<<s[1], s[2]>>], halved[<<s[3], s[4]>>])]
  IN  inv[<<a, 1, P, 0>>]

(***************************************************************************)
(* redun_mont_pkg.sv: binary Euclid on <<u, x1, v, x2>>, where x1 * a = u  *)
(* and x2 * a = v modulo P.  Halving a u of 0 would not end, in the code;  *)
(* it comes up only if a and P have a divisor in common.                   *)
(***************************************************************************)
fe_inv(a, P) ==
  LET halved[p \in Nat \X Int] ==
        IF p[1] > 0 /\ p[1] % 2 = 0
        THEN halved[<<p[1] \div 2, (IF p[2] % 2 = 0 THEN p[2] ELSE p[2] + P) \div 2>>]
        ELSE p
      subtracted(p, q) == IF p[1] >= q[1]
                          THEN <<p[1] - q[1], fe_sub(p[2], q[2], P), q[1], q[2]>>
                          ELSE <<p[1], p[2], q[1] - p[1], fe_sub(q[2], p[2], P)>>
      inv[s \in Nat \X Int \X Nat \X Int] ==
        IF s[1] = 1 THEN s[2] ELSE IF s[3] = 1 THEN s[4]
        ELSE inv[subtracted(halved[<<s[1], s[2]>>], halved[<<s[3], s[4]>>])]
  IN  inv[<<a, 1, P, 0>>]

\* Squarer.hpp: GMP's.
mpz_invert(x, mod) == CHOOSE r \in 0..mod - 1 : (r * x) % mod = 1

-----------------------------------------------------------------------------
(* Constants of a modulus *)

calculate_mont_factor(P) == (reducer * fe_inv(reducer % P, P) - 1) \div P

\* self.factor, self.reciprocal_sq, self.convertedone
Mont(mod) ==
  [modulus       |-> mod,
   factor        |-> (reducer * reciprocal_mod(reducer % mod, mod) - 1) \div mod,
   reciprocal_sq |-> (reducer * reducer) % mod,
   convertedone  |-> reducer % mod]

\* mont_init: the division rounds up, but leaves nothing.
mont_init(mod) ==
  [modulus       |-> mod,
   factor        |-> (reducer * mpz_invert(reducer % mod, mod) - 1 + mod - 1) \div mod,
   reciprocal_sq |-> (reducer * reducer) % mod]

-----------------------------------------------------------------------------
(* Products *)

\* Mutant: with the final subtraction.
mont_mult_subtracted(op1, op2, mod, factor) ==
  ((op1 * op2 + ((((op1 * op2) % reducer) * factor) % reducer) * mod) \div reducer) % mod

\* mont_mult, and fe_mul_mont: op1 * op2 / reducer, up to the modulus.
mont_mult(op1, op2, mod, factor) ==
  (op1 * op2 + ((((op1 * op2) % reducer) * factor) % reducer) * mod) \div reducer

AssertionError == -1

\* mont.py's multiply asserts that the result is below the modulus.
multiply(x, y, mont) ==
  IF AssertionError \in {x, y} THEN AssertionError
  ELSE LET result == mont_mult(x, y, mont.modulus, mont.factor)
       IN  IF result < mont.modulus THEN result ELSE AssertionError

convert_in(x, mont)  == multiply(x, mont.reciprocal_sq, mont)
convert_out(x, mont) == multiply(x, 1, mont)

\* pow: square and multiply, from the low bit of y; it squares once too often,
\* and that product is asserted too.
pow(x0, y0, mont) ==
  LET run[s \in Int \X Nat \X Int] ==
        LET x == s[1]  y == s[2]  z == s[3]
        IN  IF y = 0 THEN (IF x = AssertionError THEN x ELSE z)
            ELSE run[<<multiply(x, x, mont), y \div 2,
                       IF y % 2 = 1 THEN multiply(z, x, mont) ELSE z>>]
  IN  run[<<x0, y0, mont.convertedone>>]
=============================================================================
