------------------------- MODULE ModularArithmetic --------------------------
(***************************************************************************)
(* The Python programs compute with integers of any size; TLC's have 32    *)
(* bits.  These functions give a product, a shift and the value of an      *)
(* array of words modulo m by doubling and adding, never leaving           *)
(* 0 .. m - 1, so that every modulus below 2^31 can be used.               *)
(***************************************************************************)
EXTENDS Integers

AddMod(a, b, m) == IF a >= m - b THEN a - (m - b) ELSE a + b

\* a * 2^n % m
ShiftMod(a, n, m) ==
  LET shifted[k \in 0..n] ==
        IF k = 0 THEN a % m ELSE LET r == shifted[k - 1] IN AddMod(r, r, m)
  IN  shifted[n]

\* a * b % m
MulMod(a, b, m) ==
  LET times[k \in 0..b] ==
        IF k = 0 THEN 0
        ELSE LET r == times[k \div 2]
             IN  IF k % 2 = 1 THEN AddMod(AddMod(r, r, m), a % m, m) ELSE AddMod(r, r, m)
  IN  times[b]

(***************************************************************************)
(* The sum of p[k] * 2^(w * (k + at)) modulo m, p being an array           *)
(* 0 .. n - 1 of words of any size: Horner's scheme, from the top word.    *)
(***************************************************************************)
Residue(p, n, at, w, m) ==
  LET sum[k \in 0..n, r \in Nat] ==
        IF k = 0 THEN r
        ELSE sum[k - 1, AddMod(ShiftMod(r, w, m), p[k - 1] % m, m)]
  IN  ShiftMod(sum[n, 0], w * at, m)
=============================================================================
