-------------------------- MODULE MCModularSquare ---------------------------
(***************************************************************************)
(* ModularSquare9Cycles for TLC: eight words of four bits and two          *)
(* redundant ones, the smallest of the script's test parameters.  The      *)
(* inputs are chosen so that words of V7V6, of V5V4, of both and of none   *)
(* overflow.                                                               *)
(***************************************************************************)
EXTENDS ModularSquare9Cycles

Hex(digits) == [j \in Words(NONREDUNDANT_ELEMENTS) |->
                  digits[NONREDUNDANT_ELEMENTS - j]]

\* Regular patterns of words.
Steps == {[j \in Words(NONREDUNDANT_ELEMENTS) |-> (a * j + b) % 2^WORD_LEN] :
            a \in {0, 1, 3, 7, 8, 11}, b \in {0, 2, 5, 9, 14, 15}}

Inputs == Steps \cup {
  Hex(<<15, 15, 15, 15, 15, 15, 15, 15>>),
  Hex(<<14, 10,  7, 11,  5, 11, 15,  5>>),
  Hex(<<12,  6, 15,  8, 13, 10,  3, 14>>),
  Hex(<< 7,  1, 13,  2, 10, 15,  7, 12>>),
  Hex(<<15,  6, 12, 14, 13,  9,  0, 10>>),
  Hex(<<14,  0, 15, 13,  6,  7, 13, 13>>),
  Hex(<< 9, 13,  5,  2,  0,  0, 14, 15>>),
  Hex(<<12, 15,  4, 12, 12,  2,  3,  9>>),
  Hex(<< 4,  4,  5, 15, 10, 13,  2, 10>>),
  Hex(<< 0,  0,  0,  0,  0,  0,  0,  1>>) }

\* A prime near the largest, a composite, a small prime; the last is 2^16 + 1.
SomeModuli == {2147483629, 1985771303, 3, 65537}
=============================================================================
