----------------------------- MODULE Primitives -----------------------------
(***************************************************************************)
(* primitives.py: numbers as lists of bits, the full adder, the carry-save *)
(* adder, the 3:2 compressor tree and the multiplier whose columns are     *)
(* left as a carry and a sum.  A list of bits is the set of the positions  *)
(* that hold a one; bit_len, which the Python code passes along to size    *)
(* its lists, bounds those positions only where a number becomes a list.   *)
(***************************************************************************)
EXTENDS Integers, Sequences, SequencesExt

LOCAL FSE == INSTANCE FiniteSetsExt

int_to_bits(x, bit_len) == {b \in 0..bit_len - 1 : (x \div 2^b) % 2 = 1}

bits_to_int(X) == FSE!MapThenSumSet(LAMBDA b : 2^b, X)

\* Full adder, on bits that are set or not.
fa(A, B, Cin) ==
  [S    |-> (A # B) # Cin,
   Cout |-> (A /\ B) \/ (Cin /\ (A # B))]

\* Carry-save adder: the carry out of each position, and the sum bits.
csa(A, B, Cin) ==
  LET bit(b) == fa(b \in A, b \in B, b \in Cin)
      any    == A \cup B \cup Cin
  IN  [Cout |-> {b \in any : bit(b).Cout}, S |-> {b \in any : bit(b).S}]

\* cout.insert(0, 0)
Shifted(X) == {b + 1 : b \in X}

\* Mutant: of two terms left over only one is passed on.
csa_level_drops_term(terms) ==
  LET adders == [g \in 1..Len(terms) \div 3 |->
                   LET r == csa(terms[3*g - 2], terms[3*g - 1], terms[3*g])
                   IN  <<Shifted(r.Cout), r.S>>]
      left   == [k \in 1..Len(terms) % 3 |->
                   IF k = 1 THEN terms[Len(terms)] ELSE {}]
  IN  FlattenSeq(adders) \o left

(***************************************************************************)
(* One level of the tree: three consecutive terms become a carry and a     *)
(* sum; the one or two terms left over follow, the last one first.         *)
(***************************************************************************)
csa_level(terms) ==
  LET adders == [g \in 1..Len(terms) \div 3 |->
                   LET r == csa(terms[3*g - 2], terms[3*g - 1], terms[3*g])
                   IN  <<Shifted(r.Cout), r.S>>]
      left   == [k \in 1..Len(terms) % 3 |-> terms[Len(terms) + 1 - k]]
  IN  FlattenSeq(adders) \o left

(***************************************************************************)
(* The tree, for three terms or more: levels until three terms remain.     *)
(***************************************************************************)
RECURSIVE compressor_tree(_)
compressor_tree(terms) ==
  IF Len(terms) = 3
  THEN LET r == csa(terms[1], terms[2], terms[3])
       IN  [cout |-> Shifted(r.Cout), s |-> r.S]
  ELSE compressor_tree(csa_level(terms))

(***************************************************************************)
(* The product of A and B, arrays 0 .. NUM_ELEMENTS - 1 of words, column   *)
(* by column: column k is worth cout[k] + s[k].  Row 2i of column i + j    *)
(* holds the low word of A[i] * B[j], row 2i + 1 of the next column what   *)
(* is above it.  The first and the last column hold one entry and are not  *)
(* compressed.                                                             *)
(***************************************************************************)
multiply(A, B, NUM_ELEMENTS, COL_BIT_LEN, WORD_LEN) ==
  LET last == 2 * NUM_ELEMENTS - 1
      low(i, j)  == IF j \in 0..NUM_ELEMENTS - 1
                    THEN (A[i] * B[j]) % 2^WORD_LEN ELSE 0
      high(i, j) == IF j \in 0..NUM_ELEMENTS - 1
                    THEN ((A[i] * B[j]) \div 2^WORD_LEN) % 2^COL_BIT_LEN ELSE 0
      grid(col)  == <<>> \o [row \in 1..2 * NUM_ELEMENTS |->
                               LET i == (row - 1) \div 2
                               IN  int_to_bits(IF row % 2 = 1 THEN low(i, col - i)
                                               ELSE high(i, col - 1 - i), COL_BIT_LEN)]
      column(col) ==
        IF col = 0 THEN [cout |-> 0, s |-> low(0, 0)]
        ELSE IF col = last
        THEN [cout |-> 0, s |-> high(NUM_ELEMENTS - 1, NUM_ELEMENTS - 1)]
        ELSE LET r == compressor_tree(grid(col))
             IN  [cout |-> bits_to_int(r.cout), s |-> bits_to_int(r.s)]
  IN  [col \in 0..last |-> column(col)]
=============================================================================
