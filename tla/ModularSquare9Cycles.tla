------------------------ MODULE ModularSquare9Cycles ------------------------
(***************************************************************************)
(* modular_square_9_cycles.py: the software model of a squarer that takes  *)
(* nine cycles.  The input is cut into four segments; their ten products   *)
(* are formed two a cycle, from the top down, in carry-save columns; the   *)
(* columns of each cycle are compressed, two cycles later, into partial    *)
(* polynomials V7V6, V5V4, V3 and V2V0.  What lies above the modulus is    *)
(* not divided but looked up: each word of V7V6 and V5V4 is the address of *)
(* tables that hold its residue, half a word at a time, and a third time   *)
(* for words that overflowed.  The residues and V3, V2V0 accumulate in     *)
(* words that are never fully carried; the sum of at most NUM_ELEMENTS     *)
(* words is congruent to the square, not reduced, and is the next input.   *)
(*                                                                         *)
(* One action per cycle; a variable holds what a later cycle reads.        *)
(***************************************************************************)
EXTENDS Primitives, ModularArithmetic, FiniteSets

CONSTANTS
  REDUNDANT_ELEMENTS, NONREDUNDANT_ELEMENTS, NUM_SEGMENTS, BIT_LEN, WORD_LEN,
  Moduli,     \* random.getrandbits(k*l)
  SqrIns,     \* random.getrandbits(k*l), as arrays of words
  num_tests

ASSUME ParameterAssumption ==
  /\ NUM_SEGMENTS = 4 /\ REDUNDANT_ELEMENTS \in {1, 2}
  /\ NONREDUNDANT_ELEMENTS % NUM_SEGMENTS = 0
  /\ WORD_LEN % 2 = 0 /\ BIT_LEN = WORD_LEN + 1
  /\ Moduli \subseteq Nat \ {0}

NUM_ELEMENTS     == REDUNDANT_ELEMENTS + NONREDUNDANT_ELEMENTS
SEGMENT_ELEMENTS == NONREDUNDANT_ELEMENTS \div NUM_SEGMENTS
MUL_NUM_ELEMENTS == SEGMENT_ELEMENTS + REDUNDANT_ELEMENTS
EXTRA_ELEMENTS   == 2
TWO_SEGMENTS     == SEGMENT_ELEMENTS * 2 + REDUNDANT_ELEMENTS + EXTRA_ELEMENTS
THREE_SEGMENTS   == SEGMENT_ELEMENTS * 3 + REDUNDANT_ELEMENTS + EXTRA_ELEMENTS
GRID_SIZE        == MUL_NUM_ELEMENTS * 2 + SEGMENT_ELEMENTS + 1

ceil_log2(n) == CHOOSE b \in 0..31 : n <= 2^b /\ (b = 0 \/ n > 2^(b - 1))

MUL_BIT_LEN  == BIT_LEN * 2 - WORD_LEN + ceil_log2(MUL_NUM_ELEMENTS)
GRID_BIT_LEN == ceil_log2((2^BIT_LEN - 1) + (2^WORD_LEN - 1) * 4
                          + (2^(MUL_BIT_LEN - WORD_LEN) - 1) * 4)
LOOK_UP_WIDTH == WORD_LEN \div 2
LUT_SIZE      == 2^LOOK_UP_WIDTH

low_word(v)  == v % 2^WORD_LEN
high_word(v) == v \div 2^WORD_LEN
Words(n)     == 0..n - 1  \* the indices of an array of n words

-----------------------------------------------------------------------------
VARIABLES
  mod_in, redLUT,  \* the modulus and its tables
  sqr_in,          \* the input: words, the top one of any size
  tests_run,
  cycle,           \* the cycle that is next; 9: the result is complete
  grid,            \* the columns of cycles 0..4, until they are compressed
  poly,            \* the partial polynomials
  row,             \* the rows read from the tables
  overflow,        \* v7v6_overflow and v5v4_overflow
  curr_accum

vars == <<mod_in, redLUT, sqr_in, tests_run, cycle, grid, poly, row, overflow,
          curr_accum>>

\* What a local of the function is before it is assigned.
unset == <<>>

-----------------------------------------------------------------------------
(* Reduction tables *)

\* Mutant: the words of a row are not masked.
TableRow_unmasked(j, at, m) ==
  LET cur == MulMod(ShiftMod(1, at * WORD_LEN, m), j, m)
  IN  [k \in Words(NONREDUNDANT_ELEMENTS) |-> cur \div 2^(WORD_LEN * k)]

\* The residue of j at weight 2^(WORD_LEN * at), cut into words.
TableRow(j, at, m) ==
  LET cur == MulMod(ShiftMod(1, at * WORD_LEN, m), j, m)
  IN  [k \in Words(NONREDUNDANT_ELEMENTS) |-> low_word(cur \div 2^(WORD_LEN * k))]

(***************************************************************************)
(* One memory per word of V7V6 and of V5V4: the lower half of its          *)
(* addresses for V7V6, the upper half for V5V4.                            *)
(***************************************************************************)
generate_reduction_luts(m) ==
  [z \in Words(TWO_SEGMENTS) |->
     [y \in Words(2 * LUT_SIZE) |->
        IF y < LUT_SIZE
        THEN TableRow(y, z + NONREDUNDANT_ELEMENTS + SEGMENT_ELEMENTS * 2, m)
        ELSE TableRow(y - LUT_SIZE, z + NONREDUNDANT_ELEMENTS, m)]]

-----------------------------------------------------------------------------
(* Partial carries, grids and their compression *)

(***************************************************************************)
(* Each word but the top one passes what exceeds it to the next, once and  *)
(* from the top down: a carry does not ripple, and words may stay above    *)
(* 2^WORD_LEN - 1.                                                         *)
(***************************************************************************)
partial_reduction(p_v, elements) ==
  [i \in Words(elements) |->
     (IF i = elements - 1 THEN p_v[i] ELSE low_word(p_v[i]))
     + (IF i = 0 THEN 0 ELSE high_word(p_v[i - 1]))]

\* The words of the input that are used: each is masked.
sqr_in_v == [i \in Words(NUM_ELEMENTS) |-> low_word(sqr_in[i])]

\* Four segments; the last one has the redundant words too.
sqr_in_seg ==
  [s \in Words(NUM_SEGMENTS) |->
     [j \in Words(MUL_NUM_ELEMENTS) |->
        IF j < SEGMENT_ELEMENTS \/ s = NUM_SEGMENTS - 1
        THEN sqr_in_v[s * SEGMENT_ELEMENTS + j] ELSE 0]]

\* Input mux select for multiply factors, cycle by cycle.
mul0_A == <<3, 2, 3, 2, 0>>
mul0_B == <<2, 2, 0, 0, 0>>
mul1_A == <<3, 3, 2, 1, 1>>
mul1_B == <<3, 1, 1, 1, 0>>
\* Mutant: W2*W0 is not doubled.
mul0_result_shift_single == <<1, 0, 1, 0, 0>>
mul0_result_shift == <<1, 0, 1, 1, 0>>
mul1_result_shift == <<0, 1, 1, 0, 1>>
mul1_first        == <<0, 1, 1, 1, 0>>

(***************************************************************************)
(* The columns of a cycle: in each the carry and the sum of both           *)
(* multipliers, doubled where the square needs the product twice, the low  *)
(* word in the product's column and the rest in the one above.  The        *)
(* product of the second multiplier may start a segment higher.  Row 9 is  *)
(* left for an earlier cycle's result.                                     *)
(***************************************************************************)
set_grid_5_cycle(c) ==
  LET factor(s) == sqr_in_seg[s]
      product(A, B) == multiply(factor(A), factor(B), MUL_NUM_ELEMENTS,
                                MUL_BIT_LEN, WORD_LEN)
      mul0 == product(mul0_A[c + 1], mul0_B[c + 1])
      mul1 == product(mul1_A[c + 1], mul1_B[c + 1])
      off1 == IF mul1_first[c + 1] = 1 THEN 0 ELSE SEGMENT_ELEMENTS
      v0(j, f) == IF j \in DOMAIN mul0 THEN mul0[j][f] * 2^mul0_result_shift[c + 1]
                  ELSE 0
      v1(j, f) == IF j \in DOMAIN mul1 THEN mul1[j][f] * 2^mul1_result_shift[c + 1]
                  ELSE 0
  IN  [col \in Words(GRID_SIZE) |->
         LET j == col - off1
             bits(v) == int_to_bits(v, GRID_BIT_LEN)
         IN  << bits(low_word(v0(col, "cout"))), bits(high_word(v0(col - 1, "cout"))),
                bits(low_word(v0(col, "s"))),    bits(high_word(v0(col - 1, "s"))),
                bits(low_word(v1(j, "cout"))),   bits(high_word(v1(j - 1, "cout"))),
                bits(low_word(v1(j, "s"))),      bits(high_word(v1(j - 1, "s"))),
                {} >>]

\* The words of p_v in row 9, from column grid_offset on.
add_prev_to_grid(g, p_v, grid_offset) ==
  [col \in DOMAIN g |->
     IF col - grid_offset \in DOMAIN p_v
     THEN [g[col] EXCEPT ![9] = int_to_bits(p_v[col - grid_offset], GRID_BIT_LEN)]
     ELSE g[col]]

\* Mutant: the columns' sums are not carried.
compress_grid_uncarried(g) ==
  [j \in Words(GRID_SIZE) |->
     LET r == compressor_tree(g[j]) IN bits_to_int(r.cout) + bits_to_int(r.s)]

compress_grid(g) ==
  LET sub_totals == [j \in Words(GRID_SIZE) |->
                       LET r == compressor_tree(g[j])
                       IN  bits_to_int(r.cout) + bits_to_int(r.s)]
  IN  partial_reduction(sub_totals, GRID_SIZE)

\* n words of p, from word a on.
slice(p, a, n) == [j \in Words(n) |-> p[j + a]]

-----------------------------------------------------------------------------
(* Look-up and accumulation *)

\* The rows addressed by each word of v: half 0 is V7V6's, half 1 V5V4's.
lookup(v, address(_), half) ==
  [i \in Words(TWO_SEGMENTS) |-> redLUT[i][address(v[i]) + half * LUT_SIZE]]

upper(w) == (w \div 2^LOOK_UP_WIDTH) % LUT_SIZE
lower(w) == w % LUT_SIZE
top(w)   == high_word(w)

has_overflow(v) == \E i \in Words(TWO_SEGMENTS) : top(v[i]) # 0

SumOver(n, f(_)) ==
  LET sum[k \in 0..n] == IF k = 0 THEN 0 ELSE sum[k - 1] + f(k - 1) IN sum[n]

\* Rows times 2^LOOK_UP_WIDTH: what leaves a word goes into the next one.
accumulate_upper(acc, rows) ==
  [j \in Words(NUM_ELEMENTS) |->
     acc[j]
     + SumOver(TWO_SEGMENTS, LAMBDA i :
         IF j < NONREDUNDANT_ELEMENTS
         THEN low_word(rows[i][j] * 2^LOOK_UP_WIDTH) ELSE 0)
     + SumOver(TWO_SEGMENTS, LAMBDA i :
         IF j \in 1..NONREDUNDANT_ELEMENTS
         THEN rows[i][j - 1] \div 2^LOOK_UP_WIDTH ELSE 0)]

\* Rows, from word a on.
accumulate_rows(acc, rows, a) ==
  [j \in Words(NUM_ELEMENTS) |->
     acc[j] + SumOver(TWO_SEGMENTS, LAMBDA i :
                IF j - a \in Words(NONREDUNDANT_ELEMENTS) THEN rows[i][j - a] ELSE 0)]

\* A polynomial of n words, from word a on.
accumulate_poly(acc, p, n, a) ==
  [j \in Words(NUM_ELEMENTS) |-> acc[j] + (IF j - a \in Words(n) THEN p[j - a] ELSE 0)]

reduced(acc) == partial_reduction(acc, NUM_ELEMENTS)
-----------------------------------------------------------------------------
(* The cycles of modular_square *)

no_grids == [c \in 0..4 |-> unset]
no_polys == [v7v6 |-> unset, v5_partial |-> unset, v5v4_partial |-> unset,
             v5v4 |-> unset, v3_partial |-> unset, v3 |-> unset,
             v2_partial |-> unset, v2v0 |-> unset]
no_rows  == [v7v6_upper |-> unset, v7v6_lower |-> unset, v7v6_over |-> unset,
             v5v4_upper |-> unset, v5v4_lower |-> unset, v5v4_over |-> unset]

no_overflow == [v7v6 |-> FALSE, v5v4 |-> FALSE]
no_accum == [j \in Words(NUM_ELEMENTS) |-> 0]

Fixed == UNCHANGED <<mod_in, redLUT, sqr_in, tests_run>>

At(c) == cycle = c /\ cycle' = c + 1 /\ Fixed

\* The products of W3*W3 and W3*W2; then of W2*W2 and W3*W1.
Cycle0 ==
  /\ At(0)
  /\ grid' = [grid EXCEPT ![0] = set_grid_5_cycle(0)]
  /\ UNCHANGED <<poly, row, overflow, curr_accum>>

Cycle1 ==
  /\ At(1)
  /\ grid' = [grid EXCEPT ![1] = set_grid_5_cycle(1)]
  /\ UNCHANGED <<poly, row, overflow, curr_accum>>

\* W2*W1 and W3*W0; cycle 0 compressed.
Cycle2 ==
  /\ At(2)
  /\ grid' = [grid EXCEPT ![2] = set_grid_5_cycle(2), ![0] = unset]
  /\ \E sub_totals \in {compress_grid(grid[0])} :
       poly' = [poly EXCEPT
                 !.v5_partial = slice(sub_totals, 0, SEGMENT_ELEMENTS),
                 !.v7v6       = slice(sub_totals, SEGMENT_ELEMENTS, TWO_SEGMENTS)]
  /\ UNCHANGED <<row, overflow, curr_accum>>

\* W1*W1 and W2*W0; cycle 1 compressed; V7V6 upper read.
Cycle3 ==
  /\ At(3)
  /\ grid' = [grid EXCEPT ![3] = set_grid_5_cycle(3), ![1] = unset]
  /\ \E sub_totals \in {compress_grid(add_prev_to_grid(grid[1], poly.v5_partial,
                                                         SEGMENT_ELEMENTS))} :
       poly' = [poly EXCEPT !.v5v4_partial = slice(sub_totals, 0, TWO_SEGMENTS)]
  /\ row' = [row EXCEPT !.v7v6_upper = lookup(poly.v7v6, upper, 0)]
  /\ UNCHANGED <<overflow, curr_accum>>

\* W0*W0 and W1*W0; cycle 2 compressed; V7V6 lower read, upper accumulated.
Cycle4 ==
  /\ At(4)
  /\ grid' = [grid EXCEPT ![4] = set_grid_5_cycle(4), ![2] = unset]
  /\ \E sub_totals \in {compress_grid(add_prev_to_grid(grid[2], poly.v5v4_partial,
                                                         SEGMENT_ELEMENTS))} :
       poly' = [poly EXCEPT
                 !.v3_partial = slice(sub_totals, 0, SEGMENT_ELEMENTS),
                 !.v5v4       = slice(sub_totals, SEGMENT_ELEMENTS, TWO_SEGMENTS)]
  /\ row' = [row EXCEPT !.v7v6_lower = lookup(poly.v7v6, lower, 0)]
  /\ curr_accum' = reduced(accumulate_upper(curr_accum, row.v7v6_upper))
  /\ UNCHANGED overflow

\* Cycle 3 compressed; V7V6 overflow and V5V4 upper read, V7V6 lower accumulated.
Cycle5 ==
  /\ At(5)
  /\ grid' = [grid EXCEPT ![3] = unset]
  /\ \E sub_totals \in {compress_grid(add_prev_to_grid(grid[3], poly.v3_partial,
                                                         SEGMENT_ELEMENTS))} :
       poly' = [poly EXCEPT
                 !.v3         = slice(sub_totals, SEGMENT_ELEMENTS, MUL_NUM_ELEMENTS),
                 !.v2_partial = slice(sub_totals, 0, SEGMENT_ELEMENTS)]
  /\ row' = [row EXCEPT !.v7v6_over  = lookup(poly.v7v6, top, 0),
                        !.v5v4_upper = lookup(poly.v5v4, upper, 1)]
  /\ overflow' = [overflow EXCEPT !.v7v6 = has_overflow(poly.v7v6)]
  /\ curr_accum' = reduced(accumulate_rows(curr_accum, row.v7v6_lower, 0))

\* Cycle 4 compressed; V5V4 lower read; V7V6 overflow, if any, and V5V4 upper
\* accumulated.
Cycle6 ==
  /\ At(6)
  /\ grid' = [grid EXCEPT ![4] = unset]
  /\ \E sub_totals \in {compress_grid(add_prev_to_grid(grid[4], poly.v2_partial,
                                                         2 * SEGMENT_ELEMENTS))} :
       poly' = [poly EXCEPT !.v2v0 = slice(sub_totals, 0, THREE_SEGMENTS)]
  /\ row' = [row EXCEPT !.v5v4_lower = lookup(poly.v5v4, lower, 1)]
  /\ LET acc == IF overflow.v7v6
                THEN reduced(accumulate_rows(curr_accum, row.v7v6_over, 1))
                ELSE curr_accum
     IN  curr_accum' = reduced(accumulate_upper(acc, row.v5v4_upper))
  /\ UNCHANGED overflow

\* V5V4 overflow read; V5V4 lower, V2V0 and V3 accumulated.
Cycle7 ==
  /\ At(7)
  /\ row' = [row EXCEPT !.v5v4_over = lookup(poly.v5v4, top, 1)]
  /\ overflow' = [overflow EXCEPT !.v5v4 = has_overflow(poly.v5v4)]
  /\ LET rows == accumulate_rows(curr_accum, row.v5v4_lower, 0)
         low  == accumulate_poly(rows, poly.v2v0, THREE_SEGMENTS, 0)
         all  == accumulate_poly(low, poly.v3, MUL_NUM_ELEMENTS, 3 * SEGMENT_ELEMENTS)
     IN  curr_accum' = reduced(all)
  /\ UNCHANGED <<grid, poly>>

\* V5V4 overflow, if any, accumulated.
Cycle8 ==
  /\ At(8)
  /\ curr_accum' = IF overflow.v5v4
                   THEN reduced(accumulate_rows(curr_accum, row.v5v4_over, 1))
                   ELSE curr_accum
  /\ UNCHANGED <<grid, poly, row, overflow>>

-----------------------------------------------------------------------------
(* The testing loop *)

(***************************************************************************)
(* sqr_out, the sum of the accumulator's words at their weights, as words: *)
(* carried all the way, what is left staying in the top word.              *)
(***************************************************************************)
sqr_out ==
  LET total[j \in Words(NUM_ELEMENTS)] ==
        curr_accum[j] + (IF j = 0 THEN 0 ELSE high_word(total[j - 1]))
  IN  [j \in Words(NUM_ELEMENTS) |->
         IF j = NUM_ELEMENTS - 1 THEN total[j] ELSE low_word(total[j])]

Init ==
  /\ mod_in \in Moduli
  /\ redLUT = generate_reduction_luts(mod_in)
  /\ sqr_in \in {[j \in Words(NUM_ELEMENTS) |->
                    IF j < NONREDUNDANT_ELEMENTS THEN v[j] ELSE 0] : v \in SqrIns}
  /\ tests_run = 0
  /\ cycle = 0 /\ grid = no_grids /\ poly = no_polys /\ row = no_rows
  /\ overflow = no_overflow /\ curr_accum = no_accum

\* The result is the next test's input; the locals of a call that starts are unset.
NextTest ==
  /\ cycle = 9 /\ tests_run < num_tests
  /\ tests_run' = tests_run + 1
  /\ sqr_in' = sqr_out
  /\ cycle' = 0 /\ grid' = no_grids /\ poly' = no_polys /\ row' = no_rows
  /\ overflow' = no_overflow /\ curr_accum' = no_accum
  /\ UNCHANGED <<mod_in, redLUT>>

Next ==
  \/ Cycle0 \/ Cycle1 \/ Cycle2 \/ Cycle3 \/ Cycle4
  \/ Cycle5 \/ Cycle6 \/ Cycle7 \/ Cycle8
  \/ NextTest

Spec == Init /\ [][Next]_vars
-----------------------------------------------------------------------------
(* Properties *)

ArrayOf(n, S) == [Words(n) -> S]

\* Every array has its length; the words of the partial polynomials and the rows
\* fit the BIT_LEN and WORD_LEN bits the hardware has for them.
TypeOK ==
  /\ mod_in \in Moduli /\ tests_run \in 0..num_tests /\ cycle \in 0..9
  /\ sqr_in \in ArrayOf(NUM_ELEMENTS, Nat)
  /\ \A c \in 0..4 : grid[c] = unset \/
       grid[c] \in ArrayOf(GRID_SIZE, [1..9 -> SUBSET Words(GRID_BIT_LEN)])
  /\ \A f \in DOMAIN poly : poly[f] = unset \/
       \A j \in DOMAIN poly[f] : poly[f][j] \in Words(2^BIT_LEN)
  /\ \A f \in DOMAIN row : row[f] = unset \/
       \A i \in Words(TWO_SEGMENTS) :
         row[f][i] \in ArrayOf(NONREDUNDANT_ELEMENTS, Words(2^WORD_LEN))
  /\ overflow \in [{"v7v6", "v5v4"} -> BOOLEAN]
  /\ curr_accum \in ArrayOf(NUM_ELEMENTS, Nat)

\* An array's residue, its words beginning at the weight of word at.
Value(p, at) == Residue(p, Cardinality(DOMAIN p), at, WORD_LEN, mod_in)

SquareOfInput == MulMod(Value(sqr_in, 0), Value(sqr_in, 0), mod_in)

S == SEGMENT_ELEMENTS
\* The word that column 0 of each cycle's grid stands for.
Base == <<5*S, 4*S, 3*S, 2*S, 0>>

\* The products not formed yet: those of segments whose numbers add to less.
ProductsLeft ==
  LET below == IF cycle < 5 THEN <<7, 5, 4, 3, 2>>[cycle + 1] ELSE 0
      term(s, r) == MulMod(Value(sqr_in_seg[s], s * S), Value(sqr_in_seg[r], r * S), mod_in)
      sum[k \in 0..16] ==
        IF k = 0 THEN 0
        ELSE LET s == (k - 1) \div 4
                 r == (k - 1) % 4
             IN  AddMod(sum[k - 1], IF s + r < below THEN term(s, r) ELSE 0, mod_in)
  IN  sum[16]

GridValue(c) ==
  IF grid[c] = unset THEN 0
  ELSE Value([col \in Words(GRID_SIZE) |->
                SumOver(9, LAMBDA r : bits_to_int(grid[c][col][r + 1]))], Base[c + 1])

\* The share of the words of v that is still to be looked up and accumulated,
\* a part of it from cycle first on and up to the cycle given for that part.
StillToLookUp(v, at, first, upto) ==
  IF cycle < first THEN 0
  ELSE Value([i \in Words(TWO_SEGMENTS) |->
                (IF cycle <= upto.upper THEN upper(v[i]) * 2^LOOK_UP_WIDTH ELSE 0)
                + (IF cycle <= upto.lower THEN lower(v[i]) ELSE 0)
                + (IF cycle <= upto.over THEN top(v[i]) * 2^WORD_LEN ELSE 0)], at)

Held(p, at, cycles) == IF cycle \in cycles THEN Value(p, at) ELSE 0

(***************************************************************************)
(* At every cycle what has been accumulated, what is held in partial       *)
(* polynomials and in columns, what is still to be looked up and the       *)
(* products not formed yet add up to the square of the whole input, modulo *)
(* mod_in: across nine overlapping cycles nothing is lost at the end of an *)
(* array, counted twice, or put at a wrong weight, in whatever words the   *)
(* carries are left, and nothing of the input is cut off.                  *)
(***************************************************************************)
ResidueKept ==
  LET parts == << ProductsLeft,
                  GridValue(0), GridValue(1), GridValue(2), GridValue(3), GridValue(4),
                  Held(poly.v5_partial, Base[1], {3}), Held(poly.v5v4_partial, Base[2], {4}),
                  Held(poly.v3_partial, Base[3], {5}), Held(poly.v2_partial, Base[4], {6}),
                  Held(poly.v3, Base[3], {6, 7}),      Held(poly.v2v0, Base[5], {7}),
                  StillToLookUp(poly.v7v6, 6*S, 3, [upper |-> 4, lower |-> 5, over |-> 6]),
                  StillToLookUp(poly.v5v4, 4*S, 5, [upper |-> 6, lower |-> 7, over |-> 8]),
                  Value(curr_accum, 0) >>
      sum[k \in 0..Len(parts)] ==
        IF k = 0 THEN 0 ELSE AddMod(sum[k - 1], parts[k], mod_in)
  IN  sum[Len(parts)] = SquareOfInput

(***************************************************************************)
(* What overflowed a word of V7V6 or V5V4 addresses its table within the   *)
(* half that belongs to it: beyond LUT_SIZE a V7V6 address would silently  *)
(* read V5V4's residues, and a V5V4 address leave the table.               *)
(***************************************************************************)
OverflowAddressesTable ==
  \A v \in {poly.v7v6, poly.v5v4} : v = unset \/
    \A i \in Words(TWO_SEGMENTS) : top(v[i]) < LUT_SIZE

(***************************************************************************)
(* The squarer implements the delay function: reduced modulo mod_in, its   *)
(* inputs are the running squares of vdf_basic.py, one pass a call, though *)
(* it never reduces one itself.  This is the script's check(), which       *)
(* squares the input it gave to the call, for every test.                  *)
(***************************************************************************)
Vdf == INSTANCE VdfBasic WITH
  N <- mod_in, x <- Value(sqr_in, 0), i <- tests_run, t <- num_tests, Seeds <- Nat

ImplementsVdf == Vdf!Spec
=============================================================================
