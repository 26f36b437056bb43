------------------------- MODULE MultiModeMultiplier -------------------------
(***************************************************************************)
(* multi_mode_multiplier.sv: one array of word multipliers, used for the   *)
(* square, the lower or the upper words of a product.  Only the products   *)
(* of NUM_ELEMENTS_OUT columns exist, so the lower and the upper product   *)
(* lack the columns beyond; the columns are summed without carrying, each  *)
(* sum's overflow moves on by one word, and one more carry crosses the     *)
(* boundary between the halves.                                            *)
(***************************************************************************)
EXTENDS RedunMontPkg

NUM_ELEMENTS_OUT == NUM_WRDS + SPECULATIVE_CARRY_WRDS

\* Word products as they enter the grid: in the square, those off the
\* diagonal stand for two; in MUL_H the words count from the top.
WordProduct(ctl, a, b, i, j) ==
  IF ctl = "SQR" THEN (IF i < j THEN 2 ELSE 1) * a[i] * b[j]
  ELSE IF ctl = "MUL_L" THEN a[i] * b[j]
  ELSE a[NUM_WRDS - 1 - i] * b[NUM_WRDS - 1 - j]

\* The pairs of words the array multiplies in each mode.
Pairs(ctl) ==
  {p \in WordIdx \X WordIdx : IF ctl = "SQR" THEN p[1] <= p[2]
                              ELSE p[1] + p[2] < NUM_ELEMENTS_OUT}

\* The grid's rows 2i and 2i+1: low and high part of a word product, in
\* neighbouring columns, the high part to the left in MUL_H's reversed order.
\* Columns from NUM_ELEMENTS_OUT on sum only their first rows.
LowColumn(ctl, p)  == p[1] + p[2] + (IF ctl = "MUL_H" THEN 1 ELSE 0)
HighColumn(ctl, p) == p[1] + p[2] + (IF ctl = "MUL_H" THEN 0 ELSE 1)
LowRow(ctl, p)  == 2 * p[1] + (IF ctl = "MUL_H" THEN 1 ELSE 0)
HighRow(ctl, p) == 2 * p[1] + (IF ctl = "MUL_H" THEN 0 ELSE 1)
Summed(c, row) == c < NUM_ELEMENTS_OUT \/ row <= c

\* The column sums, with the addition term in the lower columns, reversed.
ColumnSums(ctl, a, b, add) ==
  LET prod == [p \in Pairs(ctl) |-> WordProduct(ctl, a, b, p[1], p[2])]
      low(c)  == {p \in Pairs(ctl) : LowColumn(ctl, p) = c /\ Summed(c, LowRow(ctl, p))}
      high(c) == {p \in Pairs(ctl) : HighColumn(ctl, p) = c /\ Summed(c, HighRow(ctl, p))}
  IN  [c \in DoubleIdx |->
         MapThenSumSet(LAMBDA p : prod[p] % Base, low(c))
         + MapThenSumSet(LAMBDA p : prod[p] \div Base, high(c))
         + (IF c < NUM_WRDS THEN add[NUM_WRDS - 1 - c] ELSE 0)]

\* Each column keeps one word and passes the rest to its neighbour.
CarryOnce(ctl, res) ==
  LET neighbour(i) == IF ctl = "MUL_H" THEN i + 1 ELSE i - 1
      carry(i) == IF neighbour(i) \in DoubleIdx THEN res[neighbour(i)] \div Base ELSE 0
  IN  [i \in DoubleIdx |-> ((res[i] % Base) + carry(i)) % (2 * Base)]

\* The last word before the boundary gives its redundant bit to the first
\* word beyond it.
CrossBoundary(ctl, r) ==
  LET last  == IF ctl = "MUL_H" THEN NUM_WRDS ELSE NUM_WRDS - 1
      first == IF ctl = "MUL_H" THEN NUM_WRDS - 1 ELSE NUM_WRDS
  IN  [r EXCEPT ![first] = (@ + (r[last] \div Base)) % (2 * Base),
                ![last]  = @ % Base]

Multiplied(ctl, a, b, add) ==
  CrossBoundary(ctl, CarryOnce(ctl, ColumnSums(ctl, a, b, add)))
=============================================================================
