------------------------- MODULE Arithmetic_proofs -------------------------
(***************************************************************************)
(* Induction and recursion on the naturals, in a form that provers without *)
(* operators as parameters can use: what is to be shown is a set, what is  *)
(* recursively defined a function, also one that a loop defines; numbers   *)
(* modulo m; and what the functions of ModularArithmetic compute.          *)
(***************************************************************************)
EXTENDS ModularArithmetic, FiniteSetTheorems, TLAPS

\* Course-of-values induction: the least counterexample would end a strictly
\* smaller initial segment of the naturals than any other.
LEMMA StrongInduction ==
  ASSUME NEW S, \A n \in Nat : (\A k \in 0 .. n - 1 : k \in S) => n \in S
  PROVE  Nat \subseteq S
<1> SUFFICES ASSUME NEW b \in Nat, b \notin S PROVE FALSE
  OBVIOUS
<1> DEFINE F == {0 .. m : m \in Nat \ S}
<1>1. F # {} /\ F \subseteq FiniteSubsetsOf(Nat)
  <2>1. \A m \in Nat : IsFiniteSet(0 .. m) /\ 0 .. m \in SUBSET Nat
    BY FS_Interval
  <2> QED
    BY <2>1 DEF FiniteSubsetsOf
<1>2. IsWellFoundedOn(StrictSubsetOrdering(Nat), FiniteSubsetsOf(Nat))
  BY FS_StrictSubsetOrderingWellFounded
<1>3. PICK T \in F : \A U \in F : ~(<<U, T>> \in StrictSubsetOrdering(Nat))
  <2> HIDE DEF F
  <2> QED
    BY <1>1, <1>2, WFMin
<1>4. PICK m \in Nat \ S : T = 0 .. m
  BY <1>3
<1>5. PICK k \in 0 .. m - 1 : k \notin S
  BY <1>4
<1>6. 0 .. k \in F
  BY <1>4, <1>5
<1>7. <<0 .. k, T>> \in StrictSubsetOrdering(Nat)
  <2>1. 0 .. k \in SUBSET Nat /\ T \in SUBSET Nat /\ 0 .. k \subseteq T
    BY <1>4, <1>5
  <2>2. m \in T /\ m \notin 0 .. k
    BY <1>4, <1>5
  <2> QED
    BY <2>1, <2>2 DEF StrictSubsetOrdering
<1> QED
  BY <1>3, <1>6, <1>7

\* Induction, one number after the other.
LEMMA Induction ==
  ASSUME NEW S, 0 \in S, \A n \in Nat : n \in S => n + 1 \in S
  PROVE  Nat \subseteq S
<1>1. ASSUME NEW n \in Nat, \A k \in 0 .. n - 1 : k \in S PROVE n \in S
  <2>1. CASE n = 0
    BY <2>1
  <2>2. CASE n # 0
    <3>1. n - 1 \in Nat /\ n - 1 \in 0 .. n - 1
      BY <2>2
    <3>2. (n - 1) + 1 \in S
      BY <3>1, <1>1
    <3> QED
      BY <3>2
  <2> QED
    BY <2>1, <2>2
<1> QED
  BY <1>1, StrongInduction

\* A function whose value at k is h of k and of its value at p[k], which is less.
Decreasing(p) == p \in [Nat -> Nat] /\ \A k \in Nat \ {0} : p[k] < k
Defines(g, a, h, p, n) == g[0] = a /\ \A k \in 1 .. n : g[k] = h[<<k, g[p[k]]>>]

\* There is one.
LEMMA Recursion ==
  ASSUME NEW T, NEW a \in T, NEW h \in [Nat \X T -> T], NEW p, Decreasing(p), NEW n \in Nat
  PROVE  \E g \in [0 .. n -> T] : Defines(g, a, h, p, n)
<1> DEFINE Good(g, m) == g[0] = a /\ \A k \in 1 .. m : g[k] = h[<<k, g[p[k]]>>]
           S == {m \in Nat : \E g \in [0 .. m -> T] : Good(g, m)}
<1>0. p \in [Nat -> Nat] /\ \A k \in Nat \ {0} : p[k] < k
  BY DEF Decreasing
<1>1. 0 \in S
  <2>1. [k \in 0 .. 0 |-> a] \in [0 .. 0 -> T] /\ Good([k \in 0 .. 0 |-> a], 0)
    OBVIOUS
  <2> QED
    BY <2>1
<1>2. ASSUME NEW m \in Nat, m \in S PROVE m + 1 \in S
  <2>1. PICK g \in [0 .. m -> T] : Good(g, m)
    BY <1>2
  <2> DEFINE last == h[<<m + 1, g[p[m + 1]]>>]
             g1 == [k \in 0 .. m + 1 |-> IF k = m + 1 THEN last ELSE g[k]]
  <2>2. p[m + 1] \in 0 .. m
    BY <1>0
  <2>3. last \in T
    BY <2>2
  <2>4. g1 \in [0 .. m + 1 -> T]
    BY <2>3
  <2>7. g1[m + 1] = last /\ \A k \in 0 .. m : g1[k] = g[k]
    <3> HIDE DEF last
    <3>1. \A k \in 0 .. m + 1 : g1[k] = IF k = m + 1 THEN last ELSE g[k]
      OBVIOUS
    <3> HIDE DEF g1
    <3>2. m + 1 \in 0 .. m + 1 /\ \A k \in 0 .. m : k \in 0 .. m + 1 /\ k # m + 1
      OBVIOUS
    <3> QED
      BY <3>1, <3>2
  <2> HIDE DEF g1
  <2>5. ASSUME NEW k \in 1 .. m + 1 PROVE g1[k] = h[<<k, g1[p[k]]>>]
    <3>1. CASE k = m + 1
      BY <3>1, <2>2, <2>7
    <3>2. CASE k # m + 1
      <4>1. p[k] \in 0 .. m /\ k \in 1 .. m
        BY <3>2, <1>0
      <4>2. g1[k] = g[k] /\ g1[p[k]] = g[p[k]]
        <5>1. k \in 0 .. m
          BY <4>1
        <5> HIDE DEF last, Good
        <5> QED
          BY <4>1, <5>1, <2>7
      <4>3. g[k] = h[<<k, g[p[k]]>>]
        BY <2>1, <4>1
      <4> QED
        BY <4>2, <4>3
    <3> QED
      BY <3>1, <3>2
  <2>6. Good(g1, m + 1)
    BY <2>1, <2>5, <2>7
  <2> HIDE DEF Good
  <2> QED
    BY <2>4, <2>6
<1>3. Nat \subseteq S
  <2> HIDE DEF S
  <2> QED
    BY <1>1, <1>2, Induction
<1>4. PICK g \in [0 .. n -> T] : Good(g, n)
  BY <1>3
<1> QED
  BY <1>4 DEF Defines

-----------------------------------------------------------------------------
(***************************************************************************)
(* Quotients and remainders.                                               *)
(***************************************************************************)
\* The quotient and the remainder of a number are the only ones there are.
LEMMA Division ==
  ASSUME NEW m \in Nat \ {0}, NEW q \in Int, NEW r \in 0 .. m - 1
  PROVE  (m * q + r) % m = r /\ (m * q + r) \div m = q
<1> DEFINE x == m * q + r
           d == x \div m
           e == x % m
<1>1. x \in Int
  OBVIOUS
<1>2. x = m * d + e /\ e \in 0 .. m - 1 /\ d \in Int
  <2> HIDE DEF x
  <2> QED
    BY <1>1
<1> HIDE DEF d, e
<1>3. m * d + e = m * q + r
  BY <1>2
<1>4. ~(d >= q + 1)
  <2> SUFFICES ASSUME d >= q + 1 PROVE FALSE
    OBVIOUS
  <2>1. m * d >= m * (q + 1)
    BY <1>2
  <2> QED
    BY <1>2, <1>3, <2>1
<1>5. ~(q >= d + 1)
  <2> SUFFICES ASSUME q >= d + 1 PROVE FALSE
    OBVIOUS
  <2>1. m * q >= m * (d + 1)
    BY <1>2
  <2> QED
    BY <1>2, <1>3, <2>1
<1>6. d = q
  BY <1>2, <1>4, <1>5
<1> QED
  BY <1>2, <1>3, <1>6 DEF d, e

\* A number is its quotient and its remainder.
LEMMA Divided ==
  ASSUME NEW m \in Nat \ {0}, NEW x \in Int
  PROVE  x = m * (x \div m) + (x % m) /\ x % m \in 0 .. m - 1 /\ x \div m \in Int
OBVIOUS

\* A multiple more or less leaves the remainder.
LEMMA Multiples ==
  ASSUME NEW m \in Nat \ {0}, NEW x \in Int, NEW q \in Int
  PROVE  (x + m * q) % m = x % m
<1> DEFINE d == x \div m
           e == x % m
<1>1. x = m * d + e /\ e \in 0 .. m - 1 /\ d \in Int
  BY Divided
<1> HIDE DEF d, e
<1>2. x + m * q = m * (d + q) + e
  BY <1>1
<1>3. (m * (d + q) + e) % m = e
  BY <1>1, Division
<1> QED
  BY <1>2, <1>3 DEF e

\* Equal remainders differ by a multiple.
LEMMA Congruent ==
  ASSUME NEW m \in Nat \ {0}, NEW x \in Int, NEW y \in Int, x % m = y % m
  PROVE  \E q \in Int : x = y + m * q
<1> DEFINE d == x \div m
           c == y \div m
           e == x % m
<1>1. x = m * d + e /\ y = m * c + e /\ e \in 0 .. m - 1 /\ d \in Int /\ c \in Int
  BY Divided
<1> HIDE DEF d, c, e
<1>2. x = y + m * (d - c) /\ d - c \in Int
  BY <1>1
<1> QED
  BY <1>2

\* What is less than m is its own remainder.
LEMMA SmallRemainder ==
  ASSUME NEW m \in Nat \ {0}, NEW x \in 0 .. m - 1
  PROVE  x % m = x /\ x \div m = 0
<1>1. m * 0 + x = x
  OBVIOUS
<1> QED
  BY <1>1, Division

\* Products and sums of remainders.
LEMMA ProductRemainder ==
  ASSUME NEW m \in Nat \ {0}, NEW x \in Int, NEW y \in Int, NEW z \in Int, x % m = y % m
  PROVE  (x * z) % m = (y * z) % m /\ (x + z) % m = (y + z) % m
<1>1. PICK q \in Int : x = y + m * q
  BY Congruent
<1>2. x * z = y * z + m * (q * z) /\ x + z = (y + z) + m * q
  BY <1>1
<1>3. y * z \in Int /\ q * z \in Int /\ y + z \in Int
  OBVIOUS
<1>4. (y * z + m * (q * z)) % m = (y * z) % m
  BY <1>3, Multiples
<1>5. ((y + z) + m * q) % m = (y + z) % m
  BY <1>3, Multiples
<1> QED
  BY <1>2, <1>4, <1>5

-----------------------------------------------------------------------------
(***************************************************************************)
(* ModularArithmetic.                                                      *)
(***************************************************************************)
LEMMA AddModIs ==
  ASSUME NEW m \in Nat \ {0}, NEW x \in Nat, NEW y \in Nat
  PROVE  AddMod(x % m, y % m, m) = (x + y) % m
<1> DEFINE d == x \div m
           c == y \div m
           e == x % m
           f == y % m
<1>1. /\ x = m * d + e /\ e \in 0 .. m - 1 /\ d \in Int
      /\ y = m * c + f /\ f \in 0 .. m - 1 /\ c \in Int
  BY Divided
<1> HIDE DEF d, c, e, f
<1>2. CASE e + f < m
  <2>1. x + y = m * (d + c) + (e + f) /\ e + f \in 0 .. m - 1
    BY <1>1, <1>2
  <2>2. (m * (d + c) + (e + f)) % m = e + f
    BY <1>1, <2>1, Division
  <2>3. AddMod(e, f, m) = e + f
    BY <1>1, <1>2 DEF AddMod
  <2> QED
    BY <2>1, <2>2, <2>3 DEF e, f
<1>3. CASE e + f >= m
  <2>1. x + y = m * (d + c + 1) + (e + f - m) /\ e + f - m \in 0 .. m - 1
    BY <1>1, <1>3
  <2>2. (m * (d + c + 1) + (e + f - m)) % m = e + f - m
    <3>1. d + c + 1 \in Int
      BY <1>1
    <3> QED
      BY <2>1, <3>1, Division
  <2>3. AddMod(e, f, m) = e + f - m
    BY <1>1, <1>3 DEF AddMod
  <2> QED
    BY <2>1, <2>2, <2>3 DEF e, f
<1> QED
  BY <1>1, <1>2, <1>3

\* ShiftMod keeps to 0 .. m - 1.
LEMMA ShiftModType ==
  ASSUME NEW m \in Nat \ {0}, NEW a \in Int, NEW n \in Nat
  PROVE  ShiftMod(a, n, m) \in 0 .. m - 1
<1> DEFINE T == 0 .. m - 1
           h == [s \in Nat \X T |-> AddMod(s[2], s[2], m)]
           p == [k \in Nat |-> IF k = 0 THEN 0 ELSE k - 1]
           Rec(g) == [k \in 0 .. n |->
                        IF k = 0 THEN a % m ELSE LET r == g[k - 1] IN AddMod(r, r, m)]
           shifted == CHOOSE g : g = Rec(g)
<1> HIDE DEF T, h, p, Rec, shifted
<1>1. a % m \in T
  BY Divided DEF T
<1>2. h \in [Nat \X T -> T]
  BY DEF AddMod, h, T
<1>3. p \in [Nat -> Nat] /\ \A k \in Nat \ {0} : p[k] = k - 1
  BY DEF p
<1>4. PICK g \in [0 .. n -> T] : g[0] = a % m /\ \A k \in 1 .. n : g[k] = h[<<k, g[p[k]]>>]
  <2>1. Decreasing(p)
    BY <1>3 DEF Decreasing
  <2>2. \E g \in [0 .. n -> T] : Defines(g, a % m, h, p, n)
    BY <1>1, <1>2, <2>1, Recursion
  <2> QED
    BY <2>2 DEF Defines
<1>5. g = Rec(g)
  <2>1. ASSUME NEW k \in 1 .. n PROVE g[k] = AddMod(g[k - 1], g[k - 1], m)
    <3>1. k \in Nat \ {0} /\ k - 1 \in 0 .. n
      OBVIOUS
    <3>2. g[k - 1] \in T
      BY <1>4, <3>1
    <3>3. p[k] = k - 1
      BY <1>3, <3>1
    <3>4. g[k] = h[<<k, g[k - 1]>>]
      BY <1>4, <3>3
    <3> QED
      BY <3>1, <3>2, <3>4 DEF h
  <2>2. \A k \in 0 .. n : g[k] = IF k = 0 THEN a % m ELSE AddMod(g[k - 1], g[k - 1], m)
    BY <1>4, <2>1
  <2> QED
    BY <1>4, <2>2 DEF Rec
<1>6. shifted = Rec(shifted)
  BY <1>5 DEF shifted
<1>7. \A k \in 0 .. n : shifted[k] = IF k = 0 THEN a % m
                                       ELSE AddMod(shifted[k - 1], shifted[k - 1], m)
  BY <1>6 DEF Rec
<1>8. \A k \in Nat : k <= n => shifted[k] \in T
  <2> DEFINE S == {k \in Nat : k <= n => shifted[k] \in T}
  <2>1. 0 \in S
    BY <1>1, <1>7
  <2>2. ASSUME NEW k \in Nat, k \in S PROVE k + 1 \in S
    <3> SUFFICES ASSUME k + 1 <= n PROVE shifted[k + 1] \in T
      OBVIOUS
    <3>1. shifted[k] \in T
      BY <2>2
    <3>2. shifted[k + 1] = AddMod(shifted[k], shifted[k], m)
      BY <1>7
    <3> QED
      BY <3>1, <3>2 DEF AddMod, T
  <2>3. Nat \subseteq S
    <3> HIDE DEF S
    <3> QED
      BY <2>1, <2>2, Induction
  <2> QED
    BY <2>3
<1>9. ShiftMod(a, n, m) = shifted[n]
  BY DEF ShiftMod, shifted, Rec
<1> QED
  BY <1>8, <1>9 DEF T

\* MulMod multiplies: times[k] is a * k, by doubling.
LEMMA MulModIs ==
  ASSUME NEW m \in Nat \ {0}, NEW a \in Nat, NEW b \in Nat
  PROVE  MulMod(a, b, m) = (a * b) % m
<1> DEFINE Rec(g) == [k \in 0 .. b |->
             IF k = 0 THEN 0
             ELSE LET r == g[k \div 2]
                  IN  IF k % 2 = 1 THEN AddMod(AddMod(r, r, m), a % m, m) ELSE AddMod(r, r, m)]
           times == CHOOSE g : g = Rec(g)
           product == [k \in 0 .. b |-> (a * k) % m]
<1> HIDE DEF Rec, times, product
<1>1. ASSUME NEW k \in Nat \ {0}
      PROVE  LET r == (a * (k \div 2)) % m
             IN  (a * k) % m =
                 IF k % 2 = 1 THEN AddMod(AddMod(r, r, m), a % m, m) ELSE AddMod(r, r, m)
  <2> DEFINE q == k \div 2
             e == k % 2
             s == a * q
  <2>1. k = 2 * q + e /\ e \in 0 .. 1 /\ q \in Int
    BY Divided
  <2>2. q \in Nat
    BY <2>1
  <2> HIDE DEF q, e
  <2>3. s \in Nat /\ s + s \in Nat
    BY <2>2
  <2>4. AddMod(s % m, s % m, m) = (s + s) % m
    <3> HIDE DEF s
    <3> QED
      BY <2>3, AddModIs
  <2>5. AddMod((s + s) % m, a % m, m) = (s + s + a) % m
    <3> HIDE DEF s
    <3> QED
      BY <2>3, AddModIs
  <2>6. CASE e = 0
    <3>1. a * k = s + s
      BY <2>1, <2>2, <2>6
    <3> QED
      BY <2>4, <2>6, <3>1 DEF q, e
  <2>7. CASE e = 1
    <3>1. a * k = s + s + a
      BY <2>1, <2>2, <2>7
    <3> QED
      BY <2>4, <2>5, <2>7, <3>1 DEF q, e
  <2> QED
    BY <2>1, <2>6, <2>7
<1>2. product = Rec(product)
  <2>1. ASSUME NEW k \in 1 .. b
        PROVE  product[k] =
                 LET r == product[k \div 2]
                 IN  IF k % 2 = 1 THEN AddMod(AddMod(r, r, m), a % m, m) ELSE AddMod(r, r, m)
    <3>1. k \div 2 \in 0 .. b /\ k \in Nat \ {0}
      OBVIOUS
    <3>2. product[k \div 2] = (a * (k \div 2)) % m /\ product[k] = (a * k) % m
      BY <3>1 DEF product
    <3> QED
      BY <1>1, <3>1, <3>2
  <2>2. product[0] = 0
    <3>1. a * 0 = 0 /\ 0 % m = 0
      BY SmallRemainder
    <3> QED
      BY <3>1 DEF product
  <2> DEFINE Next(g, k) ==
        LET r == g[k \div 2]
        IN  IF k % 2 = 1 THEN AddMod(AddMod(r, r, m), a % m, m) ELSE AddMod(r, r, m)
  <2>3. \A k \in 1 .. b : product[k] = Next(product, k)
    BY <2>1
  <2>4. Rec(product) = [k \in 0 .. b |-> IF k = 0 THEN 0 ELSE Next(product, k)]
    BY DEF Rec
  <2> HIDE DEF Next
  <2>5. \A k \in 0 .. b : product[k] = IF k = 0 THEN 0 ELSE Next(product, k)
    BY <2>2, <2>3
  <2>6. product = [k \in 0 .. b |-> product[k]]
    BY DEF product
  <2> QED
    BY <2>4, <2>5, <2>6
<1>3. times = Rec(times)
  BY <1>2 DEF times
<1>4. \A k \in 0 .. b :
        times[k] = IF k = 0 THEN 0
                   ELSE LET r == times[k \div 2]
                        IN  IF k % 2 = 1 THEN AddMod(AddMod(r, r, m), a % m, m)
                            ELSE AddMod(r, r, m)
  BY <1>3 DEF Rec
<1>5. \A k \in Nat : k <= b => times[k] = (a * k) % m
  <2> DEFINE S == {k \in Nat : k <= b => times[k] = (a * k) % m}
  <2>1. ASSUME NEW k \in Nat, \A l \in 0 .. k - 1 : l \in S PROVE k \in S
    <3> SUFFICES ASSUME k <= b PROVE times[k] = (a * k) % m
      OBVIOUS
    <3>1. CASE k = 0
      <4>1. a * 0 = 0 /\ 0 % m = 0
        BY SmallRemainder
      <4> QED
        BY <1>4, <3>1, <4>1
    <3>2. CASE k # 0
      <4>1. k \div 2 \in 0 .. k - 1
        BY <3>2
      <4>2. times[k \div 2] = (a * (k \div 2)) % m
        BY <2>1, <4>1
      <4>3. k \in 0 .. b /\ k \in Nat \ {0}
        BY <3>2
      <4> HIDE DEF S
      <4> QED
        BY <1>1, <1>4, <4>2, <4>3
    <3> QED
      BY <3>1, <3>2
  <2>2. Nat \subseteq S
    <3> HIDE DEF S
    <3> QED
      BY <2>1, StrongInduction
  <2> QED
    BY <2>2
<1>6. MulMod(a, b, m) = times[b]
  BY DEF MulMod, times, Rec
<1> QED
  BY <1>5, <1>6

-----------------------------------------------------------------------------
(* Loops *)

(***************************************************************************)
(* A function that is defined by its value one step on, as a loop is, has  *)
(* a value everywhere, also where the loop never stops: take the pairs of  *)
(* argument and value that follow from where it stops.                     *)
(***************************************************************************)
IsLoop(g, S, stop, step, out) ==
  g = [s \in S |-> g[s]] /\ \A s \in S : g[s] = IF s \in stop THEN out[s] ELSE g[step[s]]

\* There is such a function, whatever the loop.
LEMMA TailRecursion ==
  ASSUME NEW S, NEW T, NEW stop, NEW step \in [S -> S], NEW out \in [S -> T]
  PROVE  \E g : IsLoop(g, S, stop, step, out)
<1> DEFINE Closed(X) ==
             /\ \A s \in S : s \in stop => <<s, out[s]>> \in X
             /\ \A s \in S, v \in T : s \notin stop /\ <<step[s], v>> \in X => <<s, v>> \in X
           P == {p \in S \X T : \A X \in SUBSET (S \X T) : Closed(X) => p \in X}
           Values(s) == {v \in T : <<s, v>> \in P}
           Pick(V) == CHOOSE v : v \in V
           G == [s \in S |-> Pick(Values(s))]
<1>1. \A s \in S : step[s] \in S /\ out[s] \in T
  OBVIOUS
<1>2. Closed(P)
  <2>1. ASSUME NEW s \in S, s \in stop PROVE <<s, out[s]>> \in P
    BY <1>1, <2>1
  <2>2. ASSUME NEW s \in S, NEW v \in T, s \notin stop, <<step[s], v>> \in P
        PROVE  <<s, v>> \in P
    BY <2>2
  <2> QED
    BY <2>1, <2>2
<1>3. P \subseteq S \X T /\ \A X \in SUBSET (S \X T) : Closed(X) => P \subseteq X
  OBVIOUS
<1> HIDE DEF P
<1>4. ASSUME NEW s \in S, s \in stop PROVE Values(s) = {out[s]}
  <2>1. ASSUME NEW v \in T, <<s, v>> \in P PROVE v = out[s]
    <3> SUFFICES ASSUME v # out[s] PROVE FALSE
      OBVIOUS
    <3> DEFINE X == P \ {<<s, v>>}
    <3>1. Closed(X)
      BY <1>2, <1>4
    <3>2. P \subseteq X
      BY <1>3, <3>1
    <3> QED
      BY <2>1, <3>2
  <2> QED
    BY <1>1, <1>2, <1>4, <2>1
<1>5. ASSUME NEW s \in S, s \notin stop PROVE Values(s) = Values(step[s])
  <2>1. ASSUME NEW v \in T, <<s, v>> \in P PROVE <<step[s], v>> \in P
    <3> SUFFICES ASSUME <<step[s], v>> \notin P PROVE FALSE
      OBVIOUS
    <3> DEFINE X == P \ {<<s, v>>}
    <3>1. Closed(X)
      BY <1>2, <1>5
    <3>2. P \subseteq X
      BY <1>3, <3>1
    <3> QED
      BY <2>1, <3>2
  <2> QED
    BY <1>1, <1>2, <1>5, <2>1
<1>6. ASSUME NEW s \in S PROVE G[s] = IF s \in stop THEN out[s] ELSE G[step[s]]
  <2>1. G[s] = Pick(Values(s))
    OBVIOUS
  <2>2. CASE s \in stop
    <3>1. Values(s) = {out[s]}
      BY <1>4, <2>2
    <3> HIDE DEF Values, G
    <3>2. Pick(Values(s)) = out[s]
      BY <3>1
    <3> QED
      BY <2>1, <2>2, <3>2
  <2>3. CASE s \notin stop
    <3>1. Values(s) = Values(step[s])
      BY <1>5, <2>3
    <3>2. G[step[s]] = Pick(Values(step[s]))
      BY <1>1
    <3> HIDE DEF Values, G, Pick
    <3> QED
      BY <2>1, <2>3, <3>1, <3>2
  <2> QED
    BY <2>2, <2>3
<1>7. G = [s \in S |-> G[s]]
  <2> HIDE DEF Values, Pick
  <2> QED
    BY DEF G
<1>8. IsLoop(G, S, stop, step, out)
  <2> HIDE DEF G
  <2> QED
    BY <1>6, <1>7 DEF IsLoop
<1> QED
  BY <1>8

-----------------------------------------------------------------------------
(* Numbers modulo m *)

\* x and y leave the same modulo m.
Same(x, y, m) == x % m = y % m

\* It is an equivalence.
LEMMA SameAgain ==
  ASSUME NEW m, NEW x, NEW y
  PROVE  /\ Same(x, x, m)
         /\ Same(x, y, m) => Same(y, x, m)
         /\ \A z : Same(x, y, m) /\ Same(y, z, m) => Same(x, z, m)
BY DEF Same

\* The numbers that leave the same are whole multiples of m apart.
LEMMA SameDiffers ==
  ASSUME NEW m \in Nat \ {0}, NEW x \in Int, NEW y \in Int
  PROVE  /\ Same(x, y, m) => \E q \in Int : x = y + m * q
         /\ \A q \in Int : Same(x + m * q, x, m)
<1>1. ASSUME Same(x, y, m) PROVE \E q \in Int : x = y + m * q
  <2>1. x % m = y % m
    BY <1>1 DEF Same
  <2> QED
    BY <2>1, Congruent
<1>2. ASSUME NEW q \in Int PROVE Same(x + m * q, x, m)
  BY Multiples DEF Same
<1> QED
  BY <1>1, <1>2

\* Products and sums of numbers that leave the same leave the same.
LEMMA SameProduct ==
  ASSUME NEW m \in Nat \ {0}, NEW x \in Int, NEW y \in Int, Same(x, y, m), NEW z \in Int
  PROVE  Same(x * z, y * z, m) /\ Same(z * x, z * y, m) /\ Same(x + z, y + z, m)
<1>1. (x * z) % m = (y * z) % m /\ (x + z) % m = (y + z) % m
  BY ProductRemainder DEF Same
<1>2. z * x = x * z /\ z * y = y * z
  OBVIOUS
<1> QED
  BY <1>1, <1>2 DEF Same

\* What has an inverse can be cancelled.
LEMMA Cancelled ==
  ASSUME NEW m \in Nat \ {0}, NEW c \in Int, NEW u \in Int, Same(c * u, 1, m),
         NEW x \in Int, NEW y \in Int, Same(x * c, y * c, m)
  PROVE  Same(x, y, m)
<1> DEFINE e == c * u
           a == x * c
           b == y * c
           i == 1
<1>1. e \in Int /\ a \in Int /\ b \in Int /\ i \in Int
  OBVIOUS
<1>2. a * u = x * e /\ b * u = y * e /\ x * i = x /\ y * i = y
  OBVIOUS
<1>3. Same(e, i, m) /\ Same(a, b, m)
  OBVIOUS
<1> HIDE DEF e, a, b, i
<1>4. Same(a * u, b * u, m)
  BY <1>1, <1>3, SameProduct
<1>5. Same(x * e, x * i, m) /\ Same(y * e, y * i, m)
  BY <1>1, <1>3, SameProduct
<1> QED
  BY <1>2, <1>4, <1>5, SameAgain

\* There is one inverse below the modulus.
LEMMA InverseIsUnique ==
  ASSUME NEW m \in Nat \ {0}, NEW c \in Int,
         NEW u \in 0 .. m - 1, NEW v \in 0 .. m - 1, Same(u * c, 1, m), Same(v * c, 1, m)
  PROVE  u = v
<1>1. c * u = u * c /\ u \in Int /\ v \in Int
  OBVIOUS
<1>2. Same(c * u, 1, m)
  BY <1>1
<1>3. Same(u * c, v * c, m)
  BY SameAgain
<1>4. Same(u, v, m)
  BY <1>1, <1>2, <1>3, Cancelled
<1> QED
  BY <1>4, SmallRemainder DEF Same

\* The multiples of m are the numbers that leave nothing.
LEMMA MultipleIs ==
  ASSUME NEW m \in Nat \ {0}, NEW x \in Int
  PROVE  /\ x % m = 0 => x = m * (x \div m)
         /\ \A q \in Int : x = m * q => x % m = 0 /\ x \div m = q
<1>1. ASSUME x % m = 0 PROVE x = m * (x \div m)
  BY <1>1, Divided
<1>2. ASSUME NEW q \in Int, x = m * q PROVE x % m = 0 /\ x \div m = q
  <2>1. m * q + 0 = x
    BY <1>2
  <2>2. 0 \in 0 .. m - 1
    OBVIOUS
  <2> QED
    BY <2>1, <2>2, Division
<1> QED
  BY <1>1, <1>2

\* Half of a number modulo an odd one.
LEMMA Halved ==
  ASSUME NEW P \in Nat \ {0}, P % 2 = 1, NEW x \in Int, NEW y \in Int,
         Same(2 * x, 2 * y, P)
  PROVE  Same(x, y, P)
<1> DEFINE h == (P + 1) \div 2
           c == 2
<1>1. h \in Int /\ c * h = 1 + P * 1 /\ c \in Int
  OBVIOUS
<1>2. Same(x * c, y * c, P)
  <2>1. x * 2 = 2 * x /\ y * 2 = 2 * y
    OBVIOUS
  <2> QED
    BY <2>1
<1> HIDE DEF h, c
<1>3. Same(1 + P * 1, 1, P)
  <2> DEFINE i == 1
  <2>1. i \in Int
    OBVIOUS
  <2> HIDE DEF i
  <2>2. (i + P * i) % P = i % P
    BY <2>1, Multiples
  <2> QED
    BY <2>2 DEF Same, i
<1>4. Same(c * h, 1, P)
  BY <1>1, <1>3
<1> QED
  BY <1>1, <1>2, <1>4, Cancelled

\* A remainder can stand for its number.
LEMMA SameRemainder ==
  ASSUME NEW m \in Nat \ {0}, NEW x \in Int
  PROVE  Same(x % m, x, m) /\ x % m \in 0 .. m - 1
<1>1. x % m \in 0 .. m - 1
  BY Divided
<1>2. (x % m) % m = x % m
  BY <1>1, SmallRemainder
<1> QED
  BY <1>1, <1>2 DEF Same
=============================================================================
