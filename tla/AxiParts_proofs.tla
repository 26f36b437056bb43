--------------------------- MODULE AxiParts_proofs ---------------------------
(***************************************************************************)
(* What the parts do that both AXI masters are made of, for any width,     *)
(* depth and content: the counter of vdf_counter.sv, whose register for    *)
(* zero never lags behind its count, and the FIFO, which passes on in      *)
(* order every beat written while it has room.                             *)
(***************************************************************************)
EXTENDS VdfCounter, XpmFifo, Integers, TLAPS

\* A remainder after one time round.
LEMMA ModOnce ==
  ASSUME NEW m \in Nat \ {0}, NEW n \in m .. 2 * m - 1
  PROVE  n % m = n - m
<1> n \in Nat
  OBVIOUS
<1>1. n = m * (n \div m) + (n % m) /\ n % m \in 0 .. m - 1 /\ n \div m \in Nat
  OBVIOUS
<1>2. n \div m >= 1
  BY <1>1
<1>3. n \div m < 2
  <2> SUFFICES ASSUME n \div m >= 2 PROVE FALSE
    BY <1>1
  <2>1. m * (n \div m) >= m * 2
    BY <1>1
  <2> QED
    BY <1>1, <2>1
<1>4. n \div m = 1
  BY <1>1, <1>2, <1>3
<1> QED
  BY <1>1, <1>4

\* The quotient and the remainder of a natural number.
LEMMA Division ==
  ASSUME NEW m \in Nat \ {0}, NEW q \in Nat, NEW r \in 0 .. m - 1
  PROVE  (q * m + r) \div m = q /\ (q * m + r) % m = r
<1> DEFINE n == q * m + r
           d == n \div m
<1>1. n \in Nat /\ q * m \in Nat
  OBVIOUS
<1>2. n = m * d + (n % m) /\ n % m \in 0 .. m - 1 /\ d \in Nat
  BY <1>1
<1> HIDE DEF d
<1>3. d = q
  <2>1. ~(d < q)
    <3> SUFFICES ASSUME d < q PROVE FALSE
      OBVIOUS
    <3>1. m * (d + 1) <= m * q
      BY <1>2
    <3>2. m * (d + 1) = m * d + m /\ m * q = q * m
      BY <1>2
    <3> QED
      BY <1>1, <1>2, <3>1, <3>2
  <2>2. ~(d > q)
    <3> SUFFICES ASSUME d > q PROVE FALSE
      OBVIOUS
    <3>1. m * (q + 1) <= m * d
      BY <1>2
    <3>2. m * (q + 1) = q * m + m
      BY <1>2
    <3> QED
      BY <1>1, <1>2, <3>1, <3>2
  <2> QED
    BY <1>2, <2>1, <2>2
<1>4. m * d = q * m
  BY <1>3
<1> QED
  BY <1>1, <1>2, <1>3, <1>4 DEF d

-----------------------------------------------------------------------------
\* A counter whose register for zero is right.
Sound(c, width) == c \in Counters(width) /\ (c.is_zero <=> c.count = 0)

\* What a step of a counter comes to.
Turned(old, new, width, incr, decr) ==
  /\ Sound(new, width)
  /\ (incr <=> decr) => new = old
  /\ incr /\ ~decr /\ old.count < 2^width - 1 => new.count = old.count + 1
  /\ incr /\ ~decr /\ old.count = 2^width - 1 => new.count = 0
  /\ decr /\ ~incr /\ old.count > 0 => new.count = old.count - 1
  /\ decr /\ ~incr /\ old.count = 0 => new.count = 2^width - 1

\* A counter is made of its fields.
LEMMA SoundFields ==
  ASSUME NEW width, NEW n \in 0 .. 2^width - 1, NEW z \in BOOLEAN, z <=> n = 0,
         NEW s, s = [count |-> n, is_zero |-> z]
  PROVE  Sound(s, width) /\ s.count = n
<1>1. s.count = n /\ s.is_zero = z /\ s \in Counters(width)
  BY DEF Counters
<1> QED
  BY <1>1 DEF Sound

\* The steps of a counter: up and down, round at either end.
LEMMA CounterSteps ==
  ASSUME NEW width, 2^width \in Nat, 2^width >= 2,
         NEW c, Sound(c, width), NEW incr \in BOOLEAN, NEW decr \in BOOLEAN,
         NEW s, s = Stepped(c, width, incr, decr)
  PROVE  Turned(c, s, width, incr, decr)
<1> USE DEF Turned
<1> DEFINE M == 2^width
<1>1. c.count \in 0 .. M - 1 /\ M \in Nat /\ M >= 2
  BY DEF Sound, Counters
<1>2. CASE incr <=> decr
  <2>1. s = c
    BY <1>2 DEF Stepped
  <2> QED
    BY <1>2, <2>1
<1>3. CASE incr /\ ~decr
  <2> DEFINE n == (c.count + 1) % M
             z == c.count = M - 1
  <2>1. s = [count |-> n, is_zero |-> z]
    BY <1>3 DEF Stepped
  <2>2. z \in BOOLEAN
    OBVIOUS
  <2>3. /\ n \in 0 .. M - 1 /\ (z <=> n = 0)
        /\ c.count < M - 1 => n = c.count + 1
        /\ c.count = M - 1 => n = 0
    <3> HIDE DEF M
    <3>1. CASE c.count < M - 1
      BY <1>1, <3>1
    <3>2. CASE c.count = M - 1
      <4>1. c.count + 1 \in M .. 2 * M - 1
        BY <1>1, <3>2
      <4> QED
        BY <1>1, <3>2, <4>1, ModOnce
    <3> QED
      BY <1>1, <3>1, <3>2
  <2> HIDE DEF n, z
  <2>4. Sound(s, width) /\ s.count = n
    BY <2>1, <2>2, <2>3, SoundFields
  <2> QED
    BY <1>1, <1>3, <2>3, <2>4
<1>4. CASE decr /\ ~incr
  <2> DEFINE n == (c.count + M - 1) % M
             z == c.count = 1
  <2>1. s = [count |-> n, is_zero |-> z]
    BY <1>4 DEF Stepped
  <2>2. z \in BOOLEAN
    OBVIOUS
  <2>3. /\ n \in 0 .. M - 1 /\ (z <=> n = 0)
        /\ c.count > 0 => n = c.count - 1
        /\ c.count = 0 => n = M - 1
    <3> HIDE DEF M
    <3>1. CASE c.count > 0
      <4>1. c.count + M - 1 \in M .. 2 * M - 1
        BY <1>1, <3>1
      <4> QED
        BY <1>1, <3>1, <4>1, ModOnce
    <3>2. CASE c.count = 0
      BY <1>1, <3>2
    <3> QED
      BY <1>1, <3>1, <3>2
  <2> HIDE DEF n, z
  <2>4. Sound(s, width) /\ s.count = n
    BY <2>1, <2>2, <2>3, SoundFields
  <2> QED
    BY <1>1, <1>4, <2>3, <2>4
<1> QED
  BY <1>2, <1>3, <1>4

\* A counter that is loaded.
LEMMA CounterLoads ==
  ASSUME NEW width, NEW n \in 0 .. 2^width - 1
  PROVE  Sound(Loaded(n), width) /\ Loaded(n).count = n
BY DEF Sound, Loaded, Counters

-----------------------------------------------------------------------------
Entries(Data) == [beat : Data, wait : Nat]

\* What becomes of a FIFO's beats when it is not reset: the first may leave,
\* one may come, and those that stay do so in order and get older.
Passed(old, new, rd, wr, din) ==
  LET out  == IF rd /\ DataValid(old) THEN 1 ELSE 0
      stay == Len(old) - out
  IN  /\ Len(new) = stay + (IF wr /\ ~Full(old) THEN 1 ELSE 0)
      /\ \A i \in 1 .. stay : /\ new[i].beat = old[i + out].beat
                              /\ new[i].wait <= old[i + out].wait
      /\ wr /\ ~Full(old) => new[stay + 1].beat = din /\ new[stay + 1].wait \in FifoDelays

\* The fields of what is in the FIFO.
LEMMA EntryFields ==
  ASSUME NEW Data, NEW s \in Seq(Entries(Data)), NEW i \in 1 .. Len(s)
  PROVE  s[i].beat \in Data /\ s[i].wait \in Nat
<1>1. s[i] \in Entries(Data)
  OBVIOUS
<1> QED
  BY <1>1 DEF Entries

\* A beat in the FIFO that gets an edge older.
LEMMA AgeOne ==
  ASSUME NEW Data, NEW e \in Entries(Data),
         NEW a, a = [e EXCEPT !.wait = IF @ = 0 THEN 0 ELSE @ - 1]
  PROVE  a \in Entries(Data) /\ a.beat = e.beat /\ a.wait <= e.wait
<1>1. CASE e.wait = 0
  BY <1>1 DEF Entries
<1>2. CASE e.wait # 0
  <2>1. e.wait - 1 \in Nat
    BY <1>2 DEF Entries
  <2> QED
    BY <1>2, <2>1 DEF Entries
<1> QED
  BY <1>1, <1>2

\* The FIFO passes its beats on.
LEMMA FifoPasses ==
  ASSUME NEW Data, NEW old \in Seq(Entries(Data)), NEW rst \in BOOLEAN, ~rst,
         NEW rd \in BOOLEAN, NEW wr \in BOOLEAN, NEW din \in Data,
         NEW new \in AfterEdge(old, rst, rd, wr, din)
  PROVE  new \in Seq(Entries(Data)) /\ Passed(old, new, rd, wr, din)
<1> DEFINE E    == Entries(Data)
           rest == IF rd /\ DataValid(old) THEN Tail(old) ELSE old
           out  == IF rd /\ DataValid(old) THEN 1 ELSE 0
           aged == [i \in DOMAIN rest |->
                      [rest[i] EXCEPT !.wait = IF @ = 0 THEN 0 ELSE @ - 1]]
<1>1. /\ rest \in Seq(E) /\ Len(rest) = Len(old) - out
      /\ \A i \in 1 .. Len(rest) : rest[i] = old[i + out]
  <2>1. CASE rd /\ DataValid(old)
    <3>1. old # <<>> /\ old \in Seq(E)
      BY <2>1 DEF DataValid
    <3>2. Tail(old) \in Seq(E) /\ Len(Tail(old)) = Len(old) - 1
          /\ \A i \in 1 .. Len(Tail(old)) : Tail(old)[i] = old[i + 1]
      BY <3>1
    <3> QED
      BY <2>1, <3>2
  <2>2. CASE ~(rd /\ DataValid(old))
    <3>1. rest = old /\ out = 0
      BY <2>2
    <3> HIDE DEF rest, out
    <3>2. Len(old) \in Nat /\ \A i \in 1 .. Len(old) : i + 0 = i
      OBVIOUS
    <3> QED
      BY <3>1, <3>2
  <2> QED
    BY <2>1, <2>2
<1> HIDE DEF rest
<1>2. DOMAIN rest = 1 .. Len(rest) /\ Len(rest) \in Nat
  BY <1>1
<1>3. \A i \in 1 .. Len(rest) :
        /\ aged[i] \in E /\ aged[i].beat = rest[i].beat /\ aged[i].wait <= rest[i].wait
  <2> TAKE i \in 1 .. Len(rest)
  <2>1. rest[i] \in E
    BY <1>1
  <2>2. aged[i] = [rest[i] EXCEPT !.wait = IF @ = 0 THEN 0 ELSE @ - 1]
    BY <1>2
  <2> HIDE DEF aged
  <2> QED
    BY <2>1, <2>2, AgeOne
<1>4. aged \in Seq(E) /\ Len(aged) = Len(rest)
  <2>1. aged = [i \in 1 .. Len(rest) |-> aged[i]]
    BY <1>2
  <2> HIDE DEF aged, E
  <2>2. aged \in [1 .. Len(rest) -> E]
    BY <1>3, <2>1
  <2> QED
    BY <1>2, <2>2
<1> HIDE DEF aged
<1>5. CASE wr /\ ~Full(old)
  <2>1. PICK wait \in FifoDelays : new = Append(aged, [beat |-> din, wait |-> wait])
    BY <1>5 DEF AfterEdge, aged, rest
  <2> DEFINE e == [beat |-> din, wait |-> wait]
  <2>2. e \in E /\ e.beat = din /\ e.wait = wait
    BY FifoAssumption DEF Entries
  <2> HIDE DEF e, E
  <2>3. /\ new \in Seq(E) /\ Len(new) = Len(rest) + 1 /\ new[Len(rest) + 1] = e
        /\ \A i \in 1 .. Len(rest) : new[i] = aged[i]
    BY <1>2, <1>4, <2>1, <2>2 DEF e
  <2> HIDE DEF out
  <2> QED
    BY <1>1, <1>3, <1>5, <2>1, <2>2, <2>3 DEF Passed, E, out
<1>6. CASE ~(wr /\ ~Full(old))
  <2>1. new = aged
    BY <1>6 DEF AfterEdge, aged, rest
  <2> HIDE DEF E
  <2> QED
    BY <1>1, <1>2, <1>3, <1>4, <1>6, <2>1 DEF Passed, E
<1> QED
  BY <1>5, <1>6

\* A beat that can be seen and is not read is still the one to be seen.
LEMMA HeadStays ==
  ASSUME NEW Data, NEW old \in Seq(Entries(Data)), NEW new \in Seq(Entries(Data)),
         NEW wr, NEW din, Passed(old, new, FALSE, wr, din), DataValid(old)
  PROVE  DataValid(new) /\ Dout(new) = Dout(old)
<1>1. Len(old) >= 1 /\ old[1].wait = 0 /\ Len(old) \in Nat
  BY DEF DataValid
<1>2. Len(new) >= 1 /\ new[1].beat = old[1 + 0].beat /\ new[1].wait <= old[1 + 0].wait
  BY <1>1 DEF Passed
<1>3. new[1] \in Entries(Data)
  BY <1>2
<1>4. new[1].wait = 0 /\ new # <<>>
  BY <1>1, <1>2, <1>3 DEF Entries
<1> QED
  BY <1>1, <1>2, <1>4 DEF DataValid, Dout
=============================================================================
