------------------------ MODULE ReductionLut_proofs ------------------------
(***************************************************************************)
(* Loading the URAMs, for any number of memories and any number of         *)
(* transfers: the write enable, the count of transfers left, the address   *)
(* inside the memory and the loader are four counters that have to agree.  *)
(***************************************************************************)
EXTENDS ReductionLut, Arithmetic_proofs

\* The counters of the write side, all told by where the loader is.
Aligned ==
  /\ ready => we_uram = host[1] /\ write_uram_xfers = XFERS_PER_URAM - host[2]
  /\ ~ready => host = <<0, 0>>
  /\ \A i \in Urams : next_xfer[i] = IF i = host[1] THEN host[2] ELSE 0

IInv == TypeOK /\ Aligned /\ LoadedInOrder

\* What an edge does to the loading side, whatever is read on it.
Load(we, din_valid) ==
  /\ we => ready
  /\ WriteEnable(we, din_valid)
  /\ UramWide(we, host, din_valid)
  /\ HostSends(we, din_valid)
  /\ ready' = (ready \/ ~we)

\* The sizes as the proofs use them: positive numbers, X for the transfers.
LEMMA Sizes ==
  /\ NUM_URAM \in Nat /\ NUM_URAM > 0
  /\ XFERS_PER_URAM \in Nat /\ XFERS_PER_URAM > 1
  /\ Entries = 0..XFERS_PER_URAM - 1
  /\ NUM_LUT_ENTRIES = XFERS_PER_URAM
<1>1. /\ NUM_URAM \in Nat /\ NUM_URAM > 0
      /\ XFERS_PER_URAM \in Nat /\ XFERS_PER_URAM > 1
  BY CountsAssumption
<1>2. Entries = 0..XFERS_PER_URAM - 1
  BY DEF Entries, XFERS_PER_URAM
<1>3. NUM_LUT_ENTRIES = XFERS_PER_URAM
  BY DEF XFERS_PER_URAM
<1> QED
  BY <1>1, <1>2, <1>3

\* The address of a memory after its last transfer is 0 again.
LEMMA NextAddress ==
  ASSUME NEW x \in Nat, NEW n \in 0..x - 1
  PROVE  (n + 1) % x = IF n + 1 < x THEN n + 1 ELSE 0
<1>1. CASE n + 1 < x
  BY <1>1
<1>2. CASE ~(n + 1 < x)
  <2>1. n + 1 = x
    BY <1>2
  <2>2. x % x = 0
    BY <2>1
  <2> QED
    BY <1>2, <2>1, <2>2
<1> QED
  BY <1>1, <1>2

LEMMA InitIInv == Init => IInv
<1> SUFFICES ASSUME Init PROVE IInv
  OBVIOUS
<1> USE Sizes
<1>1. host = <<0, 0>> /\ ready = FALSE
  BY DEF Init
<1>2. TypeOK
  <2>1. host \in Xfers
    BY <1>1 DEF Xfers
  <2>2. uram \in [Urams -> [Entries -> {Unloaded} \cup (Urams \X Entries)]]
    BY DEF Init
  <2>3. next_xfer \in [Urams -> Entries]
    BY DEF Init
  <2> QED
    BY <1>1, <2>1, <2>2, <2>3 DEF Init, TypeOK
<1>3. Aligned
  BY <1>1 DEF Init, Aligned
<1>4. LoadedInOrder
  BY <1>1 DEF Init, LoadedInOrder, Sent, Urams
<1> QED
  BY <1>2, <1>3, <1>4 DEF IInv

\* Where the loader is, by cases.
LEMMA HostCases ==
  ASSUME TypeOK
  PROVE  /\ host = <<host[1], host[2]>>
         /\ host[1] \in 0..NUM_URAM /\ host[2] \in Entries
         /\ host[1] = NUM_URAM => host[2] = 0
         /\ host[1] \in Urams <=> host[1] # NUM_URAM
  BY Sizes DEF TypeOK, Xfers, Urams

\* we low: everything starts again, and what is loaded stays.
LEMMA LoadBroken ==
  ASSUME IInv, NEW din_valid \in BOOLEAN, Load(FALSE, din_valid)
  PROVE  IInv'
<1> USE Sizes
<1>0. TypeOK /\ Aligned /\ LoadedInOrder
  BY DEF IInv
<1>1. /\ we_uram' = 0 /\ write_uram_xfers' = XFERS_PER_URAM
      /\ host' = <<0, 0>> /\ ready' = TRUE
  BY DEF Load, WriteEnable, HostSends
<1>2. uram' = uram
  <2>1. uram \in [Urams -> [Entries -> {Unloaded} \cup (Urams \X Entries)]]
    BY <1>0 DEF TypeOK
  <2>2. uram' = [i \in Urams |-> uram[i]]
    BY DEF Load, UramWide, Written
  <2> QED
    BY <2>1, <2>2
<1>3. next_xfer' = [i \in Urams |-> 0]
  BY DEF Load, UramWide, Written
<1>4. TypeOK'
  <2>1. host' \in Xfers
    BY <1>1 DEF Xfers
  <2>2. next_xfer' \in [Urams -> Entries]
    BY <1>3
  <2> QED
    BY <1>0, <1>1, <1>2, <2>1, <2>2 DEF TypeOK
<1>5. Aligned'
  BY <1>1, <1>3 DEF Aligned
<1>6. LoadedInOrder'
  BY <1>0, <1>1, <1>2 DEF LoadedInOrder, Sent, Urams
<1> QED
  BY <1>4, <1>5, <1>6 DEF IInv

\* we high, but no transfer is taken: nothing moves.
LEMMA LoadWaits ==
  ASSUME IInv, NEW din_valid \in BOOLEAN, Load(TRUE, din_valid),
         ~din_valid \/ host[1] \notin Urams
  PROVE  IInv'
<1> USE Sizes
<1>0. TypeOK /\ Aligned /\ LoadedInOrder
  BY DEF IInv
<1>1. ready
  BY DEF Load
<1>2. we_uram = host[1]
  BY <1>0, <1>1 DEF Aligned
<1>3. /\ UNCHANGED <<we_uram, write_uram_xfers>>
      /\ host' = host
  BY <1>2 DEF Load, WriteEnable, HostSends
<1>4. ready'
  BY <1>1 DEF Load
<1>5. uram' = uram
  <2>1. uram \in [Urams -> [Entries -> {Unloaded} \cup (Urams \X Entries)]]
    BY <1>0 DEF TypeOK
  <2>2. \A i \in Urams : ~(Written(i, TRUE) /\ din_valid)
    BY <1>2 DEF Written
  <2>3. uram' = [i \in Urams |-> uram[i]]
    BY <2>2 DEF Load, UramWide
  <2> QED
    BY <2>1, <2>3
<1>6. next_xfer' = next_xfer
  <2>1. next_xfer \in [Urams -> Entries]
    BY <1>0 DEF TypeOK
  <2>2. \A i \in Urams : i # host[1] => next_xfer[i] = 0
    BY <1>0 DEF Aligned
  <2>3. next_xfer' = [i \in Urams |-> next_xfer[i]]
    BY <1>2, <2>2 DEF Load, UramWide, Written
  <2> QED
    BY <2>1, <2>3
<1>7. ready' = ready
  BY <1>1 DEF Load
<1>8. IInv'
  BY <1>3, <1>5, <1>6, <1>7, <1>0 DEF IInv, TypeOK, Aligned, LoadedInOrder, Sent, Xfers
<1> QED
  BY <1>8

(***************************************************************************)
(* A transfer goes to the memory and the address the loader means, and all *)
(* four counters move on together, to the next memory after the last one.  *)
(***************************************************************************)
LEMMA LoadTransfer ==
  ASSUME IInv, Load(TRUE, TRUE), host[1] \in Urams
  PROVE  IInv'
<1> USE Sizes
<1>0. TypeOK /\ Aligned /\ LoadedInOrder
  BY DEF IInv
<1> DEFINE i0 == host[1]
           y0 == host[2]
<1>h. /\ host = <<i0, y0>> /\ i0 \in 0..NUM_URAM - 1
      /\ y0 \in 0..XFERS_PER_URAM - 1
  BY <1>0, HostCases DEF Urams
<1>1. /\ we_uram = i0 /\ write_uram_xfers = XFERS_PER_URAM - y0
      /\ next_xfer[i0] = y0
      /\ \A i \in Urams : i # i0 => next_xfer[i] = 0
  BY <1>0 DEF Load, Aligned
<1>2. LastXfer <=> ~(y0 + 1 < XFERS_PER_URAM)
  BY <1>1, <1>h DEF LastXfer
<1>3. /\ we_uram' = IF LastXfer THEN we_uram + 1 ELSE we_uram
      /\ write_uram_xfers' = IF LastXfer THEN XFERS_PER_URAM ELSE write_uram_xfers - 1
  BY <1>1 DEF Load, WriteEnable
<1>4. host' = IF y0 + 1 < XFERS_PER_URAM THEN <<i0, y0 + 1>> ELSE <<i0 + 1, 0>>
  BY DEF Load, HostSends, Following
<1>5. ready' = TRUE
  BY DEF Load
<1>6. /\ host'[1] = IF y0 + 1 < XFERS_PER_URAM THEN i0 ELSE i0 + 1
      /\ host'[2] = IF y0 + 1 < XFERS_PER_URAM THEN y0 + 1 ELSE 0
  BY <1>4
<1>7. /\ we_uram' = host'[1] /\ write_uram_xfers' = XFERS_PER_URAM - host'[2]
      /\ we_uram' \in 0..NUM_URAM /\ write_uram_xfers' \in 1..XFERS_PER_URAM
  <2>1. CASE y0 + 1 < XFERS_PER_URAM
    BY <1>1, <1>2, <1>3, <1>6, <1>h, <2>1
  <2>2. CASE ~(y0 + 1 < XFERS_PER_URAM)
    BY <1>1, <1>2, <1>3, <1>6, <1>h, <2>2
  <2> QED
    BY <2>1, <2>2
<1>8. next_xfer' = [i \in Urams |-> IF i = i0 THEN (y0 + 1) % XFERS_PER_URAM ELSE 0]
  BY <1>1 DEF Load, UramWide, Written
<1>9. (y0 + 1) % XFERS_PER_URAM = IF y0 + 1 < XFERS_PER_URAM THEN y0 + 1 ELSE 0
  BY <1>h, NextAddress
<1>10. \A i \in Urams : next_xfer'[i] = IF i = host'[1] THEN host'[2] ELSE 0
  BY <1>6, <1>8, <1>9, <1>h DEF Urams
<1>11. next_xfer' \in [Urams -> Entries]
  BY <1>8, <1>9, <1>h
<1>12. uram' = [i \in Urams |-> IF i = i0 THEN [uram[i] EXCEPT ![y0] = host]
                                          ELSE uram[i]]
  BY <1>1 DEF Load, UramWide, Written
<1>13. uram \in [Urams -> [Entries -> {Unloaded} \cup (Urams \X Entries)]]
  BY <1>0 DEF TypeOK
<1>14. \A i \in Urams, y \in Entries :
          uram'[i][y] = IF i = i0 /\ y = y0 THEN <<i0, y0>> ELSE uram[i][y]
  BY <1>12, <1>13, <1>h
<1>15. TypeOK'
  <2>1. host' \in Xfers
    BY <1>4, <1>h DEF Xfers
  <2>2. <<i0, y0>> \in Urams \X Entries
    BY <1>h
  <2>3. uram' \in [Urams -> [Entries -> {Unloaded} \cup (Urams \X Entries)]]
    BY <1>12, <1>13, <1>h, <2>2
  <2> QED
    BY <1>5, <1>7, <1>11, <2>1, <2>3 DEF TypeOK
<1>16. Aligned'
  BY <1>5, <1>7, <1>10 DEF Aligned
<1>17. LoadedInOrder'
  <2> SUFFICES ASSUME NEW i \in Urams, NEW y \in Entries
               PROVE  /\ uram'[i][y] \in {Unloaded, <<i, y>>}
                      /\ Sent(i, y)' => uram'[i][y] = <<i, y>>
    BY DEF LoadedInOrder
  <2>1. /\ uram[i][y] \in {Unloaded, <<i, y>>}
        /\ Sent(i, y) => uram[i][y] = <<i, y>>
    BY <1>0 DEF LoadedInOrder
  <2>2. Sent(i, y)' => Sent(i, y) \/ (i = i0 /\ y = y0)
    BY <1>6, <1>h DEF Sent, Urams
  <2> QED
    BY <2>1, <2>2, <1>14
<1> QED
  BY <1>15, <1>16, <1>17 DEF IInv

LEMMA StepIInv == IInv /\ [Next]_vars => IInv'
<1> SUFFICES ASSUME IInv, [Next]_vars PROVE IInv'
  OBVIOUS
<1>1. CASE Next
  <2> PICK we \in BOOLEAN, din_valid \in BOOLEAN, high \in BOOLEAN, over \in BOOLEAN,
           addr \in Addresses : Clock(we, din_valid, addr, high, over)
    BY <1>1 DEF Next
  <2>1. Load(we, din_valid)
    BY DEF Clock, Load
  <2>2. CASE ~we
    BY <2>1, <2>2, LoadBroken
  <2>3. CASE we /\ (~din_valid \/ host[1] \notin Urams)
    BY <2>1, <2>3, LoadWaits
  <2>4. CASE we /\ din_valid /\ host[1] \in Urams
    BY <2>1, <2>4, LoadTransfer
  <2> QED
    BY <2>2, <2>3, <2>4
<1>2. CASE UNCHANGED vars
  BY <1>2 DEF IInv, TypeOK, Aligned, LoadedInOrder, Sent, Xfers, vars, loader
<1> QED
  BY <1>1, <1>2

(***************************************************************************)
(* The write side keeps its types: the URAM written stays between none and *)
(* the last, and the count of transfers left never reaches zero.           *)
(***************************************************************************)
THEOREM TypeCorrect == Spec => []TypeOK
<1>1. IInv => TypeOK
  BY DEF IInv
<1> QED
  BY InitIInv, StepIInv, <1>1, PTL DEF Spec

(***************************************************************************)
(* Every transfer reaches the memory and the address of its entry, for     *)
(* every number of memories and transfers, with any gaps and any restarts. *)
(***************************************************************************)
THEOREM LoadsInOrder == Spec => []LoadedInOrder
<1>1. IInv => LoadedInOrder
  BY DEF IInv
<1> QED
  BY InitIInv, StepIInv, <1>1, PTL DEF Spec

-----------------------------------------------------------------------------
(***************************************************************************)
(* What a look-up puts out.                                                *)
(***************************************************************************)
\* Half words are halves, the modulus fits the words that are not redundant,
\* one word is redundant, and a word fits its register.
ASSUME WordsAssumption ==
  /\ LOOK_UP_WIDTH \in Nat /\ WORD_LEN = 2 * LOOK_UP_WIDTH
  /\ NONREDUNDANT_ELEMENTS \in Nat /\ REDUNDANT_ELEMENTS \in Nat \ {0}
  /\ SEGMENT_ELEMENTS \in Nat
  /\ BIT_LEN \in Nat /\ BIT_LEN >= WORD_LEN
  /\ M \in Nat \ {0} /\ M <= 2^(WORD_LEN * NONREDUNDANT_ELEMENTS)

\* Arithmetic that the provers lack.
ASSUME PowersOfTwo ==
  /\ 2^0 = 1 /\ 2^WORD_LEN <= 2^BIT_LEN /\ LUT_SIZE \in Nat
  /\ \A a, b \in 0 .. WORD_LEN * NUM_ELEMENTS :
       2^a \in Nat \ {0} /\ 2^(a + b) = 2^a * 2^b

\* The words of a number and what shifting it up does to them.  H is the weight
\* of half a word, Y that of any word.
LEMMA NextWord ==
  ASSUME NEW B \in Nat \ {0}, NEW Y \in Nat \ {0}, NEW c \in Nat
  PROVE  c % (Y * B) = (c % Y) + ((c \div Y) % B) * Y
<1> DEFINE d == c \div Y
           r == c % Y
           e == d \div B
           w == d % B
<1>1. c = Y * d + r /\ r \in 0 .. Y - 1 /\ d \in Int
  BY Divided
<1>2. d = B * e + w /\ w \in 0 .. B - 1 /\ e \in Int
  <2> HIDE DEF d
  <2> QED
    BY <1>1, Divided
<1> HIDE DEF d, r, e, w
<1>3. c = (Y * B) * e + (r + w * Y)
  BY <1>1, <1>2
<1>4. r + w * Y \in 0 .. Y * B - 1
  <2>1. w * Y <= (B - 1) * Y /\ w * Y >= 0
    BY <1>2
  <2>2. (B - 1) * Y = Y * B - Y /\ w * Y \in Int /\ Y * B \in Int
    BY <1>2
  <2> QED
    BY <1>1, <2>1, <2>2
<1>5. Y * B \in Nat \ {0}
  OBVIOUS
<1>6. ((Y * B) * e + (r + w * Y)) % (Y * B) = r + w * Y
  BY <1>2, <1>4, <1>5, Division
<1> QED
  BY <1>3, <1>6 DEF r, w, d

\* Half a word up, above the lowest word.
LEMMA HalfWordUp ==
  ASSUME NEW H \in Nat \ {0}, NEW Y \in Nat \ {0}, NEW c \in Nat
  PROVE  ((c * H) \div (H * H * Y)) % (H * H) =
           (((c \div (H * H * Y)) % (H * H)) % H) * H + ((c \div Y) % (H * H)) \div H
<1> DEFINE e == c \div Y
           r == c % Y
           e1 == e \div H
           g0 == e % H
           e2 == e1 \div H
           g1 == e1 % H
           e3 == e2 \div H
           f0 == e2 % H
<1>1. c = Y * e + r /\ r \in 0 .. Y - 1 /\ e \in Int
  BY Divided
<1>2. e = H * e1 + g0 /\ g0 \in 0 .. H - 1 /\ e1 \in Int
  <2> HIDE DEF e
  <2> QED
    BY <1>1, Divided
<1>3. e1 = H * e2 + g1 /\ g1 \in 0 .. H - 1 /\ e2 \in Int
  <2> HIDE DEF e1
  <2> QED
    BY <1>2, Divided
<1>4. e2 = H * e3 + f0 /\ f0 \in 0 .. H - 1 /\ e3 \in Int
  <2> HIDE DEF e2
  <2> QED
    BY <1>3, Divided
<1> HIDE DEF e, r, e1, g0, e2, g1, e3, f0
<1>5. H * H \in Nat \ {0} /\ H * H * Y \in Nat \ {0} /\ H * Y \in Nat \ {0}
  OBVIOUS
\* The shifted number's word.
<1>6. (c * H) \div (H * H * Y) = e1
  <2> DEFINE low == (Y * g0 + r) * H
  <2>1. c * H = (H * H * Y) * e1 + low
    BY <1>1, <1>2
  <2>2. low \in 0 .. H * H * Y - 1
    <3>1. Y * g0 + r \in 0 .. Y * H - 1
      <4>1. Y * g0 <= Y * (H - 1) /\ Y * g0 >= 0 /\ Y * g0 \in Int
        BY <1>2
      <4>2. Y * (H - 1) = Y * H - Y /\ Y * H \in Int
        OBVIOUS
      <4> QED
        BY <1>1, <4>1, <4>2
    <3> DEFINE z == Y * g0 + r
    <3>2. z \in Nat /\ z <= Y * H - 1 /\ low = z * H
      BY <3>1
    <3> HIDE DEF z, low
    <3>3. z * H <= (Y * H - 1) * H /\ z * H >= 0 /\ z * H \in Int
      BY <3>2
    <3>4. (Y * H - 1) * H = H * H * Y - H
      OBVIOUS
    <3> QED
      BY <3>2, <3>3, <3>4, <1>5
  <2> HIDE DEF low
  <2> QED
    BY <1>2, <1>5, <2>1, <2>2, Division
<1>7. e1 % (H * H) = f0 * H + g1
  <2>1. e1 = (H * H) * e3 + (f0 * H + g1)
    BY <1>3, <1>4
  <2>2. f0 * H + g1 \in 0 .. H * H - 1
    <3>1. f0 * H <= (H - 1) * H /\ f0 * H >= 0 /\ f0 * H \in Int /\ (H - 1) * H = H * H - H
      BY <1>4
    <3> QED
      BY <1>3, <3>1, <1>5
  <2> QED
    BY <1>4, <1>5, <2>1, <2>2, Division
\* The halves it is made of.
<1>8. (c \div (H * H * Y)) = e2
  <2> DEFINE low == (H * g1 + g0) * Y + r
  <2>1. c = (H * H * Y) * e2 + low
    BY <1>1, <1>2, <1>3
  <2>2. low \in 0 .. H * H * Y - 1
    <3>1. H * g1 <= H * (H - 1) /\ H * g1 >= 0 /\ H * g1 \in Int /\ H * (H - 1) = H * H - H
      BY <1>3
    <3> DEFINE z == H * g1 + g0
    <3>2. z \in Nat /\ z <= H * H - 1
      BY <3>1, <1>2, <1>5
    <3> HIDE DEF z
    <3>3. z * Y <= (H * H - 1) * Y /\ z * Y >= 0 /\ z * Y \in Int
      BY <3>2, <1>5
    <3>4. (H * H - 1) * Y = H * H * Y - Y
      OBVIOUS
    <3>5. low = z * Y + r
      BY DEF z
    <3> HIDE DEF low
    <3> QED
      BY <1>1, <1>5, <3>3, <3>4, <3>5
  <2> HIDE DEF low
  <2> QED
    BY <1>3, <1>5, <2>1, <2>2, Division
<1>9. (e2 % (H * H)) % H = f0
  <2> DEFINE w == e2 % (H * H)
             q == e2 \div (H * H)
  <2>1. e2 = (H * H) * q + w /\ w \in 0 .. H * H - 1 /\ q \in Int
    BY <1>3, <1>5, Divided
  <2> HIDE DEF w, q
  <2>2. w = f0 + H * (e3 - H * q) /\ e3 - H * q \in Int
    BY <1>4, <2>1
  <2>3. (f0 + H * (e3 - H * q)) % H = f0 % H
    <3> DEFINE k == e3 - H * q
    <3>1. f0 \in Int /\ k \in Int
      BY <1>4, <2>2
    <3> HIDE DEF k
    <3>2. (f0 + H * k) % H = f0 % H
      BY <3>1, Multiples
    <3> QED
      BY <3>2 DEF k
  <2>4. f0 % H = f0
    BY <1>4, SmallRemainder
  <2> QED
    BY <2>2, <2>3, <2>4 DEF w
<1>10. (e % (H * H)) \div H = g1
  <2>1. e = (H * H) * e2 + (H * g1 + g0)
    BY <1>2, <1>3
  <2>2. H * g1 + g0 \in 0 .. H * H - 1
    <3>1. H * g1 <= H * (H - 1) /\ H * g1 >= 0 /\ H * g1 \in Int /\ H * (H - 1) = H * H - H
      BY <1>3
    <3> QED
      BY <1>2, <3>1, <1>5
  <2>3. e % (H * H) = H * g1 + g0
    BY <1>3, <1>5, <2>1, <2>2, Division
  <2>4. (H * g1 + g0) \div H = g1
    BY <1>2, <1>3, Division
  <2> QED
    BY <2>3, <2>4
<1>11. (c \div Y) % (H * H) = e % (H * H)
  BY DEF e
<1> QED
  BY <1>6, <1>7, <1>8, <1>9, <1>10, <1>11

\* The weight of word l.
Weight(l) == 2^(WORD_LEN * l)

\* The sizes, and the weights of the words.
LEMMA Weights ==
  /\ NONREDUNDANT_ELEMENTS \in Nat /\ NUM_ELEMENTS \in Nat
  /\ NUM_ELEMENTS > NONREDUNDANT_ELEMENTS /\ WORD_LEN \in Nat
  /\ LUT_SIZE \in Nat \ {0} /\ 2^WORD_LEN = LUT_SIZE * LUT_SIZE /\ 2^WORD_LEN \in Nat \ {0}
  /\ 2^WORD_LEN <= 2^BIT_LEN
  /\ Weight(0) = 1
  /\ \A l \in 0 .. NUM_ELEMENTS : Weight(l) \in Nat \ {0}
  /\ \A l \in 0 .. NUM_ELEMENTS - 1 : Weight(l + 1) = Weight(l) * 2^WORD_LEN
<1>1. /\ NONREDUNDANT_ELEMENTS \in Nat /\ NUM_ELEMENTS \in Nat
      /\ NUM_ELEMENTS > NONREDUNDANT_ELEMENTS /\ WORD_LEN \in Nat /\ LOOK_UP_WIDTH \in Nat
      /\ WORD_LEN = LOOK_UP_WIDTH + LOOK_UP_WIDTH
  BY WordsAssumption DEF NUM_ELEMENTS
<1>2. \A l \in 0 .. NUM_ELEMENTS : WORD_LEN * l \in 0 .. WORD_LEN * NUM_ELEMENTS
  <2> TAKE l \in 0 .. NUM_ELEMENTS
  <2>1. WORD_LEN * l <= WORD_LEN * NUM_ELEMENTS /\ WORD_LEN * l \in Nat
    BY <1>1
  <2>2. WORD_LEN * NUM_ELEMENTS \in Nat
    BY <1>1
  <2> QED
    BY <2>1, <2>2
<1>3. WORD_LEN \in 0 .. WORD_LEN * NUM_ELEMENTS
  <2>1. 1 \in 0 .. NUM_ELEMENTS /\ WORD_LEN * 1 = WORD_LEN
    BY <1>1
  <2> QED
    BY <1>2, <2>1
<1>4. LOOK_UP_WIDTH \in 0 .. WORD_LEN * NUM_ELEMENTS
  BY <1>1, <1>3
<1>5. LUT_SIZE \in Nat \ {0} /\ 2^WORD_LEN = LUT_SIZE * LUT_SIZE
  BY <1>1, <1>4, PowersOfTwo DEF LUT_SIZE
<1>6. ASSUME NEW l \in 0 .. NUM_ELEMENTS PROVE Weight(l) \in Nat \ {0}
  BY <1>2, PowersOfTwo DEF Weight
<1>7. ASSUME NEW l \in 0 .. NUM_ELEMENTS - 1 PROVE Weight(l + 1) = Weight(l) * 2^WORD_LEN
  <2>1. WORD_LEN * (l + 1) = WORD_LEN * l + WORD_LEN /\ l \in 0 .. NUM_ELEMENTS
    BY <1>1
  <2>2. 2^(WORD_LEN * l + WORD_LEN) = 2^(WORD_LEN * l) * 2^WORD_LEN
    BY <1>2, <1>3, <2>1, PowersOfTwo
  <2> QED
    BY <2>1, <2>2 DEF Weight
<1>8. Weight(0) = 1
  <2>1. WORD_LEN * 0 = 0
    BY <1>1
  <2> QED
    BY <2>1, PowersOfTwo DEF Weight
<1> QED
  BY <1>1, <1>3, <1>5, <1>6, <1>7, <1>8, PowersOfTwo

\* Entries are below the modulus.
LEMMA EntryBelow ==
  ASSUME NEW i \in Nat, NEW y \in Nat
  PROVE  cur(i, y) \in 0 .. M - 1
<1> DEFINE at1 == (i + NONREDUNDANT_ELEMENTS + SEGMENT_ELEMENTS * 2) * WORD_LEN
           at2 == (i + NONREDUNDANT_ELEMENTS) * WORD_LEN
           t1 == ShiftMod(1, at1, M)
           t2 == ShiftMod(1, at2, M)
<1>1. M \in Nat \ {0} /\ LUT_SIZE \in Nat
  BY WordsAssumption, PowersOfTwo
<1>2. at1 \in Nat /\ at2 \in Nat
  BY WordsAssumption
<1> HIDE DEF at1, at2
<1>3. t1 \in Nat /\ t2 \in Nat
  <2>1. t1 \in 0 .. M - 1 /\ t2 \in 0 .. M - 1
    <3>1. \A a \in Int, n \in Nat : ShiftMod(a, n, M) \in 0 .. M - 1
      BY <1>1, ShiftModType
    <3> QED
      BY <1>2, <3>1
  <2> QED
    BY <2>1
<1> HIDE DEF t1, t2
<1>4. CASE y < LUT_SIZE
  <2>1. cur(i, y) = MulMod(t1, y, M)
    BY <1>4 DEF cur, t1, at1
  <2>2. MulMod(t1, y, M) = (t1 * y) % M
    BY <1>1, <1>3, MulModIs
  <2>3. t1 * y \in Int
    BY <1>3
  <2> QED
    BY <1>1, <2>1, <2>2, <2>3, Divided
<1>5. CASE ~(y < LUT_SIZE)
  <2> DEFINE z == y - LUT_SIZE
  <2>1. cur(i, y) = MulMod(t2, z, M) /\ z \in Nat
    BY <1>1, <1>5 DEF cur, t2, at2
  <2> HIDE DEF z
  <2>2. MulMod(t2, z, M) = (t2 * z) % M
    BY <1>1, <1>3, <2>1, MulModIs
  <2>3. t2 * z \in Int
    BY <1>3, <2>1
  <2> QED
    BY <1>1, <2>1, <2>2, <2>3, Divided
<1> QED
  BY <1>4, <1>5

\* Word l of a number.
Word(c, l) == (c \div Weight(l)) % 2^WORD_LEN

\* Words beyond the weight of a number are 0.
LEMMA NoWordBeyond ==
  ASSUME NEW c \in Nat, NEW l \in 0 .. NUM_ELEMENTS, c < Weight(l)
  PROVE  Word(c, l) = 0
<1>1. Weight(l) \in Nat \ {0} /\ 2^WORD_LEN \in Nat \ {0} /\ c \in 0 .. Weight(l) - 1
  BY Weights
<1>2. c \div Weight(l) = 0
  BY <1>1, SmallRemainder
<1>3. 0 % 2^WORD_LEN = 0
  BY <1>1, SmallRemainder
<1> QED
  BY <1>2, <1>3 DEF Word

\* A number below a weight is below the weights above.
LEMMA WeightsGrow ==
  ASSUME NEW l \in 0 .. NUM_ELEMENTS, NEW c \in Nat, c < Weight(NONREDUNDANT_ELEMENTS),
         l >= NONREDUNDANT_ELEMENTS
  PROVE  c < Weight(l)
<1> DEFINE S == {n \in Nat : n >= NONREDUNDANT_ELEMENTS /\ n <= NUM_ELEMENTS => c < Weight(n)}
<1>1. 0 \in S
  BY Weights
<1>2. ASSUME NEW n \in Nat, n \in S PROVE n + 1 \in S
  <2> SUFFICES ASSUME n + 1 >= NONREDUNDANT_ELEMENTS, n + 1 <= NUM_ELEMENTS
               PROVE  c < Weight(n + 1)
    OBVIOUS
  <2>1. CASE n + 1 = NONREDUNDANT_ELEMENTS
    BY <2>1
  <2>2. CASE n + 1 # NONREDUNDANT_ELEMENTS
    <3>1. c < Weight(n) /\ n \in 0 .. NUM_ELEMENTS - 1
      BY <1>2, <2>2, Weights
    <3>2. Weight(n + 1) = Weight(n) * 2^WORD_LEN /\ Weight(n) \in Nat /\ 2^WORD_LEN \in Nat \ {0}
      BY <3>1, Weights
    <3> DEFINE w == Weight(n)
               b == 2^WORD_LEN
    <3>3. w \in Nat /\ b \in Nat \ {0} /\ c < w
      BY <3>1, <3>2
    <3> HIDE DEF w, b
    <3>4. w * b >= w
      BY <3>3
    <3>5. w * b \in Nat
      BY <3>3
    <3> QED
      BY <3>2, <3>3, <3>4, <3>5 DEF w, b
  <2> QED
    BY <2>1, <2>2
<1>3. Nat \subseteq S
  <2> HIDE DEF S
  <2> QED
    BY <1>1, <1>2, Induction
<1> QED
  BY <1>3

\* A word of the number that a look-up is to give: the entry, half a word up,
\* or a word up.
LEMMA OutputIsWord ==
  ASSUME NEW k \in Memories, NEW y \in Entries, lut_read_data[k] = <<k, y>>,
         shift_high_1d \in BOOLEAN, shift_overflow_1d \in BOOLEAN,
         NEW l \in 0 .. NUM_ELEMENTS - 1
  PROVE  lut_output(l, k) =
           Word(cur(k, y) * (IF shift_high_1d THEN LUT_SIZE
                             ELSE IF shift_overflow_1d THEN 2^WORD_LEN ELSE 1), l)
<1> DEFINE c == cur(k, y)
           n == NONREDUNDANT_ELEMENTS
           B == 2^WORD_LEN
           H == LUT_SIZE
<1>1. /\ n \in Nat /\ NUM_ELEMENTS \in Nat /\ NUM_ELEMENTS > n
      /\ H \in Nat \ {0} /\ B = H * H /\ B \in Nat \ {0} /\ Weight(0) = 1
      /\ \A i \in 0 .. NUM_ELEMENTS : Weight(i) \in Nat \ {0}
      /\ \A i \in 0 .. NUM_ELEMENTS - 1 : Weight(i + 1) = Weight(i) * B
  BY Weights
<1>2. c \in Nat /\ c < Weight(n)
  <2>1. k \in Nat /\ y \in Nat
    BY DEF Memories, Entries
  <2>2. c \in 0 .. M - 1 /\ M \in Nat /\ M <= Weight(n)
    BY <2>1, EntryBelow, WordsAssumption DEF Weight
  <2>3. Weight(n) \in Nat
    BY <1>1
  <2> QED
    BY <2>2, <2>3
<1>3. \A i : data(i, k) = Word(c, i)
  BY DEF data, Word, Weight
<1>4. \A w : low_half(w) = w % H /\ high_half(w) = w \div H
  BY DEF low_half, high_half, LUT_SIZE
<1> HIDE DEF c, n, B, H
\* Beyond the words that are not redundant there is nothing.
<1>5. ASSUME NEW i \in n .. NUM_ELEMENTS PROVE Word(c, i) = 0
  <2>1. c < Weight(i) /\ i \in 0 .. NUM_ELEMENTS
    BY <1>1, <1>2, WeightsGrow DEF n
  <2> QED
    BY <1>2, <2>1, NoWordBeyond
<1>6. 0 % H = 0 /\ 0 \div H = 0
  BY <1>1, SmallRemainder
<1>7. l > 0 => l - 1 \in 0 .. NUM_ELEMENTS - 1 /\ Weight(l) = Weight(l - 1) * B
  BY <1>1
<1>8. lut_output(l, k) =
        IF l > n THEN 0
        ELSE IF shift_high_1d
        THEN (IF l < n THEN (Word(c, l) % H) * H ELSE 0)
             + (IF l = 0 THEN 0 ELSE Word(c, l - 1) \div H)
        ELSE IF shift_overflow_1d THEN (IF l = 0 THEN 0 ELSE Word(c, l - 1))
        ELSE IF l < n THEN Word(c, l) ELSE 0
  BY <1>3, <1>4 DEF lut_output, n, H, LUT_SIZE
<1>9. CASE shift_high_1d
  <2>1. lut_output(l, k) =
          (Word(c, l) % H) * H + (IF l = 0 THEN 0 ELSE Word(c, l - 1) \div H)
    <3>1. CASE l < n
      BY <1>1, <1>8, <1>9, <3>1
    <3>2. CASE l = n
      <4>1. Word(c, l) = 0 /\ 0 * H = 0
        BY <1>1, <1>5, <3>2
      <4> QED
        BY <1>1, <1>6, <1>8, <1>9, <3>2, <4>1
    <3>3. CASE l > n
      <4>1. Word(c, l) = 0 /\ Word(c, l - 1) = 0 /\ l # 0 /\ 0 * H = 0
        BY <1>1, <1>5, <3>3
      <4>2. lut_output(l, k) = 0
        BY <1>8, <3>3
      <4> QED
        BY <1>6, <4>1, <4>2
    <3> QED
      BY <1>1, <3>1, <3>2, <3>3
  <2>2. CASE l = 0
    <3>1. c \div 1 = c /\ (c * H) \div 1 = c * H
      BY <1>1, <1>2
    <3>2. Word(c, 0) = c % (H * H) /\ Word(c * H, 0) = (c * H) % (H * H)
      BY <1>1, <3>1 DEF Word, B
    <3> DEFINE q == c \div (H * H)
               w == c % (H * H)
               v == w \div H
               u == w % H
    <3> HIDE DEF q, w, v, u
    <3>3. c = (H * H) * q + w /\ w \in 0 .. H * H - 1 /\ q \in Int /\ H * H \in Nat \ {0}
      <4> DEFINE S == H * H
      <4>1. S \in Nat \ {0} /\ c \in Int
        BY <1>1, <1>2
      <4> HIDE DEF S
      <4>2. c = S * (c \div S) + (c % S) /\ c % S \in 0 .. S - 1 /\ c \div S \in Int
        BY <4>1, Divided
      <4> QED
        BY <4>1, <4>2 DEF S, q, w
    <3>4. w = H * v + u /\ u \in 0 .. H - 1 /\ v \in Int
      <4>1. w \in Int /\ H \in Nat \ {0}
        BY <1>1, <3>3
      <4>2. w = H * (w \div H) + (w % H) /\ w % H \in 0 .. H - 1 /\ w \div H \in Int
        BY <4>1, Divided
      <4> QED
        BY <4>2 DEF v, u
    <3>5. c * H = (H * H) * (q * H + v) + u * H
      BY <1>1, <3>3, <3>4
    <3>6. u * H \in 0 .. H * H - 1
      <4>1. u * H <= (H - 1) * H /\ u * H >= 0 /\ u * H \in Int /\ (H - 1) * H = H * H - H
        BY <1>1, <3>4
      <4> QED
        BY <1>1, <3>3, <4>1
    <3>7. (c * H) % (H * H) = u * H
      <4>1. q * H + v \in Int
        BY <1>1, <3>3, <3>4
      <4> QED
        BY <3>3, <3>5, <3>6, <4>1, Division
    <3>8. lut_output(l, k) = u * H
      <4>1. lut_output(l, k) = (Word(c, 0) % H) * H
        <5>1. u * H + 0 = u * H /\ Word(c, 0) % H = u
          BY <3>2, <3>6 DEF u, w
        <5> QED
          BY <2>1, <2>2, <5>1
      <4> QED
        BY <3>2, <4>1 DEF u, w
    <3> QED
      BY <1>9, <2>2, <3>2, <3>7, <3>8 DEF c, H
  <2>3. CASE l # 0
    <3> DEFINE Y == Weight(l - 1)
    <3>1. Y \in Nat \ {0} /\ Weight(l) = H * H * Y
      <4>1. l - 1 \in 0 .. NUM_ELEMENTS /\ Weight(l) = Weight(l - 1) * B
        BY <1>1, <1>7, <2>3
      <4>2. Weight(l - 1) \in Nat \ {0}
        BY <1>1, <4>1
      <4> QED
        BY <1>1, <4>1, <4>2
    <3>2. Word(c, l) = (c \div (H * H * Y)) % (H * H)
          /\ Word(c, l - 1) = (c \div Y) % (H * H)
          /\ Word(c * H, l) = ((c * H) \div (H * H * Y)) % (H * H)
      BY <1>1, <3>1 DEF Word, B
    <3> HIDE DEF Y
    <3>3. ((c * H) \div (H * H * Y)) % (H * H) =
            (((c \div (H * H * Y)) % (H * H)) % H) * H + ((c \div Y) % (H * H)) \div H
      BY <1>1, <1>2, <3>1, HalfWordUp
    <3>4. lut_output(l, k) = (Word(c, l) % H) * H + (Word(c, l - 1) \div H)
      BY <2>1, <2>3
    <3> QED
      BY <1>9, <3>2, <3>3, <3>4 DEF c, H
  <2> QED
    BY <2>2, <2>3
<1>10. CASE ~shift_high_1d /\ shift_overflow_1d
  <2>1. lut_output(l, k) = IF l = 0 THEN 0 ELSE Word(c, l - 1)
    <3>1. CASE l > n
      <4>1. Word(c, l - 1) = 0
        BY <1>1, <1>5, <3>1
      <4> QED
        BY <1>1, <1>8, <3>1, <4>1
    <3>2. CASE ~(l > n)
      BY <1>8, <1>10, <3>2
    <3> QED
      BY <3>1, <3>2
  <2>2. CASE l = 0
    <3>1. Word(c * B, 0) = (c * B) % B
      <4>1. (c * B) \div 1 = c * B
        BY <1>1, <1>2
      <4> QED
        BY <1>1, <4>1 DEF Word, B
    <3>2. (B * c + 0) % B = 0
      BY <1>1, <1>2, Division
    <3>3. c * B = B * c + 0
      BY <1>1, <1>2
    <3> QED
      BY <1>10, <2>1, <2>2, <3>1, <3>2, <3>3 DEF c, B
  <2>3. CASE l # 0
    <3> DEFINE Y == Weight(l - 1)
               q == c \div Y
               r == c % Y
    <3>1. Y \in Nat \ {0} /\ Weight(l) = Y * B
      <4>1. l - 1 \in 0 .. NUM_ELEMENTS
        BY <1>1, <2>3
      <4> QED
        BY <1>1, <1>7, <2>3, <4>1
    <3> HIDE DEF Y
    <3>2. c = Y * q + r /\ r \in 0 .. Y - 1 /\ q \in Int
      BY <1>2, <3>1, Divided
    <3> HIDE DEF q, r
    <3>3. c * B = (Y * B) * q + r * B /\ Y * B \in Nat \ {0}
      BY <1>1, <3>1, <3>2
    <3>4. r * B \in 0 .. Y * B - 1
      <4>1. r * B <= (Y - 1) * B /\ r * B >= 0 /\ r * B \in Int /\ (Y - 1) * B = Y * B - B
        BY <1>1, <3>1, <3>2
      <4> QED
        BY <1>1, <3>3, <4>1
    <3>5. (c * B) \div (Y * B) = q
      BY <3>2, <3>3, <3>4, Division
    <3>6. Word(c * B, l) = Word(c, l - 1)
      BY <3>1, <3>5 DEF Word, B, q, Y
    <3> QED
      BY <1>10, <2>1, <2>3, <3>6 DEF c, B
  <2> QED
    BY <2>2, <2>3
<1>11. CASE ~shift_high_1d /\ ~shift_overflow_1d
  <2>1. lut_output(l, k) = Word(c, l)
    <3>1. CASE l < n
      BY <1>1, <1>8, <1>11, <3>1
    <3>2. CASE l >= n
      <4>1. Word(c, l) = 0
        BY <1>1, <1>5, <3>2
      <4> QED
        BY <1>1, <1>8, <1>11, <3>2, <4>1
    <3> QED
      BY <1>1, <3>1, <3>2
  <2>2. c * 1 = c
    BY <1>2
  <2> QED
    BY <1>11, <2>1, <2>2 DEF c
<1> QED
  BY <1>9, <1>10, <1>11

\* The words put out are a number below the weight of the top word, in digits.
LEMMA OutputIsNumber ==
  ASSUME NEW k \in Memories, NEW v \in Nat, v < Weight(NUM_ELEMENTS),
         \A l \in 0 .. NUM_ELEMENTS - 1 : lut_output(l, k) = Word(v, l)
  PROVE  OutputOf(k) = v
<1> DEFINE Rec(g) == [l \in 0 .. NUM_ELEMENTS |->
             IF l = 0 THEN 0 ELSE g[l - 1] + lut_output(l - 1, k) * 2^(WORD_LEN * (l - 1))]
           sum == CHOOSE g : g = Rec(g)
           part == [l \in 0 .. NUM_ELEMENTS |-> v % Weight(l)]
<1> HIDE DEF Rec, sum, part
<1>1. /\ NUM_ELEMENTS \in Nat /\ 2^WORD_LEN \in Nat \ {0} /\ Weight(0) = 1
      /\ \A l \in 0 .. NUM_ELEMENTS : Weight(l) \in Nat \ {0}
      /\ \A l \in 0 .. NUM_ELEMENTS - 1 : Weight(l + 1) = Weight(l) * 2^WORD_LEN
  BY Weights
<1>2. v % Weight(0) = 0
  BY <1>1
<1>3. ASSUME NEW l \in 0 .. NUM_ELEMENTS - 1
      PROVE  v % Weight(l + 1) = (v % Weight(l)) + lut_output(l, k) * Weight(l)
  <2> DEFINE Y == Weight(l)
             B == 2^WORD_LEN
  <2>1. Y \in Nat \ {0} /\ B \in Nat \ {0} /\ Weight(l + 1) = Y * B
    BY <1>1
  <2>2. lut_output(l, k) = (v \div Y) % B
    BY DEF Word
  <2> HIDE DEF Y, B
  <2>3. v % (Y * B) = (v % Y) + ((v \div Y) % B) * Y
    BY <2>1, NextWord
  <2> QED
    BY <2>1, <2>2, <2>3 DEF Y
<1>4. \A g : Rec(g) = [i \in 0 .. NUM_ELEMENTS |->
             IF i = 0 THEN 0 ELSE g[i - 1] + lut_output(i - 1, k) * Weight(i - 1)]
  BY DEF Rec, Weight
<1>5. part = Rec(part)
  <2>1. ASSUME NEW l \in 1 .. NUM_ELEMENTS
        PROVE  part[l] = part[l - 1] + lut_output(l - 1, k) * Weight(l - 1)
    <3>1. l - 1 \in 0 .. NUM_ELEMENTS - 1 /\ l - 1 \in 0 .. NUM_ELEMENTS /\ (l - 1) + 1 = l
      BY <1>1
    <3>2. part[l] = v % Weight(l) /\ part[l - 1] = v % Weight(l - 1)
      BY <3>1 DEF part
    <3>3. v % Weight((l - 1) + 1) = (v % Weight(l - 1)) + lut_output(l - 1, k) * Weight(l - 1)
      BY <1>3, <3>1
    <3> QED
      BY <3>1, <3>2, <3>3
  <2>2. part[0] = 0
    BY <1>1, <1>2 DEF part
  <2>3. \A l \in 0 .. NUM_ELEMENTS :
          part[l] = IF l = 0 THEN 0 ELSE part[l - 1] + lut_output(l - 1, k) * Weight(l - 1)
    BY <1>1, <2>1, <2>2
  <2>4. part = [l \in 0 .. NUM_ELEMENTS |-> part[l]]
    BY DEF part
  <2>5. Rec(part) = [l \in 0 .. NUM_ELEMENTS |->
          IF l = 0 THEN 0 ELSE part[l - 1] + lut_output(l - 1, k) * Weight(l - 1)]
    BY <1>4
  <2>6. Rec(part) = [l \in 0 .. NUM_ELEMENTS |-> part[l]]
    BY <2>3, <2>5
  <2> QED
    BY <2>4, <2>6
<1>6. sum = Rec(sum)
  BY <1>5 DEF sum
<1>7. \A l \in 0 .. NUM_ELEMENTS :
        sum[l] = IF l = 0 THEN 0 ELSE sum[l - 1] + lut_output(l - 1, k) * Weight(l - 1)
  BY <1>4, <1>6
<1>8. \A n \in Nat : n <= NUM_ELEMENTS => sum[n] = v % Weight(n)
  <2> DEFINE S == {n \in Nat : n <= NUM_ELEMENTS => sum[n] = v % Weight(n)}
  <2>1. 0 \in S
    BY <1>1, <1>2, <1>7
  <2>2. ASSUME NEW n \in Nat, n \in S PROVE n + 1 \in S
    <3> SUFFICES ASSUME n + 1 <= NUM_ELEMENTS PROVE sum[n + 1] = v % Weight(n + 1)
      OBVIOUS
    <3>1. n \in 0 .. NUM_ELEMENTS - 1 /\ n + 1 \in 0 .. NUM_ELEMENTS /\ n + 1 # 0
          /\ (n + 1) - 1 = n
      BY <1>1
    <3>2. sum[n] = v % Weight(n)
      BY <1>1, <2>2
    <3> HIDE DEF S
    <3>3. sum[n + 1] = sum[n] + lut_output(n, k) * Weight(n)
      BY <1>7, <3>1
    <3> QED
      BY <1>3, <3>1, <3>2, <3>3
  <2>3. Nat \subseteq S
    <3> HIDE DEF S
    <3> QED
      BY <2>1, <2>2, Induction
  <2> QED
    BY <2>3
<1>9. OutputOf(k) = sum[NUM_ELEMENTS]
  BY DEF OutputOf, sum, Rec
<1>10. v % Weight(NUM_ELEMENTS) = v
  <2>1. Weight(NUM_ELEMENTS) \in Nat \ {0} /\ v \in 0 .. Weight(NUM_ELEMENTS) - 1
    BY <1>1
  <2> QED
    BY <2>1, SmallRemainder
<1> QED
  BY <1>1, <1>8, <1>9, <1>10

\* What was read is the entry asked for, or was not loaded; the shift is the
\* one asked for with it.
Asked ==
  /\ asked.addr \in [Memories -> Entries]
  /\ asked.high \in BOOLEAN /\ asked.over \in BOOLEAN
  /\ shift_high_1d = asked.high /\ shift_overflow_1d = asked.over
  /\ \A k \in Memories : lut_read_data[k] \in {Unloaded, <<k, asked.addr[k]>>}

LEMMA InitAsked == Init => Asked
<1> SUFFICES ASSUME Init PROVE Asked
  OBVIOUS
<1>1. asked = [addr |-> [k \in Memories |-> 0], high |-> FALSE, over |-> FALSE]
      /\ shift_high_1d = FALSE /\ shift_overflow_1d = FALSE
      /\ lut_read_data = [k \in Memories |-> Unloaded]
  BY DEF Init
<1>2. 0 \in Entries
  BY Sizes
<1> QED
  BY <1>1, <1>2 DEF Asked

LEMMA StepAsked == LoadedInOrder /\ Asked /\ [Next]_vars => Asked'
<1> SUFFICES ASSUME LoadedInOrder, Asked, [Next]_vars PROVE Asked'
  OBVIOUS
<1>1. CASE Next
  <2> PICK we \in BOOLEAN, din_valid \in BOOLEAN, high \in BOOLEAN, over \in BOOLEAN,
           addr \in Addresses : Clock(we, din_valid, addr, high, over)
    BY <1>1 DEF Next
  <2>1. /\ lut_read_data' = [k \in Memories |-> IF k \in Urams THEN uram[k][addr[k]]
                                                ELSE <<k, addr[k]>>]
        /\ shift_high_1d' = high /\ shift_overflow_1d' = over
        /\ asked' = [addr |-> addr, high |-> high, over |-> over]
    BY DEF Clock, Read
  <2>2. addr \in [Memories -> Entries]
    BY CountsAssumption
  <2>3. ASSUME NEW k \in Memories PROVE lut_read_data'[k] \in {Unloaded, <<k, addr[k]>>}
    <3>1. addr[k] \in Entries
      BY <2>2
    <3>2. k \in Urams => uram[k][addr[k]] \in {Unloaded, <<k, addr[k]>>}
      BY <3>1 DEF LoadedInOrder
    <3> QED
      BY <2>1, <3>2
  <2> QED
    BY <2>1, <2>2, <2>3 DEF Asked
<1>2. CASE UNCHANGED vars
  BY <1>2 DEF Asked, vars, reader
<1> QED
  BY <1>1, <1>2

\* So the words put out are the entry, shifted.
LEMMA AskedIsPutOut == Asked => LookUpIsShiftedEntry
<1> SUFFICES ASSUME Asked, NEW k \in Memories, lut_read_data[k] # Unloaded
             PROVE  /\ OutputOf(k) = cur(k, asked.addr[k]) *
                         (IF asked.high THEN LUT_SIZE
                          ELSE IF asked.over THEN 2^WORD_LEN ELSE 1)
                    /\ \A l \in 0 .. NUM_ELEMENTS - 1 : lut_output(l, k) < 2^BIT_LEN
  BY DEF LookUpIsShiftedEntry, LUT_SIZE
<1> DEFINE y == asked.addr[k]
           c == cur(k, y)
           shift == IF shift_high_1d THEN LUT_SIZE ELSE IF shift_overflow_1d THEN 2^WORD_LEN ELSE 1
           n == NONREDUNDANT_ELEMENTS
           B == 2^WORD_LEN
<1>1. y \in Entries /\ lut_read_data[k] = <<k, y>>
      /\ shift_high_1d \in BOOLEAN /\ shift_overflow_1d \in BOOLEAN
      /\ shift_high_1d = asked.high /\ shift_overflow_1d = asked.over
  BY DEF Asked
<1>2. \A l \in 0 .. NUM_ELEMENTS - 1 : lut_output(l, k) = Word(c * shift, l)
  BY <1>1, OutputIsWord
<1>3. /\ n \in Nat /\ NUM_ELEMENTS \in Nat /\ NUM_ELEMENTS > n
      /\ LUT_SIZE \in Nat \ {0} /\ B = LUT_SIZE * LUT_SIZE /\ B \in Nat \ {0}
      /\ \A i \in 0 .. NUM_ELEMENTS : Weight(i) \in Nat \ {0}
      /\ \A i \in 0 .. NUM_ELEMENTS - 1 : Weight(i + 1) = Weight(i) * B
      /\ B <= 2^BIT_LEN
  BY Weights
<1>4. c \in Nat /\ c < Weight(n)
  <2>1. k \in Nat /\ y \in Nat
    BY <1>1 DEF Memories, Entries
  <2>2. c \in 0 .. M - 1 /\ M \in Nat /\ M <= Weight(n)
    BY <2>1, EntryBelow, WordsAssumption DEF Weight
  <2>3. Weight(n) \in Nat
    BY <1>3
  <2> QED
    BY <2>2, <2>3
<1>5. shift \in Nat \ {0} /\ shift <= B
  <2> DEFINE H == LUT_SIZE
  <2>1. H \in Nat \ {0} /\ B = H * H
    BY <1>3
  <2> HIDE DEF H, B
  <2>2. H * H >= H /\ H * H >= 1
    BY <2>1
  <2> QED
    BY <1>3, <2>1, <2>2 DEF H, B
<1> HIDE DEF c, shift, n, B, y
<1>6. c * shift \in Nat /\ c * shift < Weight(NUM_ELEMENTS)
  <2> DEFINE Y == Weight(n)
  <2>1. Y \in Nat \ {0} /\ c < Y /\ Weight(n + 1) = Y * B /\ Weight(n + 1) \in Nat
    BY <1>3, <1>4
  <2> HIDE DEF Y
  <2>2. c * shift <= c * B /\ c * B <= (Y - 1) * B /\ (Y - 1) * B = Y * B - B
        /\ c * shift \in Nat /\ c * B \in Nat /\ Y * B \in Nat
    BY <1>3, <1>4, <1>5, <2>1
  <2>3. c * shift < Weight(n + 1)
    BY <1>3, <2>1, <2>2
  <2> DEFINE S == {i \in Nat : i > n /\ i <= NUM_ELEMENTS => c * shift < Weight(i)}
  <2>4. 0 \in S
    BY <1>3
  <2>5. ASSUME NEW i \in Nat, i \in S PROVE i + 1 \in S
    <3> SUFFICES ASSUME i + 1 > n, i + 1 <= NUM_ELEMENTS PROVE c * shift < Weight(i + 1)
      OBVIOUS
    <3>1. CASE i = n
      BY <2>3, <3>1
    <3>2. CASE i # n
      <4>1. i > n /\ i \in 0 .. NUM_ELEMENTS - 1 /\ i \in 0 .. NUM_ELEMENTS
        BY <1>3, <3>2
      <4>2. c * shift < Weight(i)
        BY <2>5, <4>1
      <4> DEFINE w == Weight(i)
                 z == c * shift
      <4>3. w \in Nat \ {0} /\ Weight(i + 1) = w * B /\ z < w /\ z \in Nat
        BY <1>3, <2>2, <4>1, <4>2
      <4> HIDE DEF w, z, S
      <4>4. w * B >= w /\ w * B \in Nat
        BY <1>3, <4>3
      <4>5. z < Weight(i + 1)
        BY <4>3, <4>4
      <4> QED
        BY <4>5 DEF z
    <3> QED
      BY <3>1, <3>2
  <2>6. Nat \subseteq S
    <3> HIDE DEF S
    <3> QED
      BY <2>4, <2>5, Induction
  <2> QED
    BY <1>3, <2>2, <2>6
<1>7. OutputOf(k) = c * shift
  <2> DEFINE v == c * shift
  <2>1. v \in Nat /\ v < Weight(NUM_ELEMENTS)
        /\ \A l \in 0 .. NUM_ELEMENTS - 1 : lut_output(l, k) = Word(v, l)
    BY <1>2, <1>6
  <2> HIDE DEF v
  <2>2. OutputOf(k) = v
    BY <2>1, OutputIsNumber
  <2> QED
    BY <2>2 DEF v
<1>8. ASSUME NEW l \in 0 .. NUM_ELEMENTS - 1 PROVE lut_output(l, k) < 2^BIT_LEN
  <2> DEFINE q == (c * shift) \div Weight(l)
  <2>1. q \in Int
    <3>1. c * shift \in Int /\ Weight(l) \in Nat \ {0}
      BY <1>3, <1>6
    <3> QED
      BY <3>1
  <2>2. lut_output(l, k) = q % B
    BY <1>2 DEF Word, B
  <2> HIDE DEF q
  <2>3. q % B \in 0 .. B - 1
    BY <1>3, <2>1, Divided
  <2> QED
    BY <1>3, <2>2, <2>3, WordsAssumption, PowersOfTwo
<1> QED
  BY <1>1, <1>7, <1>8 DEF c, shift, y

(***************************************************************************)
(* What a memory puts out is the entry addressed, times the weight asked   *)
(* for with it, and each word fits: gen_reduction_lut.py, lut_output.      *)
(***************************************************************************)
THEOREM LookUpsAreRight == Spec => []LookUpIsShiftedEntry
<1>1. IInv /\ Asked /\ [Next]_vars => Asked'
  BY StepAsked DEF IInv
<1> QED
  BY InitIInv, InitAsked, StepIInv, <1>1, AskedIsPutOut, PTL DEF Spec
=============================================================================
