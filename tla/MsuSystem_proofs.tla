-------------------------- MODULE MsuSystem_proofs --------------------------
(***************************************************************************)
(* What MsuSystem promises, proved for any width of the counts, any        *)
(* requests, lanes and pace of the kernel: msu, the crossing between the   *)
(* two clocks and the squarer keep MsuPromise, every result counted is the *)
(* next square of this job's input, the start reaches an idle squarer, and *)
(* a beat offered is held.                                                 *)
(*                                                                         *)
(* Nothing in the code acknowledges a reset or a start across the clocks:  *)
(* all of this rests on time.  The invariant says how many edges of i_clk  *)
(* what is still on its way may take, and that the state machine leaves it *)
(* that many; the assumptions say of the crossing what the code leaves     *)
(* unsaid.                                                                 *)
(***************************************************************************)
EXTENDS MsuSystem, SequenceTheorems, TLAPS

\* Arithmetic that the provers lack.
ASSUME PowerOfTwo == 2^T_LEN \in Nat /\ 2^T_LEN >= 2

\* reset_cdc0 stretches a reset of one edge to four (redun_mont_wrapper.sv:76):
\* an edge of clk_int must come within them.
ASSUME StretchAssumption == MaxRatio <= 4

\* A word takes an edge at least to be readable, has been read when the next
\* one comes, and the last results of a job are gone when the next one starts:
\* there are 10 edges from the one to the other with answers and requests of
\* three beats, of which the reset takes up to MaxRatio and the FIFO's output
\* pipeline three.
ASSUME DelayAssumption ==
  \A d \in SyncDelays : d > 0 /\ d < MinGap * MinRatio /\ MaxRatio + d + 3 <= 10

\* The FIFOs' reset takes longer than what is left in their output pipeline.
ASSUME FifoResetAssumption == FifoResetEdges >= 2

-----------------------------------------------------------------------------
\* The job under way.
Asked    == Promise!RequestBeats(request)
Answered == Promise!AnswerBeats(request)
Wanted   == Promise!Squarings(request)
Counted  == Wrapped(t_current + 2^T_LEN - request.t_start)
Input    == Value(request.job, 0)
Result(n) == Value(request.job, n)

\* One word in each lane: of the same value, each with a wait of its own.
AnyLane == CHOOSE l \in Lanes : TRUE
Words(v) == [l \in Lanes |-> v]
Wire(v, w) == [l \in Lanes |-> <<[word |-> v, wait |-> w[l]]>>]
WordIn(fifos)  == Head(fifos[AnyLane]).word
WaitsIn(fifos) == [l \in Lanes |-> Head(fifos[l]).wait]
Holding(fifos) ==
  /\ \A l \in Lanes : fifos[l] # <<>>
  /\ WaitsIn(fifos) \in [Lanes -> Nat]
  /\ fifos = Wire(WordIn(fifos), WaitsIn(fifos))

\* Edges of i_clk until the state machine can be in START.
Room ==
  CASE state = "SEND"  -> 9 - axi_out_count
    [] state = "IDLE"  -> 6
    [] state = "INIT"  -> 5
    [] state = "RECV"  -> 4 - offered
    [] state = "SQIN"  -> 1
    [] state = "START" -> 0
    [] OTHER -> 10
\* Edges since PREPARE_SEND, as far as they count.
Elapsed == IF state = "SEND" THEN 1 + axi_out_count ELSE 4
\* Edges of clk_int since the last result was written into its FIFO.
Age == IF o_val THEN MinGap ELSE since

-----------------------------------------------------------------------------
\* Types and shapes that TypeOK leaves open.
Shapes ==
  /\ axi_in = <<axi_in[1], axi_in[2], axi_in[3]>>
  /\ axi_out = <<axi_out[1], axi_out[2], axi_out[3]>>
  /\ request \in [job : 0 .. MaxJobs, t_start : Counts, t_final : Counts]

\* The squarer's ports when it is idle.
Idle ==
  /\ ~running => ~o_val /\ since = 0 /\ x = NoValue
  /\ o_val => since = 0

\* Lock, the FIFOs' reset and ready follow each other; a job is under way in
\* msu, beyond the wait for its request, only when all have come.
Chain ==
  /\ locked => ~reset_1d
  /\ locked_d => locked
  /\ ready => locked_d /\ rst_busy = 0
  /\ o_ready => ready
  /\ ~reset_1d /\ ~o_ready => state = "INIT" \/ (state = "RECV" /\ offered = 0)

\* Until then the crossing is empty and the squarer about to see its reset.
Cleared ==
  ~ready =>
    /\ fifo_in = AllEmpty /\ fifo_out = AllEmpty /\ fifo_out_val = <<FALSE, FALSE>>
    /\ reset_cdc0[1]
    /\ running => rst_busy > 0
    /\ rst_busy < FifoResetEdges => ~fifo_in_val[1]
    /\ rst_busy + 1 < FifoResetEdges => ~fifo_in_val[2]

\* The place of a job in the state machine.
Final == state = "COMPUTE" /\ final_iteration_r
Staged ==
  /\ status = "busy" => ~reset_1d /\ request.job > 0
  /\ status # "busy" => reset_1d \/ state = "INIT"
  /\ state = "SQIN" => status = "busy"
Receiving ==
  status = "busy" /\ state = "RECV" =>
    /\ offered < 3 /\ answer = <<>>
    /\ offered = 1 => axi_in[3] = Asked[1]
    /\ offered = 2 => axi_in[2] = Asked[1] /\ axi_in[3] = Asked[2]
Computing ==
  /\ status = "busy" /\ state \in {"SQIN", "START", "COMPUTE", "PREPARE_SEND"} =>
       offered = 3 /\ answer = <<>>
  /\ status = "busy" /\ state = "SQIN" => axi_in = Asked
  /\ status = "busy" /\ state \in {"START", "COMPUTE", "PREPARE_SEND", "SEND"} =>
       t_final = request.t_final
  /\ status = "busy" /\ state = "START" => t_current = request.t_start /\ sq_in = Input
  /\ status = "busy" /\ state = "COMPUTE" /\ ~final_iteration_r => Counted < Wanted
Sending ==
  /\ status = "busy" /\ (Final \/ state \in {"PREPARE_SEND", "SEND"}) => t_current = t_final
  /\ status = "busy" /\ (Final \/ state = "PREPARE_SEND") =>
       axi_out_count = 0 /\ axi_out = Answered
  /\ status = "busy" /\ state = "SEND" =>
       /\ offered = 3
       /\ \/ axi_out_count = 0 /\ answer = <<>> /\ axi_out = Answered
          \/ /\ axi_out_count = 1 /\ answer = <<Answered[1]>>
             /\ axi_out[1] = Answered[2] /\ axi_out[2] = Answered[3]
          \/ /\ axi_out_count = 2 /\ answer = <<Answered[1], Answered[2]>>
             /\ axi_out[1] = Answered[3]
  /\ status = "busy" /\ state \in {"IDLE", "INIT"} => offered = 3 /\ answer = Answered

\* From msu to the squarer: the reset first, then the input.
Quiet == fifo_in = AllEmpty /\ fifo_in_val = <<FALSE, FALSE>>
Unfed ==
  /\ ~running /\ fifo_out = AllEmpty /\ fifo_out_val = <<FALSE, FALSE>>
  /\ ~final_iteration_r /\ Counted = 0
Crossing ==
  /\ Unfed /\ Holding(fifo_in) /\ WordIn(fifo_in) = Input /\ fifo_in_val = <<FALSE, FALSE>>
Fetching(val, words) ==
  /\ Unfed /\ ~reset_cdc1
  /\ fifo_in = AllEmpty /\ fifo_in_val = val /\ words = Words(Input)
Squaring == running /\ ~reset_cdc1 /\ Quiet
Inlet ==
  ready =>
    /\ state \in {"INIT", "RECV", "SQIN", "START"} => ~running
    /\ state # "COMPUTE" => Quiet
    /\ state = "RECV" => \A i \in 1 .. offered : ~reset_cdc0[i]
    /\ state = "SQIN" => \A i \in 1 .. 3 : ~reset_cdc0[i]
    /\ state \in {"START", "COMPUTE", "PREPARE_SEND"} => \A i \in 1 .. 4 : ~reset_cdc0[i]
    /\ state \in {"SEND", "IDLE"} /\ running =>
         \E i \in Elapsed .. 4 : reset_cdc0[i] /\ i <= clk_gap
    /\ state = "COMPUTE" =>
         \/ Crossing
         \/ Fetching(<<TRUE, FALSE>>, fifo_in_reg)
         \/ Fetching(<<FALSE, TRUE>>, mont_in)
         \/ Squaring

\* From the squarer to msu: at most one word in the FIFO, gone in time.
InTime(wait) ==
  /\ MaxRatio + wait + 3 <= 10 /\ wait + 3 <= Room
  /\ running => wait + Age * MinRatio + clk_gap < MinGap * MinRatio + MinRatio
Outlet ==
  ready =>
    /\ fifo_out # AllEmpty =>
         /\ Holding(fifo_out)
         /\ \A l \in Lanes : InTime(WaitsIn(fifo_out)[l])
         /\ fifo_out_val[1] => \E l \in Lanes : WaitsIn(fifo_out)[l] > 0
    /\ fifo_out_val[1] => ~fifo_out_val[2] /\ Room >= 2
    /\ fifo_out_val[2] => Room >= 1 /\ ~final_iteration_r

\* The results on their way are the next ones, in order.
One(b) == IF b THEN 1 ELSE 0
AtPort   == Counted + One(fifo_out_val[2])
AtReg    == AtPort + One(fifo_out_val[1])
AtFifo   == AtReg + One(fifo_out # AllEmpty)
Announced == AtFifo + One(o_val)
Results ==
  ready /\ state = "COMPUTE" /\ running /\ ~final_iteration_r =>
    /\ fifo_out_val[2] => o_sq_out = Words(Result(AtPort))
    /\ fifo_out_val[1] => fifo_out_reg = Words(Result(AtReg))
    /\ fifo_out # AllEmpty => WordIn(fifo_out) = Result(AtFifo)
    /\ o_val => o_mul = Result(Announced)
    /\ x = Result(Announced)

IInv ==
  /\ TypeOK /\ Shapes /\ Idle /\ Chain /\ Cleared
  /\ Staged /\ Receiving /\ Computing /\ Sending
  /\ Inlet /\ Outlet /\ Results

-----------------------------------------------------------------------------
(***************************************************************************)
(* Counts.                                                                 *)
(***************************************************************************)
\* A remainder when the quotient is 0 or 1.
LEMMA Wraps ==
  ASSUME NEW n \in 0 .. 2 * 2^T_LEN - 1
  PROVE  Wrapped(n) = IF n < 2^T_LEN THEN n ELSE n - 2^T_LEN
<1> DEFINE P == 2^T_LEN
           d == n \div P
<1>1. P \in Nat \ {0}
  BY PowerOfTwo
<1> HIDE DEF P
<1>2. n \in Nat /\ n < 2 * P
  BY <1>1 DEF P
<1>3. n = P * d + (n % P) /\ n % P \in 0 .. P - 1 /\ d \in Nat
  BY <1>1, <1>2
<1> HIDE DEF d
<1>4. d = 0 \/ d = 1
  <2> SUFFICES ASSUME d >= 2 PROVE FALSE
    BY <1>3
  <2>1. P * d >= P * 2
    BY <1>1, <1>3
  <2> QED
    BY <1>1, <1>2, <1>3, <2>1
<1>5. CASE d = 0
  BY <1>1, <1>2, <1>3, <1>5 DEF Wrapped, P
<1>6. CASE d = 1
  BY <1>1, <1>2, <1>3, <1>6 DEF Wrapped, P
<1> QED
  BY <1>4, <1>5, <1>6

\* How far the count a of a request from s to f has come, and when it is at
\* its last: in terms of the count as msu.sv compares it (final_iteration).
LEMMA CountsGo ==
  ASSUME NEW a \in Counts, NEW s \in Counts, NEW f \in Counts
  PROVE  LET done(n) == Wrapped(n + 2^T_LEN - s)
             wanted  == Wrapped(f + 2^T_LEN - s - 1) + 1
         IN  /\ done(a) \in 0 .. 2^T_LEN - 1 /\ wanted \in 1 .. 2^T_LEN
             /\ done(s) = 0
             /\ Wrapped(a + 1) \in Counts
             /\ a = Wrapped(f + 2^T_LEN - 1) <=> done(a) = wanted - 1
             /\ a = Wrapped(f + 2^T_LEN - 1) =>
                  Wrapped(a + 1) = f /\ a = Wrapped(s + wanted - 1)
             /\ done(a) + 1 < wanted => done(Wrapped(a + 1)) = done(a) + 1
             /\ f # Wrapped(f + 2^T_LEN - 1)
<1> DEFINE P == 2^T_LEN
<1>1. P \in Nat /\ P >= 2 /\ a \in 0 .. P - 1 /\ s \in 0 .. P - 1 /\ f \in 0 .. P - 1
  BY PowerOfTwo DEF Counts
<1>2. \A n \in 0 .. 2 * P - 1 : Wrapped(n) = IF n < P THEN n ELSE n - P
  BY Wraps
<1>3. Counts = 0 .. P - 1
  BY DEF Counts
<1> HIDE DEF P
<1>4. a + P - s \in 0 .. 2 * P - 1 /\ s + P - s \in 0 .. 2 * P - 1
      /\ a + 1 \in 0 .. 2 * P - 1 /\ f + P - s - 1 \in 0 .. 2 * P - 1
      /\ f + P - 1 \in 0 .. 2 * P - 1
  BY <1>1
<1>5. Wrapped(a + P - s) = (IF a < s THEN a + P - s ELSE a - s)
      /\ Wrapped(s + P - s) = 0
      /\ Wrapped(a + 1) = (IF a + 1 = P THEN 0 ELSE a + 1)
      /\ Wrapped(f + P - s - 1) = (IF f <= s THEN f + P - s - 1 ELSE f - s - 1)
      /\ Wrapped(f + P - 1) = (IF f = 0 THEN P - 1 ELSE f - 1)
  BY <1>1, <1>2, <1>4
<1>6. Wrapped(a + 1) + P - s \in 0 .. 2 * P - 1
  BY <1>1, <1>5
<1>7. s + Wrapped(f + P - s - 1) \in 0 .. 2 * P - 1
  BY <1>1, <1>5
<1>8. Wrapped(s + (Wrapped(f + P - s - 1) + 1) - 1) = (IF f = 0 THEN P - 1 ELSE f - 1)
  BY <1>1, <1>2, <1>5, <1>7
<1>9. Wrapped(Wrapped(a + 1) + P - s) =
        IF Wrapped(a + 1) < s THEN Wrapped(a + 1) + P - s ELSE Wrapped(a + 1) - s
  BY <1>1, <1>2, <1>5, <1>6
<1>10. Wrapped(a + P - s) \in 0 .. P - 1 /\ Wrapped(f + P - s - 1) + 1 \in 1 .. P
  BY <1>1, <1>5
<1>11. Wrapped(a + 1) \in 0 .. P - 1
  BY <1>1, <1>5
<1>12. a = Wrapped(f + P - 1) <=> Wrapped(a + P - s) = (Wrapped(f + P - s - 1) + 1) - 1
  BY <1>1, <1>5
<1>13. ASSUME a = Wrapped(f + P - 1)
       PROVE  Wrapped(a + 1) = f /\ a = Wrapped(s + (Wrapped(f + P - s - 1) + 1) - 1)
  BY <1>1, <1>5, <1>8, <1>13
<1>14. ASSUME Wrapped(a + P - s) + 1 < Wrapped(f + P - s - 1) + 1
       PROVE  Wrapped(Wrapped(a + 1) + P - s) = Wrapped(a + P - s) + 1
  BY <1>1, <1>5, <1>9, <1>14
<1>15. f # Wrapped(f + P - 1)
  BY <1>1, <1>5
<1> QED
  BY <1>3, <1>5, <1>10, <1>11, <1>12, <1>13, <1>14, <1>15 DEF P

-----------------------------------------------------------------------------
(***************************************************************************)
(* The FIFOs with a word in each lane, or none; shift registers.           *)
(***************************************************************************)
Less(w) == [l \in Lanes |-> IF w[l] = 0 THEN 0 ELSE w[l] - 1]

\* What a FIFO that holds one word in each lane is.
LEMMA WireHolds ==
  ASSUME NEW v, NEW w \in [Lanes -> Nat]
  PROVE  /\ Holding(Wire(v, w)) /\ WordIn(Wire(v, w)) = v /\ WaitsIn(Wire(v, w)) = w
         /\ Wire(v, w) # AllEmpty
         /\ \A l \in Lanes : Readable(Wire(v, w)[l]) <=> w[l] = 0
<1>1. AnyLane \in Lanes
  BY WrapperAssumption DEF AnyLane
<1>2. \A l \in Lanes : /\ Wire(v, w)[l] = <<[word |-> v, wait |-> w[l]]>>
                       /\ Wire(v, w)[l] # <<>>
                       /\ Head(Wire(v, w)[l]).word = v /\ Head(Wire(v, w)[l]).wait = w[l]
  BY DEF Wire
<1>3. WordIn(Wire(v, w)) = v
  BY <1>1, <1>2 DEF WordIn
<1>4. WaitsIn(Wire(v, w)) = w
  BY <1>2 DEF WaitsIn
<1>5. Wire(v, w) # AllEmpty
  BY <1>1, <1>2 DEF AllEmpty
<1> QED
  BY <1>2, <1>3, <1>4, <1>5 DEF Holding, Readable

\* An edge of the reader's clock, all lanes being read together.
LEMMA WireAges ==
  ASSUME NEW v, NEW w \in [Lanes -> Nat], \E l \in Lanes : w[l] > 0
  PROVE  LET rd == \A l \in Lanes : Readable(Wire(v, w)[l])
         IN  ~rd /\ ReadEdge(Wire(v, w), rd) = Wire(v, Less(w)) /\ Less(w) \in [Lanes -> Nat]
<1> DEFINE rd == \A l \in Lanes : Readable(Wire(v, w)[l])
<1>1. rd <=> FALSE
  BY WireHolds
<1>2. \A l \in Lanes : Aged(Wire(v, w)[l]) = <<[word |-> v, wait |-> Less(w)[l]]>>
  <2> TAKE l \in Lanes
  <2> DEFINE c == [word |-> v, wait |-> w[l]]
  <2>1. Wire(v, w)[l] = <<c>> /\ DOMAIN <<c>> = {1} /\ <<c>>[1] = c
    BY DEF Wire
  <2>2. Aged(<<c>>) = <<[c EXCEPT !.wait = IF @ = 0 THEN 0 ELSE @ - 1]>>
    <3> DEFINE d == [c EXCEPT !.wait = IF @ = 0 THEN 0 ELSE @ - 1]
    <3>1. Aged(<<c>>) = [i \in {1} |-> d]
      BY <2>1 DEF Aged
    <3>2. <<d>> = [i \in {1} |-> d]
      OBVIOUS
    <3> QED
      BY <3>1, <3>2
  <2>3. [c EXCEPT !.wait = IF @ = 0 THEN 0 ELSE @ - 1] = [word |-> v, wait |-> Less(w)[l]]
    BY DEF Less
  <2> QED
    BY <2>1, <2>2, <2>3
<1>3. ReadEdge(Wire(v, w), FALSE) = Wire(v, Less(w))
  BY <1>2 DEF ReadEdge, Wire
<1>4. Less(w) \in [Lanes -> Nat]
  BY DEF Less
<1> HIDE DEF rd
<1>5. ~rd /\ ReadEdge(Wire(v, w), rd) = Wire(v, Less(w))
  BY <1>1, <1>3
<1> QED
  BY <1>4, <1>5 DEF rd

\* An edge on which every lane has a word to give.
LEMMA WireRead ==
  ASSUME NEW v, NEW w \in [Lanes -> Nat], \A l \in Lanes : w[l] = 0, NEW reg
  PROVE  LET rd == \A l \in Lanes : Readable(Wire(v, w)[l])
         IN  rd /\ ReadEdge(Wire(v, w), rd) = AllEmpty /\ Fetched(Wire(v, w), rd, reg) = Words(v)
<1> DEFINE rd == \A l \in Lanes : Readable(Wire(v, w)[l])
<1>1. rd <=> TRUE
  BY WireHolds
<1>2. \A l \in Lanes : Readable(Wire(v, w)[l])
  BY WireHolds
<1>3. \A l \in Lanes : /\ Aged(Tail(Wire(v, w)[l])) = <<>>
                       /\ Head(Wire(v, w)[l]).word = v
  <2>1. \A l \in Lanes : Tail(Wire(v, w)[l]) = <<>> /\ Head(Wire(v, w)[l]).word = v
    BY DEF Wire
  <2>2. Aged(<<>>) = <<>>
    BY DEF Aged
  <2> QED
    BY <2>1, <2>2
<1>4. ReadEdge(Wire(v, w), TRUE) = AllEmpty
  BY <1>2, <1>3 DEF ReadEdge, AllEmpty
<1>5. Fetched(Wire(v, w), TRUE, reg) = Words(v)
  BY <1>2, <1>3 DEF Fetched, Words
<1> HIDE DEF rd
<1>6. rd /\ ReadEdge(Wire(v, w), rd) = AllEmpty /\ Fetched(Wire(v, w), rd, reg) = Words(v)
  BY <1>1, <1>4, <1>5
<1> QED
  BY <1>6 DEF rd

\* Nothing comes out of empty FIFOs.
LEMMA EmptyStays ==
  LET rd == \A l \in Lanes : Readable(AllEmpty[l])
  IN  ~rd /\ ReadEdge(AllEmpty, rd) = AllEmpty
<1> DEFINE rd == \A l \in Lanes : Readable(AllEmpty[l])
<1>1. \A l \in Lanes : AllEmpty[l] = <<>> /\ ~Readable(AllEmpty[l])
  BY DEF AllEmpty, Readable
<1>2. ~rd
  BY <1>1, WrapperAssumption
<1>3. Aged(<<>>) = <<>>
  BY DEF Aged
<1>4. ReadEdge(AllEmpty, FALSE) = AllEmpty
  BY <1>1, <1>3 DEF ReadEdge, AllEmpty
<1> QED
  BY <1>2, <1>4

\* A word written into empty FIFOs is in each lane.
LEMMA WireWritten ==
  ASSUME NEW v, NEW d \in [Lanes -> SyncDelays]
  PROVE  Written(AllEmpty, v, d) = Wire(v, d) /\ d \in [Lanes -> Nat]
<1>1. \A l \in Lanes : AllEmpty[l] = <<>>
  BY DEF AllEmpty
<1>2. \A c : Append(<<>>, c) = <<c>>
  OBVIOUS
<1>3. Written(AllEmpty, v, d) = Wire(v, d)
  BY <1>1, <1>2 DEF Written, Wire
<1> QED
  BY <1>3, WrapperAssumption

\* The words of all lanes make the value they are of.
LEMMA Assembles ==
  ASSUME NEW v
  PROVE  Assembled(Words(v)) = v
<1>1. \E l \in Lanes : TRUE
  BY WrapperAssumption
<1>2. \A l \in Lanes : Words(v)[l] = v
  BY DEF Words
<1>3. v \in {Words(v)[l] : l \in Lanes}
  BY <1>1, <1>2
<1> QED
  BY <1>1, <1>2, <1>3 DEF Assembled

\* The shift registers.
LEMMA ResetBits == <<TRUE, FALSE, FALSE, FALSE>> \in [1 .. 4 -> BOOLEAN]
<1> DEFINE t == <<TRUE, FALSE, FALSE, FALSE>>
<1>1. t \in Seq(BOOLEAN) /\ Len(t) = 4
  OBVIOUS
<1> HIDE DEF t
<1>2. t \in [1 .. 4 -> BOOLEAN]
  <2>1. \A s \in Seq(BOOLEAN) : s \in [1 .. Len(s) -> BOOLEAN]
    BY LenProperties
  <2>2. t \in [1 .. Len(t) -> BOOLEAN]
    BY <1>1, <2>1
  <2> QED
    BY <1>1, <2>2
<1> QED
  BY <1>2 DEF t

\* The reset of the squarer as it enters the crossing.
LEMMA CdcShifts ==
  ASSUME reset_cdc0 \in [1 .. 4 -> BOOLEAN], NEW b \in BOOLEAN
  PROVE  LET r == ResetCdc0(b)
         IN  /\ r \in [1 .. 4 -> BOOLEAN]
             /\ r[1] = (~ready \/ b)
             /\ r[2] = reset_cdc0[1] /\ r[3] = reset_cdc0[2] /\ r[4] = reset_cdc0[3]
<1> DEFINE r == ResetCdc0(b)
           t == SubSeq(reset_cdc0, 1, 3)
<1>1. reset_cdc0 \in Seq(BOOLEAN) /\ Len(reset_cdc0) = 4
  OBVIOUS
<1>2. t \in Seq(BOOLEAN) /\ Len(t) = 3 /\ \A i \in 1 .. 3 : t[i] = reset_cdc0[i]
  BY <1>1
<1>3. (~ready \/ b) \in BOOLEAN
  OBVIOUS
<1> HIDE DEF t
<1> DEFINE u == <<~ready \/ b>>
<1>4. u \in Seq(BOOLEAN) /\ Len(u) = 1 /\ u[1] = (~ready \/ b)
  BY <1>3
<1>5. r = u \o t
  BY DEF ResetCdc0, t
<1> HIDE DEF u
<1>9. u \o t \in Seq(BOOLEAN) /\ Len(u \o t) = 4
  <2>1. u \o t \in Seq(BOOLEAN)
    BY <1>2, <1>4, ConcatProperties
  <2>2. Len(u \o t) = Len(u) + Len(t)
    BY <1>2, <1>4, ConcatProperties
  <2> QED
    BY <1>2, <1>4, <2>1, <2>2
<1>10. \A i \in 1 .. 4 : (u \o t)[i] = IF i <= 1 THEN u[i] ELSE t[i - 1]
  BY <1>2, <1>4, ConcatProperties
<1>6. r \in Seq(BOOLEAN) /\ Len(r) = 4 /\ r[1] = (~ready \/ b)
      /\ r[2] = t[1] /\ r[3] = t[2] /\ r[4] = t[3]
  BY <1>4, <1>5, <1>9, <1>10
<1> HIDE DEF r
<1>7. r \in [1 .. 4 -> BOOLEAN]
  BY <1>6
<1>8. r[2] = reset_cdc0[1] /\ r[3] = reset_cdc0[2] /\ r[4] = reset_cdc0[3]
  BY <1>2, <1>6
<1> QED
  BY <1>6, <1>7, <1>8 DEF r

\* A beat and another.
LEMMA BeatFollows ==
  ASSUME NEW b, NEW c
  PROVE  Append(<<b>>, c) = <<b, c>>
<1> DEFINE t == <<b>>
           u == <<b, c>>
           S == {b, c}
<1>1. t \in Seq(S) /\ Len(t) = 1 /\ t[1] = b
  OBVIOUS
<1>2. u \in Seq(S) /\ Len(u) = 2 /\ u[1] = b /\ u[2] = c
  OBVIOUS
<1>3. c \in S
  OBVIOUS
<1> HIDE DEF t, u, S
<1>4. Append(t, c) \in Seq(S)
  BY <1>1, <1>3, AppendProperties
<1>5. Len(Append(t, c)) = Len(t) + 1
  BY <1>1, <1>3, AppendProperties
<1>6. \A i \in 1 .. Len(t) : Append(t, c)[i] = t[i]
  BY <1>1, <1>3, AppendProperties
<1>7. Append(t, c)[Len(t) + 1] = c
  BY <1>1, <1>3, AppendProperties
<1>8. Append(t, c)[1] = b /\ Append(t, c)[2] = c
  BY <1>1, <1>6, <1>7
<1>9. \A i \in 1 .. 2 : i = 1 \/ i = 2
  OBVIOUS
<1>10. \A i \in 1 .. 2 : Append(t, c)[i] = u[i]
  BY <1>2, <1>8, <1>9
<1>11. Len(Append(t, c)) = 2
  BY <1>1, <1>5
<1>12. Append(t, c) = u
  BY <1>2, <1>4, <1>10, <1>11, SeqEqual
<1> QED
  BY <1>12 DEF t, u

\* Two beats and another.
LEMMA BeatsGrow ==
  ASSUME NEW b, NEW c, NEW d
  PROVE  Append(<<b, c>>, d) = <<b, c, d>>
<1> DEFINE t == <<b, c>>
           u == <<b, c, d>>
           S == {b, c, d}
<1>1. t \in Seq(S) /\ Len(t) = 2 /\ t[1] = b /\ t[2] = c
  OBVIOUS
<1>2. u \in Seq(S) /\ Len(u) = 3 /\ u[1] = b /\ u[2] = c /\ u[3] = d
  OBVIOUS
<1>3. d \in S
  OBVIOUS
<1> HIDE DEF t, u, S
<1>4. Append(t, d) \in Seq(S)
  BY <1>1, <1>3, AppendProperties
<1>5. Len(Append(t, d)) = Len(t) + 1
  BY <1>1, <1>3, AppendProperties
<1>6. \A i \in 1 .. Len(t) : Append(t, d)[i] = t[i]
  BY <1>1, <1>3, AppendProperties
<1>7. Append(t, d)[Len(t) + 1] = d
  BY <1>1, <1>3, AppendProperties
<1>8. Append(t, d)[1] = b /\ Append(t, d)[2] = c /\ Append(t, d)[3] = d
  BY <1>1, <1>6, <1>7
<1>9. \A i \in 1 .. 3 : i = 1 \/ i = 2 \/ i = 3
  OBVIOUS
<1>10. \A i \in 1 .. 3 : Append(t, d)[i] = u[i]
  BY <1>2, <1>8, <1>9
<1>11. Len(Append(t, d)) = 3
  BY <1>1, <1>5
<1>12. Append(t, d) = u
  BY <1>2, <1>4, <1>10, <1>11, SeqEqual
<1> QED
  BY <1>12 DEF t, u

\* The oldest of three beats makes room for another.
LEMMA BeatsShift ==
  ASSUME NEW a, NEW b, NEW c, NEW d
  PROVE  Shift(<<a, b, c>>, d) = <<b, c, d>>
<1> DEFINE s == <<a, b, c>>
           t == <<b, c>>
           u == <<b, c, d>>
           S == {a, b, c}
<1>1. s \in Seq(S) /\ Len(s) = 3 /\ s[1] = a /\ s[2] = b /\ s[3] = c
  OBVIOUS
<1>2. t \in Seq(S) /\ Len(t) = 2 /\ t[1] = b /\ t[2] = c
  OBVIOUS
<1> HIDE DEF s, t, u, S
<1>3. Tail(s) = t
  <2>1. s # <<>>
    BY <1>1, EmptySeq
  <2>2. Tail(s) \in Seq(S)
    BY <1>1, <2>1, HeadTailProperties
  <2>3. Len(Tail(s)) = 2
    BY <1>1, <2>1, HeadTailProperties
  <2>4. \A i \in 1 .. 2 : Tail(s)[i] = s[i + 1]
    BY <1>1, <2>1, <2>3, HeadTailProperties
  <2>5. Tail(s)[1] = b /\ Tail(s)[2] = c
    <3> DEFINE tail == Tail(s)
    <3>1. \A i \in 1 .. 2 : tail[i] = s[i + 1]
      BY <2>4
    <3> HIDE DEF tail
    <3>2. tail[1] = b /\ tail[2] = c
      BY <1>1, <3>1
    <3> QED
      BY <3>2 DEF tail
  <2>6. \A i \in 1 .. 2 : i = 1 \/ i = 2
    OBVIOUS
  <2>7. \A i \in 1 .. 2 : Tail(s)[i] = t[i]
    BY <1>2, <2>5, <2>6
  <2> QED
    BY <1>2, <2>2, <2>3, <2>7, SeqEqual
<1>4. Append(t, d) = u
  BY BeatsGrow DEF t, u
<1> QED
  BY <1>3, <1>4 DEF Shift, s, u

\* What an edge of the reader's clock does to FIFOs that are all empty or hold
\* a word each: f are the FIFOs, reg their first output register.
LEMMA ReaderEdge ==
  ASSUME NEW f, NEW reg
  PROVE  LET rd == \A l \in Lanes : Readable(f[l])
             w  == WaitsIn(f)
         IN  /\ f = AllEmpty => ~rd /\ ReadEdge(f, rd) = AllEmpty
             /\ Holding(f) => f # AllEmpty
             /\ Holding(f) /\ (\A l \in Lanes : w[l] = 0) =>
                  /\ rd /\ ReadEdge(f, rd) = AllEmpty
                  /\ Fetched(f, rd, reg) = Words(WordIn(f))
             /\ Holding(f) /\ (\E l \in Lanes : w[l] > 0) =>
                  /\ ~rd /\ Holding(ReadEdge(f, rd)) /\ WordIn(ReadEdge(f, rd)) = WordIn(f)
                  /\ WaitsIn(ReadEdge(f, rd)) = Less(w)
<1> DEFINE rd == \A l \in Lanes : Readable(f[l])
           w  == WaitsIn(f)
           v  == WordIn(f)
<1>1. f = AllEmpty => ~rd /\ ReadEdge(f, rd) = AllEmpty
  BY EmptyStays
<1>2. Holding(f) => w \in [Lanes -> Nat] /\ f = Wire(v, w)
  BY DEF Holding
<1>3. Holding(f) => f # AllEmpty
  BY WireHolds, <1>2
<1>4. ASSUME Holding(f), \A l \in Lanes : w[l] = 0
      PROVE  rd /\ ReadEdge(f, rd) = AllEmpty /\ Fetched(f, rd, reg) = Words(v)
  <2> HIDE DEF w, v
  <2>1. f = Wire(v, w) /\ w \in [Lanes -> Nat]
    BY <1>2, <1>4
  <2> QED
    BY <1>4, <2>1, WireRead
<1>5. ASSUME Holding(f), \E l \in Lanes : w[l] > 0
      PROVE  /\ ~rd /\ Holding(ReadEdge(f, rd)) /\ WordIn(ReadEdge(f, rd)) = v
             /\ WaitsIn(ReadEdge(f, rd)) = Less(w)
  <2> HIDE DEF w, v
  <2>1. f = Wire(v, w) /\ w \in [Lanes -> Nat]
    BY <1>2, <1>5
  <2>2. ~rd /\ ReadEdge(f, rd) = Wire(v, Less(w)) /\ Less(w) \in [Lanes -> Nat]
    BY <1>5, <2>1, WireAges
  <2>3. Holding(Wire(v, Less(w))) /\ WordIn(Wire(v, Less(w))) = v
        /\ WaitsIn(Wire(v, Less(w))) = Less(w)
    BY <2>2, WireHolds
  <2> QED
    BY <2>2, <2>3
<1> QED
  BY <1>1, <1>3, <1>4, <1>5

\* No lane has more than a word.
LEMMA FewWords ==
  ASSUME NEW f, f = AllEmpty \/ Holding(f)
  PROVE  \A l \in Lanes : Len(f[l]) <= 1 /\ Len(f[l]) <= 2
<1>1. CASE f = AllEmpty
  BY <1>1 DEF AllEmpty
<1>2. CASE Holding(f)
  BY <1>2 DEF Holding, Wire
<1> QED
  BY <1>1, <1>2

-----------------------------------------------------------------------------
(***************************************************************************)
(* An edge of clk_int.                                                     *)
(***************************************************************************)
\* Nothing of msu or the kernel changes, nor the wrapper's registers of i_clk.
LEMMA IntLeaves ==
  ASSUME IInv, ClkInt
  PROVE  /\ Shapes' /\ Staged' /\ Receiving' /\ Computing' /\ Sending' /\ Chain'
         /\ state' = state /\ final_iteration_r' = final_iteration_r /\ ready' = ready
         /\ Room' = Room /\ Elapsed' = Elapsed /\ Counted' = Counted
         /\ Input' = Input /\ reset_cdc0' = reset_cdc0 /\ fifo_out_val' = fifo_out_val
         /\ offered' = offered
<1> USE DEF IInv, ClkInt, WrapperClkInt, msu_vars, kernel_vars
<1>1. UNCHANGED <<msu_vars, kernel_vars>>
  OBVIOUS
<1>2. UNCHANGED <<locked, locked_d, ready, o_ready, fifo_out_val, reset_cdc0>>
  OBVIOUS
<1>3. Shapes'
  BY DEF Shapes
<1>4. Staged'
  BY DEF Staged
<1>5. Asked' = Asked /\ Answered' = Answered /\ Wanted' = Wanted /\ Counted' = Counted
      /\ Input' = Input
  BY DEF Asked, Answered, Wanted, Counted, Input
<1>6. Receiving'
  BY <1>5 DEF Receiving
<1>7. Computing'
  BY <1>5 DEF Computing
<1>8. Sending'
  BY <1>5 DEF Sending, Final
<1>9. Chain'
  BY DEF Chain, TypeOK
<1>10. Room' = Room /\ Elapsed' = Elapsed
  BY DEF Room, Elapsed
<1> QED
  BY <1>1, <1>2, <1>3, <1>4, <1>5, <1>6, <1>7, <1>8, <1>9, <1>10

\* The squarer's ports.
LEMMA IntIdle ==
  ASSUME IInv, ClkInt
  PROVE  /\ Idle' /\ running' \in BOOLEAN /\ o_val' \in BOOLEAN
         /\ since' \in 0 .. MaxGap - 1
<1>1. SquarerEdge(reset_cdc1 \/ reset_cdc1', fifo_in_val[2], Assembled(mont_in))
  BY DEF ClkInt, WrapperClkInt
<1>2. running \in BOOLEAN /\ o_val \in BOOLEAN /\ since \in 0 .. MaxGap - 1 /\ Idle
  BY DEF IInv, TypeOK
<1>3. CASE Stop
  <2>1. Idle'
    BY <1>3 DEF Stop, Idle
  <2>2. running' \in BOOLEAN /\ o_val' \in BOOLEAN
    BY <1>3 DEF Stop
  <2>3. since' \in 0 .. MaxGap - 1
    BY <1>3, GapAssumption DEF Stop
  <2> QED
    BY <2>1, <2>2, <2>3
<1>4. CASE \E v : Feed(v)
  <2>1. Idle'
    BY <1>4 DEF Feed, Idle
  <2>2. running' \in BOOLEAN /\ o_val' \in BOOLEAN
    BY <1>4 DEF Feed
  <2>3. since' \in 0 .. MaxGap - 1
    BY <1>4, GapAssumption DEF Feed
  <2> QED
    BY <2>1, <2>2, <2>3
<1>5. CASE Rest
  <2>1. Idle'
    BY <1>2, <1>5 DEF Rest, squarer_vars, Idle
  <2>2. running' \in BOOLEAN /\ o_val' \in BOOLEAN
    BY <1>2, <1>5 DEF Rest, squarer_vars
  <2>3. since' \in 0 .. MaxGap - 1
    BY <1>2, <1>5, GapAssumption DEF Rest, squarer_vars
  <2> QED
    BY <2>1, <2>2, <2>3
<1>6. CASE running /\ Work
  <2>1. Idle'
    BY <1>2, <1>6 DEF Work, Idle
  <2>2. running' \in BOOLEAN /\ o_val' \in BOOLEAN
    BY <1>2, <1>6 DEF Work
  <2>3. since' \in 0 .. MaxGap - 1
    BY <1>2, <1>6, GapAssumption DEF Work
  <2> QED
    BY <2>1, <2>2, <2>3
<1>7. CASE running /\ Announce
  <2>1. Idle'
    BY <1>2, <1>7 DEF Announce, Idle
  <2>2. running' \in BOOLEAN /\ o_val' \in BOOLEAN
    BY <1>2, <1>7 DEF Announce
  <2>3. since' \in 0 .. MaxGap - 1
    BY <1>2, <1>7, GapAssumption DEF Announce
  <2> QED
    BY <2>1, <2>2, <2>3
<1> QED
  BY <1>1, <1>3, <1>4, <1>5, <1>6, <1>7 DEF SquarerEdge

\* While the crossing is not ready the squarer sees its reset and the FIFOs
\* stay empty.
LEMMA IntCleared ==
  ASSUME IInv, ClkInt
  PROVE  Cleared'
<1> SUFFICES ASSUME ~ready PROVE Cleared'
  BY IntLeaves DEF Cleared
<1>1. /\ fifo_in = AllEmpty /\ fifo_out = AllEmpty /\ fifo_out_val = <<FALSE, FALSE>>
      /\ reset_cdc0[1] /\ (running => rst_busy > 0)
      /\ (rst_busy < FifoResetEdges => ~fifo_in_val[1])
      /\ (rst_busy + 1 < FifoResetEdges => ~fifo_in_val[2])
  BY DEF IInv, Cleared
<1>2. ~FifoInRd /\ fifo_in' = AllEmpty
  BY <1>1, EmptyStays DEF ClkInt, WrapperClkInt, FifoInRd
<1>3. fifo_in_val' = <<FALSE, fifo_in_val[1]>>
  BY <1>2 DEF ClkInt, WrapperClkInt, FifoInRd
<1>4. rst_busy \in 0 .. FifoResetEdges /\ (rst_busy' = rst_busy \/ rst_busy' = rst_busy - 1)
  BY DEF ClkInt, WrapperClkInt, IInv, TypeOK
<1>5. ~running' /\ ~o_val'
  BY <1>1 DEF ClkInt, WrapperClkInt, SquarerEdge, Stop
<1>6. o_val => rst_busy > 0
  BY <1>1 DEF IInv, Idle
<1>7. fifo_out' = AllEmpty
  BY <1>1, <1>6, <1>4 DEF ClkInt, WrapperClkInt
<1>8. rst_busy' < FifoResetEdges => ~fifo_in_val'[1]
  BY <1>3
<1>9. rst_busy' + 1 < FifoResetEdges => ~fifo_in_val'[2]
  <2>1. fifo_in_val'[2] = fifo_in_val[1]
    BY <1>3
  <2>2. rst_busy' + 1 < FifoResetEdges => rst_busy < FifoResetEdges
    BY <1>4, WrapperAssumption
  <2> QED
    BY <1>1, <2>1, <2>2
<1> QED
  BY <1>1, <1>2, <1>5, <1>7, <1>8, <1>9, IntLeaves DEF Cleared

\* A product of naturals is one.
LEMMA TimesNat ==
  ASSUME NEW n \in Nat, NEW m \in Nat
  PROVE  n * m \in Nat
OBVIOUS

\* A product grows with its factor.
LEMMA TimesGrows ==
  ASSUME NEW n \in Nat, NEW m \in Nat, NEW k \in Nat, n <= m
  PROVE  n * k <= m * k /\ (m + 1) * k = m * k + k
<1>1. m = n + (m - n) /\ m - n \in Nat
  OBVIOUS
<1>2. m * k = n * k + (m - n) * k
  BY <1>1
<1>3. (m - n) * k >= 0 /\ n * k \in Nat /\ m * k \in Nat
  BY <1>1
<1> QED
  BY <1>2, <1>3

\* What an edge of clk_int does once the crossing is ready.
LEMMA IntReady ==
  ASSUME IInv, ClkInt, ready
  PROVE  /\ ~reset_1d /\ rst_busy = 0
         /\ clk_gap \in MinRatio .. MaxRatio /\ clk_gap' = 0
         /\ fifo_in' = ReadEdge(fifo_in, FifoInRd)
         /\ fifo_in_val' = <<FifoInRd, fifo_in_val[1]>>
         /\ fifo_in_reg' = Fetched(fifo_in, FifoInRd, fifo_in_reg)
         /\ mont_in' = fifo_in_reg
         /\ reset_cdc1' <=> \E i \in 1 .. 4 : reset_cdc0[i]
         /\ SquarerEdge(reset_cdc1 \/ reset_cdc1', fifo_in_val[2], Assembled(mont_in))
         /\ ~o_val => fifo_out' = fifo_out
         /\ o_val => \E d \in [Lanes -> SyncDelays] : fifo_out' = Written(fifo_out, o_mul, d)
<1>1. locked /\ locked_d /\ rst_busy = 0 /\ ~reset_1d
  BY DEF IInv, Chain
<1>2. clk_gap \in 0 .. MaxRatio /\ MinRatio \in Nat /\ clk_gap >= MinRatio
  BY <1>1, WrapperAssumption DEF IInv, TypeOK, ClkInt, WrapperClkInt
<1>3. fifo_in_val' = <<FifoInRd, fifo_in_val[1]>>
  BY DEF ClkInt, WrapperClkInt
<1>4. clk_gap \in MinRatio .. MaxRatio
  BY <1>2, WrapperAssumption
<1>5. reset_cdc1' <=> \E i \in 1 .. 4 : reset_cdc0[i]
  BY DEF ClkInt, WrapperClkInt
<1>6. SquarerEdge(reset_cdc1 \/ reset_cdc1', fifo_in_val[2], Assembled(mont_in))
  BY DEF ClkInt, WrapperClkInt
<1>7. o_val => \E d \in [Lanes -> SyncDelays] : fifo_out' = Written(fifo_out, o_mul, d)
  BY <1>1 DEF ClkInt, WrapperClkInt
<1>8. ~o_val => fifo_out' = fifo_out
  BY <1>1 DEF ClkInt, WrapperClkInt
<1>9. /\ fifo_in' = ReadEdge(fifo_in, FifoInRd) /\ clk_gap' = 0
      /\ fifo_in_reg' = Fetched(fifo_in, FifoInRd, fifo_in_reg) /\ mont_in' = fifo_in_reg
  BY DEF ClkInt, WrapperClkInt
<1> QED
  BY <1>1, <1>3, <1>4, <1>5, <1>6, <1>7, <1>8, <1>9

\* A squarer that runs works or announces, and the time from write to write
\* counts up.
LEMMA IntWorks ==
  ASSUME IInv, ClkInt, ready, running, running'
  PROVE  /\ ~(reset_cdc1 \/ reset_cdc1') /\ (Work \/ Announce)
         /\ Age' \in Nat /\ Age \in Nat
         /\ ~o_val => Age' * MinRatio <= Age * MinRatio + clk_gap
         /\ o_val => Age' * MinRatio <= MinRatio
<1>1. ~(reset_cdc1 \/ reset_cdc1') /\ (Work \/ Announce)
  BY IntReady DEF SquarerEdge, Stop
<1>2. /\ since \in 0 .. MaxGap - 1 /\ (o_val => since = 0) /\ MinRatio \in Nat
      /\ MinGap \in Nat \ {0} /\ MaxGap \in Nat
  BY GapAssumption, WrapperAssumption DEF IInv, TypeOK, Idle
<1>3. Age' \in Nat /\ Age' <= since + 1
  <2>1. CASE Work
    BY <1>2, <2>1 DEF Work, Age
  <2>2. CASE Announce
    BY <1>2, <2>2 DEF Announce, Age
  <2> QED
    BY <1>1, <2>1, <2>2
<1>4. Age \in Nat
  BY <1>2 DEF Age
<1>5. since \in Nat
  BY <1>2
<1>6. /\ Age' * MinRatio <= (since + 1) * MinRatio
      /\ (since + 1) * MinRatio = since * MinRatio + MinRatio
  <2>1. since + 1 \in Nat
    BY <1>5
  <2>2. Age' * MinRatio <= (since + 1) * MinRatio
    BY <1>2, <1>3, <2>1, TimesGrows
  <2>3. (since + 1) * MinRatio = since * MinRatio + MinRatio
    BY <1>2, <1>5, TimesGrows
  <2> QED
    BY <2>2, <2>3
<1> DEFINE a == Age' * MinRatio
           b == since * MinRatio
<1>7. a \in Nat /\ b \in Nat /\ a <= b + MinRatio
  <2>1. a \in Nat
    BY <1>2, <1>3, TimesNat
  <2>2. b \in Nat
    BY <1>2, <1>5, TimesNat
  <2>3. (since + 1) * MinRatio = b + MinRatio
    BY <1>6
  <2>4. a <= (since + 1) * MinRatio
    BY <1>6
  <2> QED
    BY <2>1, <2>2, <2>3, <2>4
<1>8. o_val => b = 0
  BY <1>2
<1>9. clk_gap \in Nat /\ clk_gap >= MinRatio
  BY <1>2, IntReady, WrapperAssumption
<1>10. ~o_val => Age * MinRatio = b
  BY DEF Age
<1> HIDE DEF a, b
<1>11. ~o_val => a <= Age * MinRatio + clk_gap
  BY <1>2, <1>7, <1>9, <1>10
<1>12. o_val => a <= MinRatio
  BY <1>2, <1>7, <1>8
<1> QED
  BY <1>1, <1>3, <1>4, <1>11, <1>12 DEF a

\* When a result is written the one before has been read.
LEMMA OneAtATime ==
  ASSUME IInv, ClkInt, ready, o_val
  PROVE  fifo_out = AllEmpty /\ running
<1> SUFFICES ASSUME fifo_out # AllEmpty PROVE FALSE
  BY DEF IInv, Idle
<1>1. running
  BY DEF IInv, Idle
<1>2. Holding(fifo_out) /\ \A l \in Lanes : InTime(WaitsIn(fifo_out)[l])
  BY DEF IInv, Outlet
<1>3. PICK l \in Lanes : InTime(WaitsIn(fifo_out)[l])
  BY <1>2, WrapperAssumption
<1> DEFINE w == WaitsIn(fifo_out)[l]
           p == MinGap * MinRatio
<1>4. w \in Nat
  BY <1>2 DEF Holding
<1>5. p \in Nat
  BY GapAssumption, WrapperAssumption
<1>6. w + p + clk_gap < p + MinRatio
  BY <1>1, <1>3 DEF InTime, Age
<1>7. clk_gap \in MinRatio .. MaxRatio
  BY IntReady
<1> HIDE DEF w, p
<1> QED
  BY <1>4, <1>5, <1>6, <1>7, WrapperAssumption

\* The squarer starts only on the input of a job that has no results yet.
LEMMA StartsEmpty ==
  ASSUME IInv, ClkInt, ready, ~running, running'
  PROVE  state = "COMPUTE" /\ Fetching(<<FALSE, TRUE>>, mont_in) /\ Feed(Assembled(mont_in))
<1>1. fifo_in_val[2] /\ Feed(Assembled(mont_in))
  BY IntReady DEF SquarerEdge, Stop, Rest, squarer_vars
<1>2. fifo_in_val # <<FALSE, FALSE>> /\ fifo_in_val # <<TRUE, FALSE>>
  <2>1. \A b : fifo_in_val = <<b, FALSE>> => ~fifo_in_val[2]
    OBVIOUS
  <2> QED
    BY <1>1, <2>1
<1>3. Inlet
  BY DEF IInv
<1>4. state = "COMPUTE"
  BY <1>2, <1>3 DEF Inlet, Quiet
<1>5. ~Crossing /\ ~Fetching(<<TRUE, FALSE>>, fifo_in_reg) /\ ~Squaring
  BY <1>2 DEF Quiet, Crossing, Fetching, Squaring
<1> QED
  BY <1>1, <1>3, <1>4, <1>5 DEF Inlet

\* Room is a number of edges.
LEMMA RoomIs ==
  ASSUME TypeOK
  PROVE  Room \in Int /\ Room <= 10 /\ Elapsed \in Nat
<1>1. axi_out_count \in 0 .. 3 /\ offered \in 0 .. 3
  BY DEF TypeOK, AXI_OUT_COUNT, AXI_IN_COUNT
<1> QED
  BY <1>1 DEF Room, Elapsed

\* What is on its way to msu.
LEMMA IntOutlet ==
  ASSUME IInv, ClkInt
  PROVE  Outlet'
<1> SUFFICES ASSUME ready PROVE Outlet'
  BY IntLeaves DEF Outlet
<1>1. /\ Room' = Room /\ fifo_out_val' = fifo_out_val /\ clk_gap' = 0
      /\ clk_gap \in MinRatio .. MaxRatio /\ Elapsed' = Elapsed
  BY IntLeaves, IntReady
<1>2. /\ (fifo_out_val'[1] => ~fifo_out_val'[2] /\ Room' >= 2)
      /\ (fifo_out_val'[2] => Room' >= 1 /\ ~final_iteration_r')
  <2>1. Room' = Room /\ fifo_out_val' = fifo_out_val
    BY <1>1
  <2>2. final_iteration_r' = final_iteration_r
    BY IntLeaves
  <2>3. /\ fifo_out_val[1] => ~fifo_out_val[2] /\ Room >= 2
        /\ fifo_out_val[2] => Room >= 1 /\ ~final_iteration_r
    BY DEF IInv, Outlet
  <2> QED
    BY <2>1, <2>2, <2>3
<1> SUFFICES ASSUME fifo_out' # AllEmpty
             PROVE  /\ Holding(fifo_out')
                    /\ \A l \in Lanes : InTime(WaitsIn(fifo_out)[l])'
                    /\ fifo_out_val'[1] => \E l \in Lanes : WaitsIn(fifo_out')[l] > 0
  BY <1>2, IntLeaves DEF Outlet, Holding, WaitsIn, WordIn
<1>3. CASE ~o_val
  <2>1. fifo_out' = fifo_out /\ fifo_out # AllEmpty
    BY <1>3, IntReady
  <2>2. /\ Holding(fifo_out) /\ \A l \in Lanes : InTime(WaitsIn(fifo_out)[l])
        /\ fifo_out_val[1] => \E l \in Lanes : WaitsIn(fifo_out)[l] > 0
    BY <2>1 DEF IInv, Outlet
  <2>3. ASSUME NEW l \in Lanes
        PROVE  InTime(WaitsIn(fifo_out)[l])'
    <3> DEFINE w == WaitsIn(fifo_out)[l]
    <3>1. WaitsIn(fifo_out')[l] = w /\ w \in Nat
      BY <2>1, <2>2 DEF WaitsIn, Holding
    <3>2. InTime(w)
      BY <2>2
    <3> HIDE DEF w
    <3>3. MaxRatio + w + 3 <= 10 /\ w + 3 <= Room'
      BY <1>1, <3>2 DEF InTime
    <3>4. ASSUME running'
          PROVE  w + Age' * MinRatio + clk_gap' < MinGap * MinRatio + MinRatio
      <4>1. running
        BY <2>1, <3>4, StartsEmpty DEF Fetching, Unfed
      <4>2. w + Age * MinRatio + clk_gap < MinGap * MinRatio + MinRatio
        BY <3>2, <4>1 DEF InTime
      <4>3. Age' * MinRatio <= Age * MinRatio + clk_gap /\ Age' \in Nat /\ Age \in Nat
        BY <1>3, <3>4, <4>1, IntWorks
      <4> DEFINE a == Age' * MinRatio
                 b == Age * MinRatio
                 p == MinGap * MinRatio
      <4>10. MinRatio \in Nat /\ MinGap \in Nat
        BY GapAssumption, WrapperAssumption
      <4>11. a \in Nat
        BY <4>3, <4>10, TimesNat
      <4>12. b \in Nat
        BY <4>3, <4>10, TimesNat
      <4>13. p \in Nat
        BY <4>10, TimesNat
      <4>4. a \in Nat /\ b \in Nat /\ p \in Nat /\ MinRatio \in Nat
        BY <4>10, <4>11, <4>12, <4>13
      <4> HIDE DEF a, b, p
      <4>5. w + b + clk_gap < p + MinRatio /\ a <= b + clk_gap
        BY <4>2, <4>3 DEF a, b, p
      <4>6. w + a + clk_gap' < p + MinRatio
        BY <1>1, <3>1, <4>4, <4>5, WrapperAssumption
      <4> QED
        BY <4>6 DEF a, p
    <3>5. WaitsIn(fifo_out)[l]' = w
      BY <3>1 DEF WaitsIn
    <3> QED
      BY <3>3, <3>4, <3>5 DEF InTime
  <2> QED
    BY <1>1, <2>1, <2>2, <2>3
<1>4. CASE o_val
  <2>1. fifo_out = AllEmpty /\ running
    BY <1>4, OneAtATime
  <2>2. PICK d \in [Lanes -> SyncDelays] : fifo_out' = Written(fifo_out, o_mul, d)
    BY <1>4, IntReady
  <2>3. fifo_out' = Wire(o_mul, d) /\ d \in [Lanes -> Nat]
    BY <2>1, <2>2, WireWritten
  <2>4. Holding(fifo_out') /\ WaitsIn(fifo_out') = d
    BY <2>3, WireHolds
  <2>5. \A l \in Lanes : d[l] > 0 /\ d[l] < MinGap * MinRatio /\ MaxRatio + d[l] + 3 <= 10
    BY DelayAssumption
  <2>6. Room >= 10 - MaxRatio
    <3>1. CASE state \in {"INIT", "RECV", "SQIN", "START"}
      BY <2>1, <3>1 DEF IInv, Inlet
    <3>2. CASE state \in {"COMPUTE", "PREPARE_SEND"}
      BY <3>2, WrapperAssumption DEF Room
    <3>3. CASE state \in {"SEND", "IDLE"}
      <4>1. PICK i \in Elapsed .. 4 : reset_cdc0[i] /\ i <= clk_gap
        BY <2>1, <3>3 DEF IInv, Inlet
      <4>2. axi_out_count \in Nat
        BY DEF IInv, TypeOK, AXI_OUT_COUNT
      <4>3. Elapsed \in Nat /\ Room = 10 - Elapsed
        BY <3>3, <4>2 DEF Room, Elapsed
      <4> QED
        BY <1>1, <4>1, <4>3, WrapperAssumption
    <3> QED
      BY <3>1, <3>2, <3>3 DEF IInv, TypeOK, MsuStates
  <2>7. ASSUME NEW l \in Lanes
        PROVE  InTime(WaitsIn(fifo_out)[l])'
    <3> DEFINE w == d[l]
    <3>1. WaitsIn(fifo_out)[l]' = w /\ w \in Nat
      BY <2>3, <2>4 DEF WaitsIn
    <3>2. w < MinGap * MinRatio /\ MaxRatio + w + 3 <= 10
      BY <2>5
    <3> HIDE DEF w
    <3>3. w + 3 <= Room'
      <4>1. Room \in Int /\ Room' = Room
        BY <1>1, RoomIs DEF IInv
      <4> QED
        BY <2>6, <3>1, <3>2, <4>1, WrapperAssumption
    <3>4. ASSUME running'
          PROVE  w + Age' * MinRatio + clk_gap' < MinGap * MinRatio + MinRatio
      <4>1. Age' * MinRatio <= MinRatio /\ Age' \in Nat
        BY <1>4, <2>1, <3>4, IntWorks
      <4> DEFINE a == Age' * MinRatio
                 p == MinGap * MinRatio
      <4>10. MinRatio \in Nat /\ MinGap \in Nat
        BY GapAssumption, WrapperAssumption
      <4>11. a \in Nat
        BY <4>1, <4>10, TimesNat
      <4>12. p \in Nat
        BY <4>10, TimesNat
      <4>2. a \in Nat /\ p \in Nat /\ MinRatio \in Nat
        BY <4>10, <4>11, <4>12
      <4>3. a <= MinRatio /\ w < p
        BY <3>2, <4>1
      <4> HIDE DEF a, p
      <4>4. w + a + clk_gap' < p + MinRatio
        BY <1>1, <3>1, <4>2, <4>3
      <4> QED
        BY <4>4 DEF a, p
    <3> QED
      BY <3>1, <3>2, <3>3, <3>4 DEF InTime
  <2> QED
    BY <2>4, <2>5, <2>7, WrapperAssumption
<1> QED
  BY <1>3, <1>4

\* Empty FIFOs stay empty and give nothing.
LEMMA IntQuiet ==
  ASSUME IInv, ClkInt, ready, fifo_in = AllEmpty
  PROVE  fifo_in' = AllEmpty /\ fifo_in_val' = <<FALSE, fifo_in_val[1]>>
<1>1. ~FifoInRd /\ fifo_in' = AllEmpty
  BY IntReady, EmptyStays DEF FifoInRd
<1> QED
  BY <1>1, IntReady DEF FifoInRd

\* A squarer at rest with nothing at its input stays so, and what it may have
\* sent stays where it is.
LEMMA IntRests ==
  ASSUME IInv, ClkInt, ready, Unfed, ~fifo_in_val[2]
  PROVE  Unfed'
<1>1. ~o_val
  BY DEF IInv, Idle, Unfed
<1>2. ~running'
  BY IntReady DEF SquarerEdge, Stop, Rest, squarer_vars, Unfed
<1>3. fifo_out' = AllEmpty
  BY <1>1, IntReady DEF Unfed
<1>4. fifo_out_val' = <<FALSE, FALSE>>
  BY IntLeaves DEF Unfed
<1>5. ~final_iteration_r'
  BY IntLeaves DEF Unfed
<1>6. Counted' = 0
  BY IntLeaves DEF Unfed
<1> QED
  BY <1>2, <1>3, <1>4, <1>5, <1>6 DEF Unfed

\* The input comes nearer, and arrives.
LEMMA IntInlet ==
  ASSUME IInv, ClkInt
  PROVE  Inlet'
<1> SUFFICES ASSUME ready PROVE Inlet'
  BY IntLeaves DEF Inlet
<1>1. /\ state' = state /\ offered' = offered /\ reset_cdc0' = reset_cdc0
      /\ Elapsed' = Elapsed /\ Input' = Input /\ clk_gap' = 0
  BY IntLeaves, IntReady
<1>2. Inlet
  BY DEF IInv
<1>3. state \in {"INIT", "RECV", "SQIN", "START"} => ~running'
  BY <1>2, StartsEmpty DEF Inlet
<1>4. ASSUME state # "COMPUTE" PROVE Quiet'
  <2>1. fifo_in = AllEmpty /\ fifo_in_val = <<FALSE, FALSE>>
    BY <1>2, <1>4 DEF Inlet, Quiet
  <2> QED
    BY <2>1, IntQuiet DEF Quiet
<1>5. ASSUME state \in {"SEND", "IDLE"}, running' PROVE FALSE
  <2>1. running
    BY <1>5, StartsEmpty
  <2>2. Elapsed \in Nat \ {0}
    <3>1. axi_out_count \in 0 .. 3
      BY DEF IInv, TypeOK, AXI_OUT_COUNT
    <3> QED
      BY <3>1 DEF Elapsed
  <2>3. \E i \in 1 .. 4 : reset_cdc0[i]
    BY <1>2, <1>5, <2>1, <2>2 DEF Inlet
  <2>4. Stop
    BY <2>3, IntReady DEF SquarerEdge
  <2> QED
    BY <1>5, <2>4 DEF Stop
<1>6. ASSUME state = "COMPUTE"
      PROVE  \/ Crossing'
             \/ Fetching(<<TRUE, FALSE>>, fifo_in_reg)'
             \/ Fetching(<<FALSE, TRUE>>, mont_in)'
             \/ Squaring'
  <2>1. ~reset_cdc1'
    <3>1. \A i \in 1 .. 4 : ~reset_cdc0[i]
      BY <1>2, <1>6 DEF Inlet
    <3> QED
      BY <3>1, IntReady
  <2>2. \/ Crossing
        \/ Fetching(<<TRUE, FALSE>>, fifo_in_reg)
        \/ Fetching(<<FALSE, TRUE>>, mont_in)
        \/ Squaring
    BY <1>2, <1>6 DEF Inlet
  <2>3. CASE Crossing
    <3> DEFINE w == WaitsIn(fifo_in)
    <3>1. Holding(fifo_in) /\ WordIn(fifo_in) = Input /\ fifo_in_val = <<FALSE, FALSE>> /\ Unfed
      BY <2>3 DEF Crossing
    <3>2. Unfed'
      BY <3>1, IntRests
    <3>3. w \in [Lanes -> Nat]
      BY <3>1 DEF Holding
    <3>4. CASE \A l \in Lanes : w[l] = 0
      <4>1. /\ FifoInRd /\ ReadEdge(fifo_in, FifoInRd) = AllEmpty
            /\ Fetched(fifo_in, FifoInRd, fifo_in_reg) = Words(Input)
        BY <3>1, <3>4, ReaderEdge DEF FifoInRd
      <4>2. fifo_in' = AllEmpty /\ fifo_in_reg' = Words(Input)
        BY <4>1, IntReady
      <4>3. fifo_in_val' = <<TRUE, FALSE>>
        BY <3>1, <4>1, IntReady DEF FifoInRd
      <4>4. fifo_in_reg' = Words(Input)'
        BY <1>1, <4>2 DEF Words
      <4> QED
        BY <2>1, <3>2, <4>2, <4>3, <4>4 DEF Fetching
    <3>5. CASE \E l \in Lanes : w[l] > 0
      <4>1. /\ ~FifoInRd /\ Holding(ReadEdge(fifo_in, FifoInRd))
            /\ WordIn(ReadEdge(fifo_in, FifoInRd)) = Input
        BY <3>1, <3>5, ReaderEdge DEF FifoInRd
      <4>2. Holding(fifo_in') /\ WordIn(fifo_in') = Input
        BY <4>1, IntReady
      <4>3. fifo_in_val' = <<FALSE, FALSE>>
        BY <3>1, <4>1, IntReady DEF FifoInRd
      <4>4. Holding(fifo_in)' /\ WordIn(fifo_in)' = Input'
        BY <1>1, <4>2 DEF Holding, WordIn, WaitsIn
      <4> QED
        BY <3>2, <4>3, <4>4 DEF Crossing
    <3> QED
      BY <3>3, <3>4, <3>5
  <2>4. CASE Fetching(<<TRUE, FALSE>>, fifo_in_reg)
    <3>1. /\ Unfed /\ fifo_in = AllEmpty /\ fifo_in_val = <<TRUE, FALSE>>
          /\ fifo_in_reg = Words(Input)
      BY <2>4 DEF Fetching
    <3>2. Unfed'
      BY <3>1, IntRests
    <3>3. fifo_in' = AllEmpty /\ fifo_in_val' = <<FALSE, TRUE>>
      BY <3>1, IntQuiet
    <3>4. mont_in' = Words(Input)'
      BY <1>1, <3>1, IntReady DEF Words
    <3> QED
      BY <2>1, <3>2, <3>3, <3>4 DEF Fetching
  <2>5. CASE Fetching(<<FALSE, TRUE>>, mont_in)
    <3>1. Unfed /\ ~reset_cdc1 /\ fifo_in = AllEmpty /\ fifo_in_val = <<FALSE, TRUE>>
      BY <2>5 DEF Fetching
    <3>2. fifo_in' = AllEmpty /\ fifo_in_val' = <<FALSE, FALSE>>
      BY <3>1, IntQuiet
    <3>3. Feed(Assembled(mont_in))
      BY <2>1, <3>1, IntReady DEF SquarerEdge, Unfed
    <3> QED
      BY <2>1, <3>2, <3>3 DEF Squaring, Quiet, Feed
  <2>6. CASE Squaring
    <3>1. running /\ ~reset_cdc1 /\ fifo_in = AllEmpty /\ fifo_in_val = <<FALSE, FALSE>>
      BY <2>6 DEF Squaring, Quiet
    <3>2. fifo_in' = AllEmpty /\ fifo_in_val' = <<FALSE, FALSE>>
      BY <3>1, IntQuiet
    <3>3. Work \/ Announce
      BY <2>1, <3>1, IntReady DEF SquarerEdge
    <3>4. running'
      BY <3>1, <3>3 DEF Work, Announce
    <3> QED
      BY <2>1, <3>2, <3>4 DEF Squaring, Quiet
  <2> QED
    BY <2>2, <2>3, <2>4, <2>5, <2>6
<1> QED
  BY <1>1, <1>2, <1>3, <1>4, <1>5, <1>6 DEF Inlet

\* The numbers of the results on their way are naturals.
LEMMA CountedIs ==
  ASSUME TypeOK, Shapes
  PROVE  /\ Counted \in 0 .. 2^T_LEN - 1 /\ Wanted \in 1 .. 2^T_LEN
         /\ AtPort \in Nat /\ AtReg \in Nat /\ AtFifo \in Nat /\ Announced \in Nat
<1>1. Counted \in 0 .. 2^T_LEN - 1 /\ Wanted \in 1 .. 2^T_LEN
  <2>1. t_current \in Counts /\ request.t_start \in Counts /\ request.t_final \in Counts
    BY DEF TypeOK, Shapes
  <2>2. Wanted = Wrapped(request.t_final + 2^T_LEN - request.t_start - 1) + 1
    BY DEF Wanted, Promise!Squarings, Wrapped
  <2> QED
    BY <2>1, <2>2, CountsGo DEF Counted
<1>2. \A b : One(b) \in Nat
  BY DEF One
<1>3. Counted \in Nat
  BY <1>1, PowerOfTwo
<1>4. AtPort \in Nat
  BY <1>2, <1>3 DEF AtPort
<1>5. AtReg \in Nat
  BY <1>2, <1>4 DEF AtReg
<1>6. AtFifo \in Nat
  BY <1>2, <1>5 DEF AtFifo
<1>7. Announced \in Nat
  BY <1>2, <1>6 DEF Announced
<1> QED
  BY <1>1, <1>4, <1>5, <1>6, <1>7

\* The squarer's next result is the one after those on their way.
LEMMA IntResults ==
  ASSUME IInv, ClkInt
  PROVE  Results'
<1> SUFFICES ASSUME ready, state = "COMPUTE", running', ~final_iteration_r
             PROVE  /\ fifo_out_val'[2] => o_sq_out' = Words(Result(AtPort))'
                    /\ fifo_out_val'[1] => fifo_out_reg' = Words(Result(AtReg))'
                    /\ fifo_out' # AllEmpty => WordIn(fifo_out)' = Result(AtFifo)'
                    /\ o_val' => o_mul' = Result(Announced)'
                    /\ x' = Result(Announced)'
  BY IntLeaves DEF Results
<1>1. /\ request' = request /\ o_sq_out' = o_sq_out /\ fifo_out_reg' = fifo_out_reg
      /\ fifo_out_val' = fifo_out_val
  BY DEF ClkInt, WrapperClkInt, kernel_vars
<1>2. Counted' = Counted
  BY IntLeaves
<1>3. AtPort' = AtPort /\ AtReg' = AtReg
  BY <1>1, <1>2 DEF AtReg, AtPort, One
<1>4. \A n : Result(n) = Value(request.job, n)
  BY DEF Result
<1>5. CASE ~running
  <2>1. Fetching(<<FALSE, TRUE>>, mont_in) /\ Feed(Assembled(mont_in))
    BY <1>5, StartsEmpty
  <2>2. /\ Unfed /\ mont_in = Words(Input) /\ x' = Assembled(mont_in) /\ ~o_val'
    BY <2>1 DEF Fetching, Feed
  <2>3. x' = Value(request.job, 0)
    BY <2>2, Assembles DEF Input
  <2>4. /\ ~fifo_out_val'[1] /\ ~fifo_out_val'[2] /\ Counted = 0 /\ ~o_val /\ fifo_out = AllEmpty
    BY <1>1, <1>5, <2>2 DEF Unfed, IInv, Idle
  <2>5. fifo_out' = AllEmpty
    BY <2>4, IntReady
  <2>6. Announced' = 0
    BY <1>2, <2>2, <2>4, <2>5 DEF Announced, AtFifo, AtReg, AtPort, One
  <2>7. x' = Result(Announced)'
    BY <1>1, <2>3, <2>6 DEF Result
  <2> QED
    BY <2>2, <2>4, <2>5, <2>7
<1>6. CASE running
  <2>1. /\ fifo_out_val[2] => o_sq_out = Words(Result(AtPort))
        /\ fifo_out_val[1] => fifo_out_reg = Words(Result(AtReg))
        /\ fifo_out # AllEmpty => WordIn(fifo_out) = Result(AtFifo)
        /\ o_val => o_mul = Result(Announced)
        /\ x = Result(Announced)
    BY <1>6 DEF IInv, Results
  <2>2. Work \/ Announce
    BY <1>6, IntWorks
  <2>3. AtFifo' = Announced /\ (fifo_out' # AllEmpty => WordIn(fifo_out') = Result(AtFifo'))
    <3>1. CASE ~o_val
      <4>1. fifo_out' = fifo_out
        BY <3>1, IntReady
      <4>2. AtFifo' = AtFifo
        BY <1>3, <4>1 DEF AtFifo, One
      <4>3. Announced = AtFifo
        BY <3>1, CountedIs DEF Announced, One, IInv
      <4> QED
        BY <2>1, <4>1, <4>2, <4>3
    <3>2. CASE o_val
      <4>1. fifo_out = AllEmpty
        BY <3>2, OneAtATime
      <4>2. PICK d \in [Lanes -> SyncDelays] : fifo_out' = Written(fifo_out, o_mul, d)
        BY <3>2, IntReady
      <4>3. fifo_out' # AllEmpty /\ WordIn(fifo_out') = o_mul
        BY <4>1, <4>2, WireWritten, WireHolds
      <4>4. AtFifo' = AtReg + 1
        BY <1>3, <4>3 DEF AtFifo, One
      <4>5. Announced = AtReg + 1
        BY <3>2, <4>1, CountedIs DEF Announced, AtFifo, One, IInv
      <4> QED
        BY <2>1, <3>2, <4>3, <4>4, <4>5
    <3> QED
      BY <3>1, <3>2
  <2>4. WordIn(fifo_out') = WordIn(fifo_out)'
    BY DEF WordIn
  <2>5. \A n : Result(n)' = Value(request.job, n)
    BY <1>1 DEF Result
  <2>6. \A n : Result(n) = Value(request.job, n)
    BY DEF Result
  <2>7. Result(AtFifo)' = Value(request.job, AtFifo')
    BY <1>1 DEF Result
  <2>8. Result(Announced)' = Value(request.job, Announced')
    BY <1>1 DEF Result
  <2>9. fifo_out' # AllEmpty => WordIn(fifo_out)' = Result(AtFifo)'
    BY <2>3, <2>4, <2>6, <2>7
  <2>10. fifo_out_val'[2] => o_sq_out' = Words(Result(AtPort))'
    BY <1>1, <1>3, <2>1 DEF Result, Words
  <2>11. fifo_out_val'[1] => fifo_out_reg' = Words(Result(AtReg))'
    BY <1>1, <1>3, <2>1 DEF Result, Words
  <2>12. CASE Work
    <3>1. x' = x /\ ~o_val'
      BY <2>12 DEF Work
    <3>2. Announced' = Announced
      BY <2>3, <3>1, CountedIs DEF Announced, One, IInv
    <3>3. x' = Result(Announced)'
      BY <2>1, <2>6, <2>8, <3>1, <3>2
    <3> QED
      BY <2>9, <2>10, <2>11, <3>1, <3>3
  <2>13. CASE Announce
    <3>1. x' = Square(x) /\ o_val' /\ o_mul' = x'
      BY <2>13 DEF Announce
    <3>2. Announced' = Announced + 1
      BY <2>3, <3>1, CountedIs DEF Announced, One, IInv
    <3>3. x = Value(request.job, Announced)
      BY <2>1, <2>6
    <3>4. x' = Value(request.job, Announced + 1)
      BY <3>1, <3>3 DEF Square, Value
    <3>5. x' = Result(Announced)'
      BY <2>8, <3>2, <3>4
    <3> QED
      BY <2>9, <2>10, <2>11, <3>1, <3>5
  <2> QED
    BY <2>2, <2>12, <2>13
<1> QED
  BY <1>5, <1>6

\* Types.
LEMMA IntTypes ==
  ASSUME IInv, ClkInt
  PROVE  TypeOK'
<1>1. TypeOK
  BY DEF IInv
<1>2. UNCHANGED <<msu_vars, kernel_vars>>
  BY DEF ClkInt
<1>3. UNCHANGED <<locked, locked_d, ready, o_ready, fifo_out_val, reset_cdc0>>
  BY DEF ClkInt, WrapperClkInt
<1>4. /\ {locked', locked_d', ready', o_ready', reset_cdc1', running', o_val'} \subseteq BOOLEAN
  <2>1. reset_cdc1' \in BOOLEAN
    BY DEF ClkInt, WrapperClkInt
  <2>2. {locked', locked_d', ready', o_ready'} \subseteq BOOLEAN
    BY <1>1, <1>3 DEF TypeOK
  <2>3. running' \in BOOLEAN /\ o_val' \in BOOLEAN
    BY IntIdle
  <2> QED
    BY <2>1, <2>2, <2>3
<1>5. clk_gap' \in 0 .. MaxRatio
  BY WrapperAssumption DEF ClkInt, WrapperClkInt
<1>6. rst_busy' \in 0 .. FifoResetEdges
  BY <1>1, WrapperAssumption DEF ClkInt, WrapperClkInt, TypeOK
<1>7. reset_cdc0' \in [1 .. 4 -> BOOLEAN]
  BY <1>1, <1>3 DEF TypeOK
<1>8. fifo_in_val' \in BOOLEAN \X BOOLEAN
  <2>1. fifo_in_val' = <<FifoInRd, fifo_in_val[1]>>
    BY DEF ClkInt, WrapperClkInt
  <2>2. fifo_in_val[1] \in BOOLEAN
    BY <1>1 DEF TypeOK
  <2>3. FifoInRd \in BOOLEAN
    BY DEF FifoInRd
  <2> QED
    BY <2>1, <2>2, <2>3
<1>9. fifo_out_val' \in BOOLEAN \X BOOLEAN
  BY <1>1, <1>3 DEF TypeOK
<1>10. since' \in 0 .. MaxGap - 1
  BY IntIdle
<1>11. \A l \in Lanes : Len(fifo_in'[l]) <= 1
  <2>1. fifo_in' = AllEmpty \/ Holding(fifo_in')
    <3>1. CASE ~ready
      BY <3>1, IntCleared, IntLeaves DEF Cleared
    <3>2. CASE ready
      <4>1. Inlet'
        BY IntInlet
      <4>2. ready'
        BY <3>2, IntLeaves
      <4>3. Quiet' \/ Crossing' \/ Fetching(<<TRUE, FALSE>>, fifo_in_reg)'
             \/ Fetching(<<FALSE, TRUE>>, mont_in)' \/ Squaring'
        BY <4>1, <4>2 DEF Inlet
      <4>4. Holding(fifo_in)' => Holding(fifo_in')
        BY DEF Holding, WordIn, WaitsIn
      <4> QED
        BY <4>3, <4>4 DEF Quiet, Crossing, Fetching, Squaring
    <3> QED
      BY <3>1, <3>2
  <2> QED
    BY <2>1, FewWords
<1>12. \A l \in Lanes : Len(fifo_out'[l]) <= 2
  <2>1. fifo_out' = AllEmpty \/ Holding(fifo_out')
    <3>1. CASE ~ready
      BY <3>1, IntCleared, IntLeaves DEF Cleared
    <3>2. CASE ready
      <4>1. Holding(fifo_out)' => Holding(fifo_out')
        BY DEF Holding, WordIn, WaitsIn
      <4> QED
        BY <3>2, <4>1, IntOutlet, IntLeaves DEF Outlet
    <3> QED
      BY <3>1, <3>2
  <2> QED
    BY <2>1, FewWords
<1>13. \A l \in Lanes : Len(fifo_in'[l]) <= 1 /\ Len(fifo_out'[l]) <= 2
  BY <1>11, <1>12
<1> QED
  BY <1>1, <1>2, <1>4, <1>5, <1>6, <1>7, <1>8, <1>9, <1>10, <1>13
     DEF TypeOK, msu_vars, kernel_vars

\* All of it.
LEMMA IntKeeps ==
  ASSUME IInv, ClkInt
  PROVE  IInv'
BY IntLeaves, IntIdle, IntCleared, IntInlet, IntOutlet, IntResults, IntTypes DEF IInv

-----------------------------------------------------------------------------
(***************************************************************************)
(* The MMCM locks.                                                         *)
(***************************************************************************)
\* Nothing is under way then.
LEMMA LockKeeps ==
  ASSUME IInv, MmcmLocks
  PROVE  IInv'
<1> USE DEF MmcmLocks, Lock
<1>1. ~reset_1d /\ ~locked /\ locked' /\ clk_gap' = 0
  OBVIOUS
<1>2. UNCHANGED <<msu_vars, kernel_vars, squarer_vars, rst_busy, locked_d, ready, o_ready,
                  fifo_out_val, reset_cdc0, fifo_in_val, reset_cdc1, fifo_in, fifo_in_reg,
                  mont_in, fifo_out, fifo_out_reg, o_sq_out>>
  OBVIOUS
<1>3. ~locked_d /\ ~ready /\ ~o_ready
  BY <1>1 DEF IInv, Chain
<1>4. locked' \in BOOLEAN /\ clk_gap' \in 0 .. MaxRatio
  BY WrapperAssumption
<1> USE <1>2 DEF msu_vars, kernel_vars, squarer_vars
<1>5. TypeOK'
  <2>1. TypeOK
    BY DEF IInv
  <2> QED
    BY <1>4, <2>1 DEF TypeOK
<1>6. Shapes' /\ Idle'
  BY DEF IInv, Shapes, Idle
<1>7. Chain'
  BY <1>1, <1>3 DEF IInv, Chain
<1>8. Cleared'
  <2>1. Cleared
    BY DEF IInv
  <2>2. reset_cdc0'[1] <=> reset_cdc0[1]
    OBVIOUS
  <2>3. fifo_in' = AllEmpty /\ fifo_out' = AllEmpty /\ fifo_out_val' = <<FALSE, FALSE>>
    BY <1>3, <2>1 DEF Cleared
  <2>4. running' => rst_busy' > 0
    BY <1>3, <2>1 DEF Cleared
  <2>5. /\ rst_busy' < FifoResetEdges => ~fifo_in_val'[1]
        /\ rst_busy' + 1 < FifoResetEdges => ~fifo_in_val'[2]
    BY <1>3, <2>1 DEF Cleared
  <2> QED
    BY <1>3, <2>1, <2>2, <2>3, <2>4, <2>5 DEF Cleared
<1>9. Inlet' /\ Outlet' /\ Results'
  BY <1>3 DEF Inlet, Outlet, Results
<1>10. Asked' = Asked /\ Answered' = Answered /\ Wanted' = Wanted /\ Counted' = Counted
       /\ Input' = Input
  BY DEF Asked, Answered, Wanted, Counted, Input
<1>11. Staged' /\ Receiving' /\ Computing' /\ Sending'
  <2>1. Staged /\ Receiving /\ Computing /\ Sending
    BY DEF IInv
  <2> QED
    BY <1>10, <2>1 DEF Staged, Receiving, Computing, Sending, Final
<1> QED
  BY <1>5, <1>6, <1>7, <1>8, <1>9, <1>11 DEF IInv

\* Nor when nothing happens.
LEMMA NothingChanges ==
  ASSUME IInv, UNCHANGED vars
  PROVE  IInv'
<1> USE DEF vars, msu_vars, wrapper_vars, kernel_vars, squarer_vars
<1>1. TypeOK' /\ Shapes' /\ Idle' /\ Chain'
  BY DEF IInv, TypeOK, Shapes, Idle, Chain
<1>2. Asked' = Asked /\ Answered' = Answered /\ Wanted' = Wanted /\ Counted' = Counted
      /\ Input' = Input /\ Room' = Room /\ Elapsed' = Elapsed /\ Age' = Age
  BY DEF Asked, Answered, Wanted, Counted, Input, Room, Elapsed, Age
<1>3. Staged' /\ Receiving' /\ Computing' /\ Sending'
  BY <1>2 DEF IInv, Staged, Receiving, Computing, Sending, Final
<1>4. Cleared'
  BY DEF IInv, Cleared
<1>5. Inlet'
  BY <1>2 DEF IInv, Inlet, Quiet, Unfed, Crossing, Fetching, Squaring, Holding, WordIn,
              WaitsIn, Words, Elapsed
<1>6. Outlet'
  BY <1>2 DEF IInv, Outlet, InTime, Holding, WordIn, WaitsIn
<1>7. Results'
  BY <1>2 DEF IInv, Results, AtPort, AtReg, AtFifo, Announced, One, Result, Words, WordIn
<1> QED
  BY <1>1, <1>3, <1>4, <1>5, <1>6, <1>7 DEF IInv

-----------------------------------------------------------------------------
(***************************************************************************)
(* An edge of clk.                                                         *)
(***************************************************************************)
Edge(ap_start, gives, accepts, finishes) ==
  /\ ap_start => Starts
  /\ gives => Gives
  /\ accepts => Accepts
  /\ finishes => Finishes
  /\ ClkEdge(ap_start, gives, accepts, finishes)

\* When the kernel acts: what it does and sees.
LEMMA KernelActs ==
  ASSUME IInv,
         NEW ap_start \in BOOLEAN, NEW gives \in BOOLEAN,
         NEW accepts \in BOOLEAN, NEW finishes \in BOOLEAN,
         Edge(ap_start, gives, accepts, finishes)
  PROVE  /\ ap_start => status # "busy" /\ state = "INIT" /\ ~reset /\ ~reset_1d
         /\ gives => status = "busy" /\ state = "RECV" /\ o_ready /\ ~reset /\ offered < 3
         /\ accepts => status = "busy" /\ state = "SEND" /\ ~reset /\ axi_out_count < 3
         /\ finishes => status = "busy" /\ state \in {"IDLE", "INIT"} /\ ~reset
         /\ status = "busy" => ~ap_start /\ ~reset_1d
         /\ (reset_1d' <=> reset)
         /\ state' = IF reset_1d THEN "INIT"
                     ELSE NextState(ap_start, gives /\ offered + 1 = 3, accepts)
         /\ axi_in' = IF gives THEN Shift(axi_in, Asked[offered + 1]) ELSE axi_in
         /\ Count(sq_finished) /\ Send(sq_finished, sq_out, accepts)
         /\ (final_iteration_r' <=> FinalIteration(sq_finished))
         /\ Kernel(ap_start, gives, accepts, finishes)
         /\ WrapperClk(reset_1d, reset_1d', reset_mont, sq_start, sq_in)
<1>1. Staged /\ Receiving /\ Computing /\ Sending
  BY DEF IInv
<1>2. ap_start => status # "busy" /\ state = "INIT" /\ ~reset /\ ~reset_1d
  BY <1>1 DEF Edge, Starts, Staged
<1>3. gives => status = "busy" /\ state = "RECV" /\ o_ready /\ ~reset /\ offered < 3
  BY DEF Edge, Gives, s_axis_tready, AXI_IN_COUNT
<1>4. accepts => status = "busy" /\ state = "SEND" /\ ~reset /\ axi_out_count < 3
  BY DEF Edge, Accepts, m_axis_tvalid, AXI_OUT_COUNT
<1>5. finishes => status = "busy" /\ state \in {"IDLE", "INIT"} /\ ~reset
  <2> SUFFICES ASSUME finishes PROVE status = "busy" /\ state \in {"IDLE", "INIT"} /\ ~reset
    OBVIOUS
  <2>1. status = "busy" /\ ~reset /\ Len(answer) = 3
    BY DEF Edge, Finishes, AXI_OUT_COUNT
  <2>2. \A a, b : answer # <<>> /\ answer # <<a>> /\ answer # <<a, b>>
    BY <2>1
  <2>3. state \in MsuStates
    BY DEF IInv, TypeOK
  <2>4. state # "RECV"
    BY <1>1, <2>1, <2>2 DEF Receiving
  <2>5. state \notin {"SQIN", "START", "COMPUTE", "PREPARE_SEND"}
    BY <1>1, <2>1, <2>2 DEF Computing
  <2>6. state # "SEND"
    BY <1>1, <2>1, <2>2 DEF Sending
  <2> QED
    BY <2>1, <2>3, <2>4, <2>5, <2>6 DEF MsuStates
<1>6. status = "busy" => ~ap_start /\ ~reset_1d
  BY <1>1, <1>2 DEF Staged
<1>7. Kernel(ap_start, gives, accepts, finishes)
      /\ WrapperClk(reset_1d, reset_1d', reset_mont, sq_start, sq_in)
  BY DEF Edge, ClkEdge
<1>8. MsuClk(reset, ap_start, Stream(gives), accepts, o_ready,
             [finished |-> sq_finished, out |-> sq_out])
  BY DEF Edge, ClkEdge
<1>9. (Stream(gives).tvalid /\ s_axis_tready(o_ready)) <=> gives
  BY <1>3 DEF Stream, s_axis_tready
<1>10. Stream(gives).tlast <=> offered + 1 = 3
  BY DEF Stream, AXI_IN_COUNT
<1>11. gives => Stream(gives).tdata = Asked[offered + 1]
  BY DEF Stream, Asked
<1>12. reset_1d' <=> reset
  BY <1>8 DEF MsuClk
<1>13. final_iteration_r' <=> FinalIteration(sq_finished)
  BY <1>8 DEF MsuClk
<1>14. Count(sq_finished) /\ Send(sq_finished, sq_out, accepts)
  BY <1>8 DEF MsuClk
<1>15. state' = IF reset_1d THEN "INIT"
                ELSE NextState(ap_start, gives /\ offered + 1 = 3, accepts)
  BY <1>8, <1>9, <1>10 DEF MsuClk, NextState
<1>16. axi_in' = IF gives THEN Shift(axi_in, Asked[offered + 1]) ELSE axi_in
  BY <1>8, <1>9, <1>11 DEF MsuClk, Receive
<1> QED
  BY <1>2, <1>3, <1>4, <1>5, <1>6, <1>7, <1>12, <1>13, <1>14, <1>15, <1>16

\* Lock, the FIFOs' reset and ready on an edge of clk.
LEMMA ClkChain ==
  ASSUME IInv,
         NEW ap_start \in BOOLEAN, NEW gives \in BOOLEAN,
         NEW accepts \in BOOLEAN, NEW finishes \in BOOLEAN,
         Edge(ap_start, gives, accepts, finishes)
  PROVE  /\ Chain'
         /\ ready' <=> ~reset_1d /\ ~reset_1d' /\ locked_d /\ rst_busy = 0
         /\ ready => locked /\ locked_d /\ rst_busy = 0 /\ ~reset_1d
         /\ rst_busy' = rst_busy \/ rst_busy' = FifoResetEdges
<1>1. WrapperClk(reset_1d, reset_1d', reset_mont, sq_start, sq_in)
  BY KernelActs
<1>2. /\ (locked' <=> locked /\ ~reset_1d')
      /\ (locked_d' <=> ~reset_1d /\ ~reset_1d' /\ locked)
      /\ (ready' <=> ~reset_1d /\ ~reset_1d' /\ locked_d /\ rst_busy = 0)
      /\ (o_ready' <=> ~reset_1d /\ ~reset_1d' /\ ready)
      /\ rst_busy' = IF reset_1d' \/ ~locked_d' THEN FifoResetEdges ELSE rst_busy
  BY <1>1 DEF WrapperClk
<1>3. Chain
  BY DEF IInv
<1>4. ready => locked /\ locked_d /\ rst_busy = 0 /\ ~reset_1d
  BY <1>3 DEF Chain
<1>5. locked' => ~reset_1d'
  BY <1>2
<1>6. locked_d' => locked'
  BY <1>2
<1>7. ready' => locked_d' /\ rst_busy' = 0
  BY <1>2, <1>3 DEF Chain
<1>8. o_ready' => ready'
  BY <1>2, <1>4
<1>9. ASSUME ~reset_1d', ~o_ready'
      PROVE  state' = "INIT" \/ (state' = "RECV" /\ offered' = 0)
  <2>1. CASE reset_1d
    BY <2>1, KernelActs
  <2>2. CASE ~reset_1d
    <3>1. ~o_ready
      BY <1>2, <1>3, <1>9, <2>2 DEF Chain
    <3>2. state = "INIT" \/ (state = "RECV" /\ offered = 0)
      BY <1>3, <2>2, <3>1 DEF Chain
    <3>3. ~gives /\ state' = NextState(ap_start, FALSE, accepts)
      <4>1. ~gives
        BY <3>1, KernelActs
      <4>2. state' = NextState(ap_start, gives /\ offered + 1 = 3, accepts)
        BY <2>2, KernelActs
      <4>3. (gives /\ offered + 1 = 3) <=> FALSE
        BY <4>1
      <4> QED
        BY <4>1, <4>2, <4>3
    <3>4. CASE ap_start
      <4>1. state = "INIT"
        BY <3>4, KernelActs
      <4>2. offered' = 0
        BY <3>4, KernelActs DEF Kernel, Promise!Request
      <4>3. state' = "RECV"
        BY <3>3, <3>4, <4>1 DEF NextState
      <4> QED
        BY <4>2, <4>3
    <3>5. CASE ~ap_start
      <4>1. offered' = offered
        BY <3>3, <3>5, KernelActs DEF Kernel
      <4>2. CASE state = "INIT"
        BY <3>3, <3>5, <4>2 DEF NextState
      <4>3. CASE state = "RECV" /\ offered = 0
        BY <3>3, <4>1, <4>3 DEF NextState
      <4> QED
        BY <3>2, <4>2, <4>3
    <3> QED
      BY <3>4, <3>5
  <2> QED
    BY <2>1, <2>2
<1>10. rst_busy' = rst_busy \/ rst_busy' = FifoResetEdges
  BY <1>2
<1> QED
  BY <1>2, <1>4, <1>5, <1>6, <1>7, <1>8, <1>9, <1>10 DEF Chain

\* Without a reset the crossing's registers of clk shift.
LEMMA ClkShifts ==
  ASSUME IInv,
         NEW ap_start \in BOOLEAN, NEW gives \in BOOLEAN,
         NEW accepts \in BOOLEAN, NEW finishes \in BOOLEAN,
         Edge(ap_start, gives, accepts, finishes),
         ~reset_1d, ~reset_1d'
  PROVE  /\ fifo_out_val' = <<FifoOutRd, fifo_out_val[1]>>
         /\ reset_cdc0' \in [1 .. 4 -> BOOLEAN]
         /\ reset_cdc0'[1] <=> ~ready \/ reset_mont
         /\ reset_cdc0'[2] <=> reset_cdc0[1]
         /\ reset_cdc0'[3] <=> reset_cdc0[2]
         /\ reset_cdc0'[4] <=> reset_cdc0[3]
<1>1. WrapperClk(reset_1d, reset_1d', reset_mont, sq_start, sq_in)
  BY KernelActs
<1>2. reset_cdc0' = ResetCdc0(reset_mont)
  BY <1>1 DEF WrapperClk
<1>3. fifo_out_val' = <<FifoOutRd, fifo_out_val[1]>>
  BY <1>1 DEF WrapperClk
<1>4. reset_cdc0 \in [1 .. 4 -> BOOLEAN] /\ reset_mont \in BOOLEAN
  BY DEF IInv, TypeOK, reset_mont
<1> DEFINE r == ResetCdc0(reset_mont)
<1>5. r \in [1 .. 4 -> BOOLEAN] /\ r[1] = (~ready \/ reset_mont)
      /\ r[2] = reset_cdc0[1] /\ r[3] = reset_cdc0[2] /\ r[4] = reset_cdc0[3]
  BY <1>4, CdcShifts
<1> HIDE DEF r
<1>6. reset_cdc0' = r
  BY <1>2 DEF r
<1> QED
  BY <1>3, <1>5, <1>6

\* What the squarer's side sees of it.
LEMMA ClkLeaves ==
  ASSUME NEW ap_start \in BOOLEAN, NEW gives \in BOOLEAN,
         NEW accepts \in BOOLEAN, NEW finishes \in BOOLEAN,
         Edge(ap_start, gives, accepts, finishes)
  PROVE  /\ UNCHANGED <<fifo_in_val, reset_cdc1, fifo_in_reg, mont_in>>
         /\ UNCHANGED <<running, x, since, o_val, o_mul>>
         /\ Age' = Age
<1>1. UNCHANGED <<fifo_in_val, reset_cdc1, fifo_in_reg, mont_in, squarer_vars>>
  BY DEF Edge, ClkEdge, WrapperClk
<1> QED
  BY <1>1 DEF squarer_vars, Age

\* While it is not ready the crossing stays empty.
LEMMA ClkCleared ==
  ASSUME IInv,
         NEW ap_start \in BOOLEAN, NEW gives \in BOOLEAN,
         NEW accepts \in BOOLEAN, NEW finishes \in BOOLEAN,
         Edge(ap_start, gives, accepts, finishes)
  PROVE  Cleared'
<1> SUFFICES ASSUME ~ready' PROVE Cleared'
  BY DEF Cleared
<1>1. WrapperClk(reset_1d, reset_1d', reset_mont, sq_start, sq_in)
  BY KernelActs
<1>2. rst_busy' = IF reset_1d' \/ ~locked_d' THEN FifoResetEdges ELSE rst_busy
  BY <1>1 DEF WrapperClk
<1>3. UNCHANGED <<running, fifo_in_val>>
  BY ClkLeaves
<1>4. CASE reset_1d \/ reset_1d'
  <2>1. ~locked_d'
    BY <1>1, <1>4 DEF WrapperClk
  <2>2. fifo_in' = AllEmpty /\ fifo_out' = AllEmpty
    BY <1>1, <2>1 DEF WrapperClk
  <2>3. reset_cdc0' = <<TRUE, FALSE, FALSE, FALSE>> /\ fifo_out_val' = <<FALSE, FALSE>>
    BY <1>1, <1>4 DEF WrapperClk
  <2>4. rst_busy' = FifoResetEdges
    BY <1>2, <2>1
  <2>5. reset_cdc0'[1]
    BY <2>3
  <2> QED
    BY <2>2, <2>3, <2>4, <2>5, WrapperAssumption DEF Cleared
<1>5. CASE ~reset_1d /\ ~reset_1d'
  <2>1. ~ready
    BY <1>5, ClkChain
  <2>2. /\ fifo_in = AllEmpty /\ fifo_out = AllEmpty /\ fifo_out_val = <<FALSE, FALSE>>
        /\ (running => rst_busy > 0)
        /\ (rst_busy < FifoResetEdges => ~fifo_in_val[1])
        /\ (rst_busy + 1 < FifoResetEdges => ~fifo_in_val[2])
    BY <2>1 DEF IInv, Cleared
  <2>3. ~FifoOutRd /\ ReadEdge(fifo_out, FifoOutRd) = AllEmpty
    BY <2>2, EmptyStays DEF FifoOutRd
  <2>4. fifo_out_val' = <<FALSE, FALSE>>
    BY <1>5, <2>2, <2>3, ClkShifts DEF FifoOutRd
  <2>5. fifo_out' = AllEmpty
    BY <1>1, <2>3 DEF WrapperClk
  <2>6. ~sq_start
    BY <1>5, <2>1 DEF IInv, Chain, sq_start
  <2>7. fifo_in' = AllEmpty
    BY <1>1, <2>2, <2>6 DEF WrapperClk
  <2>8. reset_cdc0'[1]
    BY <1>5, <2>1, ClkShifts
  <2>9. rst_busy' = rst_busy \/ rst_busy' = FifoResetEdges
    BY <1>2
  <2>10. rst_busy \in Nat
    BY DEF IInv, TypeOK
  <2>11. /\ (running' => rst_busy' > 0)
         /\ (rst_busy' < FifoResetEdges => ~fifo_in_val'[1])
         /\ (rst_busy' + 1 < FifoResetEdges => ~fifo_in_val'[2])
    BY <1>3, <2>2, <2>9, <2>10, WrapperAssumption
  <2> QED
    BY <2>4, <2>5, <2>7, <2>8, <2>11 DEF Cleared
<1> QED
  BY <1>4, <1>5

\* When the crossing becomes ready nothing is in it, and the squarer rests.
LEMMA ClkComesUp ==
  ASSUME IInv,
         NEW ap_start \in BOOLEAN, NEW gives \in BOOLEAN,
         NEW accepts \in BOOLEAN, NEW finishes \in BOOLEAN,
         Edge(ap_start, gives, accepts, finishes), ~ready, ready'
  PROVE  Inlet' /\ Outlet' /\ Results'
<1>1. ~reset_1d /\ ~reset_1d' /\ rst_busy = 0
  BY ClkChain
<1>2. WrapperClk(reset_1d, reset_1d', reset_mont, sq_start, sq_in)
  BY KernelActs
<1>3. state' = "INIT" \/ (state' = "RECV" /\ offered' = 0)
  <2>1. ~o_ready'
    BY <1>2 DEF WrapperClk
  <2> QED
    BY <1>1, <2>1, ClkChain DEF Chain
<1>4. /\ fifo_in = AllEmpty /\ fifo_out = AllEmpty /\ fifo_out_val = <<FALSE, FALSE>>
      /\ ~running /\ ~fifo_in_val[1] /\ ~fifo_in_val[2]
  <2>1. Cleared
    BY DEF IInv
  <2>2. ~(rst_busy > 0) /\ rst_busy < FifoResetEdges /\ rst_busy + 1 < FifoResetEdges
    BY <1>1, FifoResetAssumption, WrapperAssumption
  <2> QED
    BY <2>1, <2>2 DEF Cleared
<1>5. ~running' /\ fifo_in_val' = <<FALSE, FALSE>>
  <2>1. PICK a \in BOOLEAN, b \in BOOLEAN : fifo_in_val = <<a, b>>
    BY DEF IInv, TypeOK
  <2>2. ~a /\ ~b
    BY <1>4, <2>1
  <2>3. fifo_in_val = <<FALSE, FALSE>>
    BY <2>1, <2>2
  <2> QED
    BY <1>4, <2>3, ClkLeaves
<1>6. ~FifoOutRd /\ ReadEdge(fifo_out, FifoOutRd) = AllEmpty
  BY <1>4, EmptyStays DEF FifoOutRd
<1>7. fifo_out' = AllEmpty
  BY <1>2, <1>6 DEF WrapperClk
<1>8. fifo_out_val' = <<FALSE, FALSE>>
  BY <1>1, <1>4, <1>6, ClkShifts DEF FifoOutRd
<1>9. ~sq_start
  BY <1>1 DEF IInv, Chain, sq_start
<1>10. fifo_in' = AllEmpty
  BY <1>2, <1>4, <1>9 DEF WrapperClk
<1>11. Inlet'
  BY <1>3, <1>5, <1>10 DEF Inlet, Quiet
<1>12. Outlet'
  BY <1>7, <1>8 DEF Outlet
<1>13. Results'
  BY <1>3 DEF Results
<1> QED
  BY <1>11, <1>12, <1>13

\* The count of the request's squarings, as msu.sv compares it.
LEMMA Counting ==
  ASSUME IInv, t_final = request.t_final
  PROVE  /\ Counted \in Nat /\ Wanted \in Nat
         /\ t_current = Wrapped(t_final + 2^T_LEN - 1) <=> Counted = Wanted - 1
         /\ t_current = Wrapped(t_final + 2^T_LEN - 1) =>
              /\ Wrapped(t_current + 1) = t_final
              /\ <<T(t_current), Seeded(t_current), Sq(Result(Wanted))>> = Answered
         /\ Counted + 1 < Wanted =>
              Wrapped(Wrapped(t_current + 1) + 2^T_LEN - request.t_start) = Counted + 1
         /\ t_final # Wrapped(t_final + 2^T_LEN - 1)
         /\ t_current = request.t_start => Counted = 0
<1> DEFINE s == request.t_start
           f == request.t_final
<1>1. t_current \in Counts /\ s \in Counts /\ f \in Counts
  BY DEF IInv, TypeOK, Shapes
<1>2. Wanted = Wrapped(f + 2^T_LEN - s - 1) + 1
  BY DEF Wanted, Promise!Squarings, Wrapped
<1>3. Counted = Wrapped(t_current + 2^T_LEN - s)
  BY DEF Counted
<1>4. Answered = <<Promise!Beat("t", Wrapped(s + Wanted - 1), 0),
                   Promise!Beat("seeded", Wrapped(s + Wanted - 1), 0),
                   Promise!Beat("sq", Wanted, request.job)>>
  BY DEF Answered, Promise!AnswerBeats, Promise!LastCount, Wanted, Wrapped
<1>5. /\ \A n : T(n) = Promise!Beat("t", n, 0) /\ Seeded(n) = Promise!Beat("seeded", n, 0)
      /\ Sq(Result(Wanted)) = Promise!Beat("sq", Wanted, request.job)
  BY DEF T, Seeded, Sq, Beat, Promise!Beat, Result, Value
<1>6. Counted \in Nat /\ Wanted \in Nat
  BY CountedIs, PowerOfTwo DEF IInv
<1>7. s \in Nat
  BY <1>1, PowerOfTwo DEF Counts
<1> HIDE DEF s, f
<1> DEFINE w == Wanted
           c == Counted
<1>8. /\ Wrapped(s + 2^T_LEN - s) = 0
      /\ t_current = Wrapped(f + 2^T_LEN - 1) <=> c = w - 1
      /\ t_current = Wrapped(f + 2^T_LEN - 1) =>
           Wrapped(t_current + 1) = f /\ t_current = Wrapped(s + w - 1)
      /\ c + 1 < w => Wrapped(Wrapped(t_current + 1) + 2^T_LEN - s) = c + 1
      /\ f # Wrapped(f + 2^T_LEN - 1)
  <2>1. /\ Wrapped(s + 2^T_LEN - s) = 0
        /\ t_current = Wrapped(f + 2^T_LEN - 1)
             <=> Wrapped(t_current + 2^T_LEN - s) = (Wrapped(f + 2^T_LEN - s - 1) + 1) - 1
    BY <1>1, CountsGo
  <2>2. t_current = Wrapped(f + 2^T_LEN - 1) =>
          /\ Wrapped(t_current + 1) = f
          /\ t_current = Wrapped(s + (Wrapped(f + 2^T_LEN - s - 1) + 1) - 1)
    BY <1>1, CountsGo
  <2>3. Wrapped(t_current + 2^T_LEN - s) + 1 < Wrapped(f + 2^T_LEN - s - 1) + 1 =>
          Wrapped(Wrapped(t_current + 1) + 2^T_LEN - s) = Wrapped(t_current + 2^T_LEN - s) + 1
    BY <1>1, CountsGo
  <2>4. f # Wrapped(f + 2^T_LEN - 1)
    BY <1>1, CountsGo
  <2> QED
    BY <1>2, <1>3, <2>1, <2>2, <2>3, <2>4
<1>9. t_final = f
  BY DEF f
<1>10. t_current = Wrapped(f + 2^T_LEN - 1) =>
         <<T(t_current), Seeded(t_current), Sq(Result(w))>> = Answered
  BY <1>4, <1>5, <1>8
<1>11. t_current = s => c = 0
  BY <1>3, <1>8
<1> QED
  BY <1>6, <1>8, <1>9, <1>10, <1>11 DEF s

\* A result that arrives in COMPUTE is the next one.
LEMMA ResultIsNext ==
  ASSUME IInv, state = "COMPUTE", sq_finished, ~reset_1d
  PROVE  running /\ ready /\ ~final_iteration_r /\ sq_out = Result(Counted + 1)
<1>1. ready
  BY DEF IInv, Chain
<1>2. fifo_out_val[2]
  BY DEF sq_finished, o_valid
<1>3. ~final_iteration_r
  BY <1>1, <1>2 DEF IInv, Outlet
<1>4. ~Unfed
  <2>1. Unfed => fifo_out_val = <<FALSE, FALSE>>
    BY DEF Unfed
  <2>2. fifo_out_val = <<FALSE, FALSE>> => ~fifo_out_val[2]
    OBVIOUS
  <2> QED
    BY <1>2, <2>1, <2>2
<1>5. running
  BY <1>1, <1>4 DEF IInv, Inlet, Crossing, Fetching, Squaring
<1>6. o_sq_out = Words(Result(AtPort))
  BY <1>1, <1>2, <1>3, <1>5 DEF IInv, Results
<1>7. AtPort = Counted + 1
  BY <1>2 DEF AtPort, One
<1>8. sq_out = Result(Counted + 1)
  <2>1. sq_out = Assembled(Words(Result(AtPort)))
    BY <1>6 DEF sq_out
  <2> QED
    BY <1>7, <2>1, Assembles
<1> QED
  BY <1>1, <1>3, <1>5, <1>8

\* A job under way, neither started nor ended by this edge.
LEMMA ClkBusy ==
  ASSUME IInv,
         NEW ap_start \in BOOLEAN, NEW gives \in BOOLEAN,
         NEW accepts \in BOOLEAN, NEW finishes \in BOOLEAN,
         Edge(ap_start, gives, accepts, finishes), ~ap_start, status' = "busy"
  PROVE  /\ status = "busy" /\ ~reset /\ ~reset_1d /\ ~reset_1d' /\ ~finishes
         /\ request' = request /\ Asked' = Asked /\ Answered' = Answered
         /\ Wanted' = Wanted /\ Input' = Input
         /\ offered' = IF gives THEN offered + 1 ELSE offered
         /\ answer' = IF accepts THEN Append(answer, axi_out[1]) ELSE answer
         /\ state' = NextState(FALSE, gives /\ offered + 1 = 3, accepts)
<1>1. Kernel(ap_start, gives, accepts, finishes)
  BY KernelActs
<1>2. /\ status' = IF reset /\ status = "busy" THEN "abandoned"
                   ELSE IF finishes THEN "done" ELSE status
      /\ offered' = IF gives THEN offered + 1 ELSE offered
      /\ answer' = IF accepts THEN Append(answer, m_axis_tdata) ELSE answer
      /\ request' = request
  BY <1>1 DEF Kernel
<1>3. status = "busy" /\ ~reset /\ ~finishes
  BY <1>2
<1>4. ~reset_1d /\ ~reset_1d'
  BY <1>3, KernelActs
<1>5. state' = NextState(FALSE, gives /\ offered + 1 = 3, accepts)
  <2>1. state' = NextState(ap_start, gives /\ offered + 1 = 3, accepts)
    BY <1>4, KernelActs
  <2> QED
    BY <2>1 DEF NextState
<1>6. Asked' = Asked /\ Answered' = Answered /\ Wanted' = Wanted /\ Input' = Input
  BY <1>2 DEF Asked, Answered, Wanted, Input
<1> QED
  BY <1>2, <1>3, <1>4, <1>5, <1>6 DEF m_axis_tdata

\* A job that starts.
LEMMA ClkStarts ==
  ASSUME IInv,
         NEW ap_start \in BOOLEAN, NEW gives \in BOOLEAN,
         NEW accepts \in BOOLEAN, NEW finishes \in BOOLEAN,
         Edge(ap_start, gives, accepts, finishes), ap_start
  PROVE  /\ state' = "RECV" /\ status' = "busy" /\ offered' = 0 /\ answer' = <<>>
         /\ state = "INIT" /\ ~reset_1d /\ ~reset_1d'
         /\ request'.job = request.job + 1 /\ request' \in
              [job : 0 .. MaxJobs, t_start : Counts, t_final : Counts]
<1>1. state = "INIT" /\ ~reset /\ ~reset_1d /\ ~reset_1d'
  BY KernelActs
<1>2. state' = NextState(ap_start, gives /\ offered + 1 = 3, accepts)
  BY <1>1, KernelActs
<1>3. state' = "RECV"
  BY <1>1, <1>2 DEF NextState
<1>4. status' = "busy" /\ offered' = 0 /\ answer' = <<>>
  BY KernelActs DEF Kernel, Promise!Request
<1>5. PICK r \in Requests : request' = [job |-> request.job + 1,
                                        t_start |-> r[1], t_final |-> r[2]]
  BY KernelActs DEF Kernel, Promise!Request
<1>6. request.job < MaxJobs
  BY DEF Edge, Starts
<1>7. request.job \in 0 .. MaxJobs /\ MaxJobs \in Nat
  BY SystemAssumption DEF IInv, TypeOK
<1>8. r[1] \in Counts /\ r[2] \in Counts
  BY SystemAssumption
<1>9. request.job + 1 \in 0 .. MaxJobs
  BY <1>6, <1>7
<1> QED
  BY <1>1, <1>3, <1>4, <1>5, <1>8, <1>9

\* Where the state machine is while a job is and is not.
LEMMA ClkStaged ==
  ASSUME IInv,
         NEW ap_start \in BOOLEAN, NEW gives \in BOOLEAN,
         NEW accepts \in BOOLEAN, NEW finishes \in BOOLEAN,
         Edge(ap_start, gives, accepts, finishes)
  PROVE  Staged'
<1>1. CASE ap_start
  <2>1. request.job \in Nat
    BY DEF IInv, TypeOK
  <2>2. /\ state' = "RECV" /\ status' = "busy" /\ ~reset_1d'
        /\ request'.job = request.job + 1
    BY <1>1, ClkStarts
  <2>3. request'.job > 0
    BY <2>1, <2>2
  <2> QED
    BY <2>2, <2>3 DEF Staged
<1>2. CASE ~ap_start
  <2>1. request' = request
    BY <1>2, KernelActs DEF Kernel
  <2>2. status' = "busy" => ~reset_1d' /\ request'.job > 0
    BY <1>2, <2>1, ClkBusy DEF IInv, Staged
  <2>3. ASSUME status' # "busy", ~reset_1d'
        PROVE  state' = "INIT"
    <3>1. CASE reset_1d
      BY <3>1, KernelActs
    <3>2. CASE ~reset_1d
      <4>1. ~reset
        BY <2>3, KernelActs
      <4>2. status' = IF finishes THEN "done" ELSE status
        BY <1>2, <4>1, KernelActs DEF Kernel
      <4>3. state \in {"IDLE", "INIT"}
        <5>1. CASE finishes
          BY <5>1, KernelActs
        <5>2. CASE ~finishes
          BY <2>3, <3>2, <4>2, <5>2 DEF IInv, Staged
        <5> QED
          BY <5>1, <5>2
      <4>4. state' = NextState(ap_start, gives /\ offered + 1 = 3, accepts)
        BY <3>2, KernelActs
      <4> QED
        BY <1>2, <4>3, <4>4 DEF NextState
    <3> QED
      BY <3>1, <3>2
  <2>4. ASSUME state' = "SQIN"
        PROVE  status' = "busy"
    <3>1. ~reset_1d /\ state' = NextState(ap_start, gives /\ offered + 1 = 3, accepts)
      BY <2>4, KernelActs
    <3>2. gives
      <4>1. state \in MsuStates
        BY DEF IInv, TypeOK
      <4> QED
        BY <1>2, <2>4, <3>1, <4>1 DEF NextState, MsuStates
    <3>3. status = "busy" /\ ~reset /\ ~finishes
      BY <3>2, KernelActs
    <3> QED
      BY <1>2, <3>3, KernelActs DEF Kernel
  <2> QED
    BY <2>2, <2>3, <2>4 DEF Staged
<1> QED
  BY <1>1, <1>2

\* The shift register of the request.
LEMMA ClkTakes ==
  ASSUME IInv,
         NEW ap_start \in BOOLEAN, NEW gives \in BOOLEAN,
         NEW accepts \in BOOLEAN, NEW finishes \in BOOLEAN,
         Edge(ap_start, gives, accepts, finishes)
  PROVE  axi_in' = IF gives THEN <<axi_in[2], axi_in[3], Asked[offered + 1]>> ELSE axi_in
<1> DEFINE a == axi_in[1]
           b == axi_in[2]
           c == axi_in[3]
           d == Asked[offered + 1]
<1>1. axi_in = <<a, b, c>>
  BY DEF IInv, Shapes
<1>2. axi_in' = IF gives THEN Shift(axi_in, d) ELSE axi_in
  BY KernelActs
<1> HIDE DEF a, b, c, d
<1>3. Shift(axi_in, d) = <<b, c, d>>
  BY <1>1, BeatsShift
<1>4. axi_in' = IF gives THEN <<b, c, d>> ELSE axi_in
  BY <1>2, <1>3
<1> QED
  BY <1>4 DEF b, c, d

\* The request comes in, beat by beat.
LEMMA ClkReceiving ==
  ASSUME IInv,
         NEW ap_start \in BOOLEAN, NEW gives \in BOOLEAN,
         NEW accepts \in BOOLEAN, NEW finishes \in BOOLEAN,
         Edge(ap_start, gives, accepts, finishes)
  PROVE  Receiving'
<1> SUFFICES ASSUME status' = "busy", state' = "RECV" PROVE Receiving'
  BY DEF Receiving
<1>1. CASE ap_start
  <2>1. offered' = 0 /\ answer' = <<>>
    BY <1>1, ClkStarts
  <2> QED
    BY <2>1 DEF Receiving
<1>2. CASE ~ap_start
  <2>1. /\ status = "busy" /\ Asked' = Asked
        /\ offered' = (IF gives THEN offered + 1 ELSE offered)
        /\ state' = NextState(FALSE, gives /\ offered + 1 = 3, accepts)
    BY <1>2, ClkBusy
  <2>2. state = "RECV" /\ ~(gives /\ offered + 1 = 3)
    <3>1. state \in MsuStates
      BY DEF IInv, TypeOK
    <3> QED
      BY <2>1, <3>1 DEF NextState, MsuStates
  <2>3. answer' = answer
    <3>1. ~accepts
      BY <2>2, KernelActs
    <3> QED
      BY <1>2, <3>1, ClkBusy
  <2>4. /\ offered \in 0 .. 2 /\ answer = <<>>
        /\ offered = 1 => axi_in[3] = Asked[1]
        /\ offered = 2 => axi_in[2] = Asked[1] /\ axi_in[3] = Asked[2]
    BY <2>1, <2>2 DEF IInv, Receiving, TypeOK
  <2>5. CASE ~gives
    <3>1. axi_in' = axi_in
      BY <2>5, ClkTakes
    <3> QED
      BY <2>1, <2>3, <2>4, <2>5, <3>1 DEF Receiving
  <2>6. CASE gives
    <3>1. offered' = offered + 1 /\ offered \in 0 .. 1
      BY <2>1, <2>2, <2>4, <2>6
    <3>2. axi_in' = <<axi_in[2], axi_in[3], Asked[offered + 1]>>
      BY <2>6, ClkTakes
    <3>3. axi_in'[2] = axi_in[3] /\ axi_in'[3] = Asked[offered + 1]
      BY <3>2
    <3>4. CASE offered = 0
      BY <2>1, <2>3, <2>4, <3>1, <3>3, <3>4 DEF Receiving
    <3>5. CASE offered = 1
      BY <2>1, <2>3, <2>4, <3>1, <3>3, <3>5 DEF Receiving
    <3> QED
      BY <3>1, <3>4, <3>5
  <2> QED
    BY <2>5, <2>6
<1> QED
  BY <1>1, <1>2

\* It is taken apart and counted.
LEMMA ClkComputing ==
  ASSUME IInv,
         NEW ap_start \in BOOLEAN, NEW gives \in BOOLEAN,
         NEW accepts \in BOOLEAN, NEW finishes \in BOOLEAN,
         Edge(ap_start, gives, accepts, finishes)
  PROVE  Computing'
<1> SUFFICES ASSUME status' = "busy", state' # "RECV", state' # "INIT" PROVE Computing'
  BY DEF Computing
<1>1. ~ap_start
  BY ClkStarts
<1>2. /\ status = "busy" /\ ~reset_1d /\ Asked' = Asked /\ Wanted' = Wanted /\ Input' = Input
      /\ request' = request
      /\ offered' = (IF gives THEN offered + 1 ELSE offered)
      /\ answer' = IF accepts THEN Append(answer, axi_out[1]) ELSE answer
      /\ state' = NextState(FALSE, gives /\ offered + 1 = 3, accepts)
  BY <1>1, ClkBusy
<1>3. state \in MsuStates
  BY DEF IInv, TypeOK
<1>4. Computing
  BY DEF IInv
<1>5. Count(sq_finished) /\ (final_iteration_r' <=> FinalIteration(sq_finished))
  BY KernelActs
<1>6. Counted' = Wrapped(t_current' + 2^T_LEN - request.t_start)
  BY <1>2 DEF Counted
<1>7. CASE state = "INIT"
  BY <1>2, <1>7 DEF NextState
<1>8. CASE state = "RECV"
  <2>1. gives /\ offered + 1 = 3 /\ state' = "SQIN"
    BY <1>2, <1>8 DEF NextState
  <2>2. offered' = 3 /\ offered = 2
    BY <1>2, <2>1 DEF IInv, TypeOK
  <2>3. axi_in[2] = Asked[1] /\ axi_in[3] = Asked[2] /\ answer = <<>>
    BY <1>2, <1>8, <2>2 DEF IInv, Receiving
  <2>4. axi_in' = <<Asked[1], Asked[2], Asked[3]>>
    BY <2>1, <2>2, <2>3, ClkTakes
  <2>5. axi_in' = Asked'
    BY <1>2, <2>4 DEF Asked, Promise!RequestBeats
  <2>6. answer' = <<>>
    <3>1. ~accepts
      BY <1>8, KernelActs
    <3> QED
      BY <1>2, <2>3, <3>1
  <2> QED
    BY <2>1, <2>2, <2>5, <2>6 DEF Computing
<1>9. CASE state = "SQIN"
  <2>1. ~gives /\ ~accepts /\ state' = "START"
    BY <1>2, <1>9, KernelActs DEF NextState
  <2>2. offered' = 3 /\ answer' = <<>> /\ axi_in = Asked
    BY <1>2, <1>4, <1>9, <2>1 DEF Computing
  <2>3. t_current' = request.t_start /\ t_final' = request.t_final /\ sq_in' = Input
    BY <1>5, <1>9, <2>2
       DEF Count, Asked, Promise!RequestBeats, Promise!Beat, Input, Value
  <2> QED
    BY <1>2, <2>1, <2>2, <2>3 DEF Computing
<1>10. CASE state = "START"
  <2>1. ~gives /\ ~accepts /\ state' = "COMPUTE"
    BY <1>2, <1>10, KernelActs DEF NextState
  <2>2. offered' = 3 /\ answer' = <<>> /\ t_final = request.t_final
        /\ t_current = request.t_start
    BY <1>2, <1>4, <1>10, <2>1 DEF Computing
  <2>3. t_current' = t_current /\ t_final' = t_final
    BY <1>5, <1>10 DEF Count
  <2>4. Counted = 0 /\ Wanted > 0
    BY <2>2, Counting, CountedIs, PowerOfTwo DEF IInv
  <2>5. Counted' = Counted
    BY <1>6, <2>3 DEF Counted
  <2>6. Counted' < Wanted'
    BY <1>2, <2>4, <2>5
  <2> QED
    BY <1>2, <2>1, <2>2, <2>3, <2>6 DEF Computing
<1>11. CASE state = "COMPUTE"
  <2>1. ~gives /\ ~accepts /\ state' = (IF final_iteration_r THEN "PREPARE_SEND" ELSE "COMPUTE")
    BY <1>2, <1>11, KernelActs DEF NextState
  <2>2. offered' = 3 /\ answer' = <<>> /\ t_final = request.t_final
    BY <1>2, <1>4, <1>11, <2>1 DEF Computing
  <2>3. t_final' = t_final
        /\ t_current' = (IF sq_finished THEN Wrapped(t_current + 1) ELSE t_current)
    BY <1>5, <1>11 DEF Count
  <2>4. CASE final_iteration_r
    BY <1>2, <2>1, <2>2, <2>3, <2>4 DEF Computing
  <2>5. ASSUME ~final_iteration_r, ~final_iteration_r'
        PROVE  Counted' < Wanted'
    <3>1. Counted < Wanted
      BY <1>2, <1>4, <1>11, <2>5 DEF Computing
    <3>2. CASE ~sq_finished
      <4>1. Counted' = Counted
        BY <1>6, <2>3, <3>2 DEF Counted
      <4> QED
        BY <1>2, <3>1, <4>1
    <3>3. CASE sq_finished
      <4>1. t_current # Wrapped(t_final + 2^T_LEN - 1)
        BY <1>5, <2>5, <3>3 DEF FinalIteration
      <4>2. Counted \in Nat /\ Wanted \in Nat /\ Counted # Wanted - 1
        BY <2>2, <4>1, Counting
      <4>3. Counted + 1 < Wanted
        BY <3>1, <4>2
      <4>4. Counted' = Counted + 1
        BY <1>6, <2>2, <2>3, <3>3, <4>3, Counting
      <4> QED
        BY <1>2, <4>3, <4>4
    <3> QED
      BY <3>2, <3>3
  <2>6. CASE ~final_iteration_r
    BY <1>2, <2>1, <2>2, <2>3, <2>5, <2>6 DEF Computing
  <2> QED
    BY <2>4, <2>6
<1>12. CASE state \in {"PREPARE_SEND", "SEND"}
  <2>1. state' \in {"SEND", "IDLE"}
    BY <1>2, <1>12 DEF NextState
  <2>2. t_final' = t_final /\ t_final = request.t_final
    BY <1>2, <1>4, <1>5, <1>12 DEF Count, Computing
  <2> QED
    BY <1>2, <2>1, <2>2 DEF Computing
<1>13. CASE state = "IDLE"
  BY <1>2, <1>13 DEF NextState
<1> QED
  BY <1>3, <1>7, <1>8, <1>9, <1>10, <1>11, <1>12, <1>13 DEF MsuStates

\* The register of the answer.
LEMMA ClkSends ==
  ASSUME IInv,
         NEW ap_start \in BOOLEAN, NEW gives \in BOOLEAN,
         NEW accepts \in BOOLEAN, NEW finishes \in BOOLEAN,
         Edge(ap_start, gives, accepts, finishes)
  PROVE  LET last == FinalIteration(sq_finished)
         IN  /\ last => /\ axi_out_count' = 0
                        /\ axi_out' = <<T(t_current), Seeded(t_current), Sq(sq_out)>>
             /\ ~last /\ accepts => /\ axi_out_count' = axi_out_count + 1
                                    /\ axi_out' = <<axi_out[2], axi_out[3], T(0)>>
             /\ ~last /\ ~accepts => UNCHANGED <<axi_out, axi_out_count>>
<1> DEFINE a == axi_out[1]
           b == axi_out[2]
           c == axi_out[3]
           d == T(0)
<1>1. axi_out = <<a, b, c>>
  BY DEF IInv, Shapes
<1>2. Send(sq_finished, sq_out, accepts) /\ (accepts => state = "SEND")
  BY KernelActs
<1> HIDE DEF a, b, c, d
<1>3. Shift(axi_out, d) = <<b, c, d>>
  BY <1>1, BeatsShift
<1>4. ~FinalIteration(sq_finished) /\ accepts =>
        axi_out_count' = axi_out_count + 1 /\ axi_out' = Shift(axi_out, d)
  BY <1>2 DEF Send, d
<1>5. ~FinalIteration(sq_finished) /\ accepts =>
        axi_out_count' = axi_out_count + 1 /\ axi_out' = <<b, c, d>>
  BY <1>3, <1>4
<1>6. FinalIteration(sq_finished) =>
        /\ axi_out_count' = 0
        /\ axi_out' = <<T(t_current), Seeded(t_current), Sq(sq_out)>>
  BY <1>2 DEF Send
<1>7. ~FinalIteration(sq_finished) /\ ~accepts => UNCHANGED <<axi_out, axi_out_count>>
  BY <1>2 DEF Send
<1> QED
  BY <1>5, <1>6, <1>7 DEF b, c, d

\* Results that arrive when the last one has been counted do not disturb it.
LEMMA NotAgain ==
  ASSUME IInv, status = "busy",
         Final \/ state \in {"PREPARE_SEND", "SEND"}
  PROVE  ~FinalIteration(sq_finished)
<1>1. t_current = t_final /\ t_final = request.t_final
  BY DEF IInv, Sending, Computing, Final
<1>2. t_final # Wrapped(t_final + 2^T_LEN - 1)
  BY <1>1, Counting
<1> QED
  BY <1>1, <1>2 DEF FinalIteration

\* The answer goes out.
LEMMA ClkSending ==
  ASSUME IInv,
         NEW ap_start \in BOOLEAN, NEW gives \in BOOLEAN,
         NEW accepts \in BOOLEAN, NEW finishes \in BOOLEAN,
         Edge(ap_start, gives, accepts, finishes)
  PROVE  Sending'
<1> SUFFICES ASSUME status' = "busy", state' # "RECV" PROVE Sending'
  BY DEF Sending, Final
<1>1. ~ap_start
  BY ClkStarts
<1>2. /\ status = "busy" /\ ~reset_1d /\ Answered' = Answered
      /\ offered' = (IF gives THEN offered + 1 ELSE offered)
      /\ answer' = IF accepts THEN Append(answer, axi_out[1]) ELSE answer
      /\ state' = NextState(FALSE, gives /\ offered + 1 = 3, accepts)
  BY <1>1, ClkBusy
<1>3. state \in MsuStates
  BY DEF IInv, TypeOK
<1>4. Sending /\ Computing
  BY DEF IInv
<1>5. Count(sq_finished) /\ (final_iteration_r' <=> FinalIteration(sq_finished))
  BY KernelActs
<1>6. CASE state \in {"IDLE", "INIT"}
  <2>1. ~gives /\ ~accepts /\ state' = "INIT"
    BY <1>2, <1>6, KernelActs DEF NextState
  <2>2. offered' = 3 /\ answer' = Answered'
    BY <1>2, <1>4, <1>6, <2>1 DEF Sending
  <2> QED
    BY <2>1, <2>2 DEF Sending, Final
<1>7. CASE state \in {"RECV", "SQIN"}
  <2>1. state' \in {"SQIN", "START"}
    BY <1>2, <1>7 DEF NextState
  <2> QED
    BY <2>1 DEF Sending, Final
<1>8. CASE state = "START"
  <2>1. state' = "COMPUTE"
    BY <1>2, <1>8 DEF NextState
  <2>2. ~sq_finished
    BY <1>2, <1>8 DEF IInv, Chain, Outlet, Room, sq_finished, o_valid
  <2>3. ~final_iteration_r'
    BY <1>5, <2>2 DEF FinalIteration
  <2> QED
    BY <2>1, <2>3 DEF Sending, Final
<1>9. CASE state = "COMPUTE" /\ ~final_iteration_r
  <2>1. state' = "COMPUTE"
    BY <1>2, <1>9 DEF NextState
  <2> SUFFICES ASSUME final_iteration_r'
               PROVE  t_current' = t_final' /\ axi_out_count' = 0 /\ axi_out' = Answered'
    BY <2>1 DEF Sending, Final
  <2>2. FinalIteration(sq_finished)
    BY <1>5
  <2>3. sq_finished /\ t_current = Wrapped(t_final + 2^T_LEN - 1)
    BY <2>2 DEF FinalIteration
  <2>4. t_final = request.t_final
    BY <1>2, <1>4, <1>9 DEF Computing
  <2>5. /\ Counted = Wanted - 1 /\ Counted \in Nat /\ Wanted \in Nat
        /\ Wrapped(t_current + 1) = t_final
        /\ <<T(t_current), Seeded(t_current), Sq(Result(Wanted))>> = Answered
    BY <2>3, <2>4, Counting
  <2>6. t_current' = t_final'
    BY <1>5, <1>9, <2>3, <2>5 DEF Count
  <2>7. sq_out = Result(Counted + 1)
    BY <1>2, <1>9, <2>3, ResultIsNext
  <2>8. Counted + 1 = Wanted
    BY <2>5
  <2>9. axi_out_count' = 0 /\ axi_out' = Answered
    BY <2>2, <2>5, <2>7, <2>8, ClkSends
  <2> QED
    BY <1>2, <2>6, <2>9
<1>10. CASE Final \/ state = "PREPARE_SEND"
  <2>1. ~FinalIteration(sq_finished) /\ ~gives /\ ~accepts
    BY <1>2, <1>10, NotAgain, KernelActs DEF Final
  <2>2. axi_out' = axi_out /\ axi_out_count' = axi_out_count
    BY <2>1, ClkSends
  <2>3. offered' = 3 /\ answer' = <<>>
    BY <1>2, <1>4, <1>10, <2>1 DEF Computing, Final
  <2>4. axi_out' = Answered' /\ axi_out_count' = 0 /\ t_current = t_final
    BY <1>2, <1>4, <1>10, <2>2 DEF Sending
  <2>5. t_current' = t_final'
    <3>1. Final => ~sq_finished
      BY <1>2 DEF Final, IInv, Chain, Outlet, sq_finished, o_valid
    <3> QED
      BY <1>5, <1>10, <2>4, <3>1 DEF Count, Final
  <2>6. state' \in {"PREPARE_SEND", "SEND"}
    BY <1>2, <1>10 DEF NextState, Final
  <2> QED
    BY <2>3, <2>4, <2>5, <2>6 DEF Sending, Final
<1>11. CASE state = "SEND"
  <2>1. ~FinalIteration(sq_finished) /\ ~gives
    BY <1>2, <1>11, NotAgain, KernelActs
  <2>2. t_current' = t_final'
    BY <1>2, <1>4, <1>5, <1>11 DEF Count, Sending
  <2>3. offered' = 3
    BY <1>2, <1>4, <1>11, <2>1 DEF Sending
  <2>4. state' = IF axi_out_count = 2 /\ accepts THEN "IDLE" ELSE "SEND"
    BY <1>2, <1>11 DEF NextState, m_axis_tlast, AXI_OUT_COUNT
  <2>5. \/ axi_out_count = 0 /\ answer = <<>> /\ axi_out = Answered
        \/ /\ axi_out_count = 1 /\ answer = <<Answered[1]>>
           /\ axi_out[1] = Answered[2] /\ axi_out[2] = Answered[3]
        \/ /\ axi_out_count = 2 /\ answer = <<Answered[1], Answered[2]>>
           /\ axi_out[1] = Answered[3]
    BY <1>2, <1>4, <1>11 DEF Sending
  <2>6. CASE ~accepts
    <3>1. axi_out' = axi_out /\ axi_out_count' = axi_out_count /\ answer' = answer
      BY <1>2, <2>1, <2>6, ClkSends
    <3>2. state' = "SEND"
      BY <2>4, <2>6
    <3> QED
      BY <1>2, <2>2, <2>3, <2>5, <3>1, <3>2 DEF Sending, Final
  <2>7. CASE accepts
    <3>1. /\ axi_out' = <<axi_out[2], axi_out[3], T(0)>> /\ axi_out_count' = axi_out_count + 1
      BY <2>1, <2>7, ClkSends
    <3>2. answer' = Append(answer, axi_out[1])
      BY <1>2, <2>7
    <3>3. /\ \A p : Append(<<>>, p) = <<p>>
          /\ \A p, q : Append(<<p>>, q) = <<p, q>>
          /\ \A p, q, r : Append(<<p, q>>, r) = <<p, q, r>>
      <4>1. \A p : Append(<<>>, p) = <<p>>
        OBVIOUS
      <4>2. \A p, q : Append(<<p>>, q) = <<p, q>>
        BY BeatFollows
      <4> QED
        BY <4>1, <4>2, BeatsGrow
    <3>4. axi_out'[1] = axi_out[2] /\ axi_out'[2] = axi_out[3]
      BY <3>1
    <3>5. CASE axi_out_count = 0 /\ answer = <<>> /\ axi_out = Answered
      <4>1. axi_out_count' = 1 /\ answer' = <<Answered[1]>> /\ state' = "SEND"
        BY <2>4, <3>1, <3>2, <3>3, <3>5
      <4>2. axi_out'[1] = Answered[2] /\ axi_out'[2] = Answered[3]
        BY <3>4, <3>5
      <4> QED
        BY <1>2, <2>2, <2>3, <4>1, <4>2 DEF Sending, Final
    <3>6. CASE /\ axi_out_count = 1 /\ answer = <<Answered[1]>>
               /\ axi_out[1] = Answered[2] /\ axi_out[2] = Answered[3]
      <4>1. axi_out_count' = 2 /\ answer' = <<Answered[1], Answered[2]>> /\ state' = "SEND"
        BY <2>4, <3>1, <3>2, <3>3, <3>6
      <4>2. axi_out'[1] = Answered[3]
        BY <3>4, <3>6
      <4> QED
        BY <1>2, <2>2, <2>3, <4>1, <4>2 DEF Sending, Final
    <3>7. CASE /\ axi_out_count = 2 /\ answer = <<Answered[1], Answered[2]>>
               /\ axi_out[1] = Answered[3]
      <4>1. state' = "IDLE" /\ answer' = <<Answered[1], Answered[2], Answered[3]>>
        BY <2>4, <2>7, <3>2, <3>3, <3>7
      <4>2. answer' = Answered
        BY <4>1 DEF Answered, Promise!AnswerBeats
      <4> QED
        BY <1>2, <2>3, <4>1, <4>2 DEF Sending, Final
    <3> QED
      BY <2>5, <3>5, <3>6, <3>7
  <2> QED
    BY <2>6, <2>7
<1> QED
  BY <1>3, <1>6, <1>7, <1>8, <1>9, <1>10, <1>11 DEF MsuStates, Final

\* What an edge of clk does to the crossing while it is ready.
LEMMA ClkReady ==
  ASSUME IInv,
         NEW ap_start \in BOOLEAN, NEW gives \in BOOLEAN,
         NEW accepts \in BOOLEAN, NEW finishes \in BOOLEAN,
         Edge(ap_start, gives, accepts, finishes), ready, ready'
  PROVE  /\ ~reset_1d /\ ~reset_1d' /\ ~reset
         /\ clk_gap \in 0 .. 3 /\ clk_gap' = clk_gap + 1
         /\ fifo_out' = ReadEdge(fifo_out, FifoOutRd)
         /\ fifo_out_reg' = Fetched(fifo_out, FifoOutRd, fifo_out_reg)
         /\ o_sq_out' = fifo_out_reg
         /\ state = "START" => \E delays \in [Lanes -> SyncDelays] :
                                 fifo_in' = Written(fifo_in, sq_in, delays)
         /\ state # "START" => fifo_in' = fifo_in
         /\ state' = NextState(ap_start, gives /\ offered + 1 = 3, accepts)
         /\ state # "INIT" => status = "busy" /\ ~ap_start
<1>1. WrapperClk(reset_1d, reset_1d', reset_mont, sq_start, sq_in)
  BY KernelActs
<1>2. ~reset_1d /\ ~reset_1d' /\ locked /\ locked_d /\ rst_busy = 0
  BY ClkChain
<1>3. ~reset
  BY <1>2, KernelActs
<1>4. locked_d'
  BY <1>1, <1>2 DEF WrapperClk
<1>5. /\ clk_gap < MaxRatio
      /\ clk_gap' = IF clk_gap < MaxRatio THEN clk_gap + 1 ELSE clk_gap
  BY <1>1, <1>2 DEF WrapperClk
<1>6. clk_gap \in 0 .. 3 /\ clk_gap' = clk_gap + 1
  BY <1>5, StretchAssumption, WrapperAssumption DEF IInv, TypeOK
<1>7. fifo_out' = ReadEdge(fifo_out, FifoOutRd)
  BY <1>1, <1>2, <1>4 DEF WrapperClk
<1>8. fifo_out_reg' = Fetched(fifo_out, FifoOutRd, fifo_out_reg) /\ o_sq_out' = fifo_out_reg
  BY <1>1 DEF WrapperClk
<1>9. state = "START" => \E delays \in [Lanes -> SyncDelays] :
                           fifo_in' = Written(fifo_in, sq_in, delays)
  BY <1>1, <1>2, <1>4 DEF WrapperClk, sq_start
<1>10. state # "START" => fifo_in' = fifo_in
  BY <1>1, <1>2, <1>4 DEF WrapperClk, sq_start
<1>11. state' = NextState(ap_start, gives /\ offered + 1 = 3, accepts)
  BY <1>2, KernelActs
<1>12. state # "INIT" => status = "busy" /\ ~ap_start
  BY <1>2, KernelActs DEF IInv, Staged
<1> QED
  BY <1>2, <1>3, <1>6, <1>7, <1>8, <1>9, <1>10, <1>11, <1>12

\* What the state machine does then.
LEMMA ClkSteps ==
  ASSUME IInv,
         NEW ap_start \in BOOLEAN, NEW gives \in BOOLEAN,
         NEW accepts \in BOOLEAN, NEW finishes \in BOOLEAN,
         Edge(ap_start, gives, accepts, finishes), ready, ready'
  PROVE  /\ state \in MsuStates
         /\ state = "INIT" => state' = "INIT" \/ (state' = "RECV" /\ offered' = 0)
         /\ state = "RECV" => /\ offered \in 0 .. 2
                              /\ \/ state' = "RECV" /\ offered' \in {offered, offered + 1}
                                 \/ state' = "SQIN" /\ offered = 2
         /\ state = "SQIN" => state' = "START"
         /\ state = "START" => state' = "COMPUTE"
         /\ state = "COMPUTE" => /\ ~final_iteration_r => state' = "COMPUTE"
                                 /\ final_iteration_r => state' = "PREPARE_SEND"
         /\ state = "PREPARE_SEND" => state' = "SEND" /\ axi_out_count' = 0
         /\ state = "SEND" =>
              /\ axi_out_count \in 0 .. 2
              /\ \/ state' = "SEND" /\ axi_out_count' \in {axi_out_count, axi_out_count + 1}
                 \/ state' = "IDLE" /\ axi_out_count = 2
         /\ state = "IDLE" => state' = "INIT"
<1>1. state' = NextState(ap_start, gives /\ offered + 1 = 3, accepts)
      /\ (state # "INIT" => status = "busy" /\ ~ap_start) /\ ~reset /\ ~reset_1d
  BY ClkReady
<1>2. state \in MsuStates
  BY DEF IInv, TypeOK
<1>3. ASSUME state = "INIT"
      PROVE  state' = "INIT" \/ (state' = "RECV" /\ offered' = 0)
  <2>1. CASE ap_start
    BY <2>1, ClkStarts
  <2>2. CASE ~ap_start
    BY <1>1, <1>3, <2>2 DEF NextState
  <2> QED
    BY <2>1, <2>2
<1>4. ASSUME state = "RECV"
      PROVE  /\ offered \in 0 .. 2
             /\ \/ state' = "RECV" /\ offered' \in {offered, offered + 1}
                \/ state' = "SQIN" /\ offered = 2
  <2>1. offered \in 0 .. 2
    BY <1>1, <1>4 DEF IInv, Receiving, TypeOK, AXI_IN_COUNT
  <2>2. offered' = IF gives THEN offered + 1 ELSE offered
    BY <1>1, <1>4, KernelActs DEF Kernel
  <2>3. CASE gives /\ offered + 1 = 3
    BY <1>1, <1>4, <2>1, <2>3 DEF NextState
  <2>4. CASE ~(gives /\ offered + 1 = 3)
    BY <1>1, <1>4, <2>1, <2>2, <2>4 DEF NextState
  <2> QED
    BY <2>1, <2>3, <2>4
<1>5. /\ state = "SQIN" => state' = "START"
      /\ state = "START" => state' = "COMPUTE"
      /\ state = "IDLE" => state' = "INIT"
  BY <1>1 DEF NextState
<1>6. state = "COMPUTE" => /\ ~final_iteration_r => state' = "COMPUTE"
                           /\ final_iteration_r => state' = "PREPARE_SEND"
  BY <1>1 DEF NextState
<1>7. ASSUME state = "PREPARE_SEND"
      PROVE  state' = "SEND" /\ axi_out_count' = 0
  <2>1. state' = "SEND"
    BY <1>1, <1>7 DEF NextState
  <2>2. axi_out_count = 0
    BY <1>1, <1>7 DEF IInv, Sending
  <2>3. ~FinalIteration(sq_finished)
    BY <1>1, <1>7, NotAgain
  <2>4. ~accepts
    BY <1>7, KernelActs
  <2>5. axi_out_count' = axi_out_count
    BY <2>3, <2>4, ClkSends
  <2> QED
    BY <2>1, <2>2, <2>5
<1>8. ASSUME state = "SEND"
      PROVE  /\ axi_out_count \in 0 .. 2
             /\ \/ state' = "SEND" /\ axi_out_count' \in {axi_out_count, axi_out_count + 1}
                \/ state' = "IDLE" /\ axi_out_count = 2
  <2>1. axi_out_count \in 0 .. 2
    BY <1>1, <1>8 DEF IInv, Sending
  <2>2. ~FinalIteration(sq_finished)
    BY <1>1, <1>8, NotAgain
  <2>3. axi_out_count' \in {axi_out_count, axi_out_count + 1}
    <3>1. CASE accepts
      BY <2>2, <3>1, ClkSends
    <3>2. CASE ~accepts
      BY <2>2, <3>2, ClkSends
    <3> QED
      BY <3>1, <3>2
  <2>4. state' = IF axi_out_count = 2 /\ accepts THEN "IDLE" ELSE "SEND"
    BY <1>1, <1>8 DEF NextState, m_axis_tlast, AXI_OUT_COUNT
  <2> QED
    BY <2>1, <2>3, <2>4
<1> QED
  BY <1>2, <1>3, <1>4, <1>5, <1>6, <1>7, <1>8

\* It comes nearer to START by one edge at most.
LEMMA RoomShrinks ==
  ASSUME IInv,
         NEW ap_start \in BOOLEAN, NEW gives \in BOOLEAN,
         NEW accepts \in BOOLEAN, NEW finishes \in BOOLEAN,
         Edge(ap_start, gives, accepts, finishes), ready, ready'
  PROVE  Room' \in Int /\ Room' + 1 >= Room
<1>1. offered \in 0 .. 3 /\ axi_out_count \in 0 .. 3
  BY DEF IInv, TypeOK, AXI_IN_COUNT, AXI_OUT_COUNT
<1>2. CASE state = "INIT"
  <2>1. Room = 5
    BY <1>2 DEF Room
  <2>2. state' = "INIT" \/ (state' = "RECV" /\ offered' = 0)
    BY <1>2, ClkSteps
  <2>3. Room' = 5 \/ Room' = 4
    BY <2>2 DEF Room
  <2> QED
    BY <2>1, <2>3
<1>3. CASE state = "RECV"
  <2>1. Room = 4 - offered
    BY <1>3 DEF Room
  <2>2. \/ state' = "RECV" /\ offered' \in {offered, offered + 1}
        \/ state' = "SQIN" /\ offered = 2
    BY <1>3, ClkSteps
  <2>3. Room' = 4 - offered \/ Room' = 4 - (offered + 1) \/ (Room' = 1 /\ offered = 2)
    BY <2>2 DEF Room
  <2> QED
    BY <1>1, <2>1, <2>3
<1>4. CASE state = "SQIN"
  <2>1. Room = 1 /\ state' = "START"
    BY <1>4, ClkSteps DEF Room
  <2> QED
    BY <2>1 DEF Room
<1>5. CASE state = "START"
  <2>1. Room = 0 /\ state' = "COMPUTE"
    BY <1>5, ClkSteps DEF Room
  <2> QED
    BY <2>1 DEF Room
<1>6. CASE state = "COMPUTE"
  <2>1. Room = 10 /\ (state' = "COMPUTE" \/ state' = "PREPARE_SEND")
    BY <1>6, ClkSteps DEF Room
  <2> QED
    BY <2>1 DEF Room
<1>7. CASE state = "PREPARE_SEND"
  <2>1. Room = 10 /\ state' = "SEND" /\ axi_out_count' = 0
    BY <1>7, ClkSteps DEF Room
  <2> QED
    BY <2>1 DEF Room
<1>8. CASE state = "SEND"
  <2>1. Room = 9 - axi_out_count
    BY <1>8 DEF Room
  <2>2. \/ state' = "SEND" /\ axi_out_count' \in {axi_out_count, axi_out_count + 1}
        \/ state' = "IDLE" /\ axi_out_count = 2
    BY <1>8, ClkSteps
  <2>3. \/ Room' = 9 - axi_out_count \/ Room' = 9 - (axi_out_count + 1)
        \/ Room' = 6 /\ axi_out_count = 2
    BY <2>2 DEF Room
  <2> QED
    BY <1>1, <2>1, <2>3
<1>9. CASE state = "IDLE"
  <2>1. Room = 6 /\ state' = "INIT"
    BY <1>9, ClkSteps DEF Room
  <2> QED
    BY <2>1 DEF Room
<1> QED
  BY <1>2, <1>3, <1>4, <1>5, <1>6, <1>7, <1>8, <1>9, ClkSteps DEF MsuStates

\* What is on its way to msu comes nearer, and in time.
LEMMA ClkOutlet ==
  ASSUME IInv,
         NEW ap_start \in BOOLEAN, NEW gives \in BOOLEAN,
         NEW accepts \in BOOLEAN, NEW finishes \in BOOLEAN,
         Edge(ap_start, gives, accepts, finishes), ready, ready'
  PROVE  Outlet'
<1>1. /\ ~reset_1d /\ ~reset_1d' /\ clk_gap \in 0 .. 3 /\ clk_gap' = clk_gap + 1
      /\ fifo_out' = ReadEdge(fifo_out, FifoOutRd)
  BY ClkReady
<1>2. Room \in Int /\ Room' \in Int /\ Room' + 1 >= Room
  BY RoomShrinks, RoomIs DEF IInv
<1>10. \A n \in Int : n <= Room => n - 1 <= Room'
  <2> DEFINE r == Room
             q == Room'
  <2>1. r \in Int /\ q \in Int /\ q + 1 >= r
    BY <1>2
  <2> HIDE DEF r, q
  <2>2. \A n \in Int : n <= r => n - 1 <= q
    BY <2>1
  <2> QED
    BY <2>2 DEF r, q
<1>3. running' = running /\ Age' = Age
  BY ClkLeaves
<1>4. fifo_out_val'[1] = FifoOutRd /\ fifo_out_val'[2] = fifo_out_val[1]
  <2>1. fifo_out_val' = <<FifoOutRd, fifo_out_val[1]>>
    BY <1>1, ClkShifts
  <2> QED
    BY <2>1 DEF FifoOutRd
<1>5. /\ fifo_out_val[1] => ~fifo_out_val[2] /\ Room >= 2
      /\ fifo_out_val[2] => Room >= 1 /\ ~final_iteration_r
      /\ fifo_out # AllEmpty =>
           /\ Holding(fifo_out)
           /\ \A l \in Lanes : InTime(WaitsIn(fifo_out)[l])
           /\ fifo_out_val[1] => \E l \in Lanes : WaitsIn(fifo_out)[l] > 0
  BY DEF IInv, Outlet
<1>6. fifo_out_val'[2] => Room' >= 1 /\ ~final_iteration_r'
  <2> SUFFICES ASSUME fifo_out_val[1] PROVE Room' >= 1 /\ ~final_iteration_r'
    BY <1>4
  <2>1. Room' >= 1
    <3>1. 2 <= Room
      BY <1>2, <1>5
    <3>2. 2 - 1 <= Room'
      BY <1>10, <3>1
    <3> QED
      BY <1>2, <3>2
  <2>2. ~sq_finished
    BY <1>5 DEF sq_finished, o_valid
  <2>3. ~final_iteration_r'
    BY <2>2, KernelActs DEF FinalIteration
  <2> QED
    BY <2>1, <2>3
<1>7. CASE fifo_out = AllEmpty
  <2>1. ~FifoOutRd /\ fifo_out' = AllEmpty
    BY <1>1, <1>7, EmptyStays DEF FifoOutRd
  <2>2. ~fifo_out_val'[1]
    BY <1>4, <2>1
  <2> QED
    BY <1>6, <2>1, <2>2 DEF Outlet
<1> DEFINE w == WaitsIn(fifo_out)
<1>8. CASE Holding(fifo_out) /\ \A l \in Lanes : w[l] = 0
  <2>1. FifoOutRd /\ fifo_out' = AllEmpty
    BY <1>1, <1>8, ReaderEdge DEF FifoOutRd
  <2>2. fifo_out # AllEmpty
    BY <1>8, ReaderEdge
  <2>3. ~fifo_out_val[1]
    <3>1. fifo_out_val[1] => \E l \in Lanes : WaitsIn(fifo_out)[l] > 0
      BY <1>5, <2>2
    <3> QED
      BY <1>8, <3>1
  <2>4. PICK l \in Lanes : InTime(w[l])
    BY <1>5, <2>2, WrapperAssumption
  <2>5. 3 <= Room
    <3>1. w[l] = 0 /\ w[l] + 3 <= Room
      BY <1>8, <2>4 DEF InTime
    <3> HIDE DEF w
    <3> QED
      BY <3>1
  <2>6. Room' >= 2
    <3>1. 3 - 1 <= Room'
      BY <1>10, <2>5
    <3> QED
      BY <1>2, <3>1
  <2>7. fifo_out_val'[1] => ~fifo_out_val'[2] /\ Room' >= 2
    BY <1>4, <2>3, <2>6
  <2> QED
    BY <1>6, <2>1, <2>7 DEF Outlet
<1>9. CASE Holding(fifo_out) /\ \E l \in Lanes : w[l] > 0
  <2> DEFINE f == ReadEdge(fifo_out, FifoOutRd)
  <2>1. ~FifoOutRd /\ Holding(f) /\ WaitsIn(f) = Less(w)
    BY <1>9, ReaderEdge DEF FifoOutRd
  <2>2. fifo_out # AllEmpty
    BY <1>9, ReaderEdge
  <2>3. fifo_out' = f
    BY <1>1
  <2> HIDE DEF f
  <2>4. Holding(fifo_out)' /\ WaitsIn(fifo_out)' = Less(w)
    BY <2>1, <2>3 DEF Holding, WaitsIn, WordIn
  <2>5. ~fifo_out_val'[1]
    BY <1>4, <2>1
  <2>6. w \in [Lanes -> Nat]
    BY <1>9 DEF Holding
  <2>7. \A l \in Lanes : InTime(w[l])
    BY <1>5, <2>2
  <2> HIDE DEF w
  <2>8. PICK k \in Lanes : w[k] > 0
    BY <1>9 DEF w
  <2>9. ASSUME NEW l \in Lanes
        PROVE  InTime(WaitsIn(fifo_out)[l])'
    <3> DEFINE u == w[l]
               m == w[k]
               n == Less(w)[l]
    <3>1. u \in Nat /\ m \in Nat /\ m > 0 /\ n = IF u = 0 THEN 0 ELSE u - 1
      BY <2>6, <2>8 DEF Less
    <3>2. InTime(u) /\ InTime(m)
      BY <2>7
    <3> HIDE DEF u, m, n
    <3>3. MaxRatio + n + 3 <= 10
      BY <3>1, <3>2, WrapperAssumption DEF InTime
    <3>4. n + 3 <= Room'
      <4>1. u + 3 <= Room /\ m + 3 <= Room
        BY <3>2 DEF InTime
      <4>2. CASE u = 0
        <5>1. 4 <= Room
          BY <1>2, <3>1, <4>1
        <5>2. 4 - 1 <= Room'
          BY <1>10, <5>1
        <5> QED
          BY <1>2, <3>1, <4>2, <5>2
      <4>3. CASE u # 0
        <5>1. u + 3 - 1 <= Room'
          BY <1>10, <3>1, <4>1
        <5> QED
          BY <1>2, <3>1, <4>3, <5>1
      <4> QED
        BY <4>2, <4>3
    <3>5. ASSUME running'
          PROVE  n + Age' * MinRatio + clk_gap' < MinGap * MinRatio + MinRatio
      <4> DEFINE a == Age * MinRatio
                 p == MinGap * MinRatio
      <4>1. u + a + clk_gap < p + MinRatio /\ m + a + clk_gap < p + MinRatio
        BY <1>3, <3>2, <3>5 DEF InTime
      <4>2. MinRatio \in Nat /\ MinGap \in Nat
        BY GapAssumption, WrapperAssumption
      <4>3. Age \in Nat
        BY GapAssumption DEF Age, IInv, TypeOK
      <4>4. a \in Nat
        BY <4>2, <4>3, TimesNat
      <4>5. p \in Nat
        BY <4>2, TimesNat
      <4>6. Age' * MinRatio = a
        BY <1>3
      <4> HIDE DEF a, p
      <4>7. n + a + clk_gap' < p + MinRatio
        BY <1>1, <3>1, <4>1, <4>2, <4>4, <4>5
      <4> QED
        BY <4>6, <4>7 DEF p
    <3>6. WaitsIn(fifo_out)[l]' = n
      BY <2>4 DEF n
    <3> QED
      BY <3>3, <3>4, <3>5, <3>6 DEF InTime
  <2> QED
    BY <1>6, <2>4, <2>5, <2>9 DEF Outlet
<1> QED
  <2>1. Holding(fifo_out) => \A l \in Lanes : w[l] \in Nat
    BY DEF Holding
  <2>2. (\A l \in Lanes : w[l] \in Nat) =>
          (\A l \in Lanes : w[l] = 0) \/ (\E l \in Lanes : w[l] > 0)
    OBVIOUS
  <2> QED
    BY <1>5, <1>7, <1>8, <1>9, <2>1, <2>2

\* A squarer at rest and a crossing back that is empty stay so.
LEMMA ClkRests ==
  ASSUME IInv,
         NEW ap_start \in BOOLEAN, NEW gives \in BOOLEAN,
         NEW accepts \in BOOLEAN, NEW finishes \in BOOLEAN,
         Edge(ap_start, gives, accepts, finishes), ready, ready',
         fifo_out = AllEmpty, fifo_out_val = <<FALSE, FALSE>>
  PROVE  /\ fifo_out' = AllEmpty /\ fifo_out_val' = <<FALSE, FALSE>>
         /\ ~sq_finished /\ ~final_iteration_r'
<1>1. ~FifoOutRd /\ ReadEdge(fifo_out, FifoOutRd) = AllEmpty
  BY EmptyStays DEF FifoOutRd
<1>2. fifo_out' = AllEmpty
  BY <1>1, ClkReady
<1>3. fifo_out_val' = <<FALSE, FALSE>>
  BY <1>1, ClkReady, ClkShifts DEF FifoOutRd
<1>4. ~sq_finished
  BY DEF sq_finished, o_valid
<1>5. ~final_iteration_r'
  BY <1>4, KernelActs DEF FinalIteration
<1> QED
  BY <1>2, <1>3, <1>4, <1>5

\* The reset of a finished job, then the input of the next one, on their way
\* to the squarer.
LEMMA ClkInlet ==
  ASSUME IInv,
         NEW ap_start \in BOOLEAN, NEW gives \in BOOLEAN,
         NEW accepts \in BOOLEAN, NEW finishes \in BOOLEAN,
         Edge(ap_start, gives, accepts, finishes), ready, ready'
  PROVE  Inlet'
<1>1. /\ ~reset_1d /\ ~reset_1d' /\ clk_gap \in 0 .. 3 /\ clk_gap' = clk_gap + 1
      /\ state # "START" => fifo_in' = fifo_in
  BY ClkReady
<1>2. /\ (reset_cdc0'[1] <=> state \in {"PREPARE_SEND", "INIT"})
      /\ (reset_cdc0'[2] <=> reset_cdc0[1])
      /\ (reset_cdc0'[3] <=> reset_cdc0[2])
      /\ (reset_cdc0'[4] <=> reset_cdc0[3])
  BY <1>1, ClkShifts DEF reset_mont
<1>3. /\ UNCHANGED <<fifo_in_val, reset_cdc1, fifo_in_reg, mont_in, running>>
  BY ClkLeaves
<1>4. Inlet /\ Outlet
  BY DEF IInv
<1>5. \A i \in 1 .. 4 : i = 1 \/ i = 2 \/ i = 3 \/ i = 4
  OBVIOUS
<1>6. Quiet /\ state # "START" => Quiet'
  BY <1>1, <1>3 DEF Quiet
<1>7. CASE state = "INIT"
  <2>1. Quiet' /\ ~running'
    BY <1>3, <1>4, <1>6, <1>7 DEF Inlet
  <2>2. state' = "INIT" \/ (state' = "RECV" /\ offered' = 0)
    BY <1>7, ClkSteps
  <2>3. offered' = 0 => \A i \in 1 .. offered' : FALSE
    OBVIOUS
  <2> QED
    BY <2>1, <2>2, <2>3 DEF Inlet
<1>8. CASE state = "RECV"
  <2>1. Quiet' /\ ~running'
    BY <1>3, <1>4, <1>6, <1>8 DEF Inlet
  <2>2. /\ offered \in 0 .. 2
        /\ \/ state' = "RECV" /\ offered' \in {offered, offered + 1}
           \/ state' = "SQIN" /\ offered = 2
    BY <1>8, ClkSteps
  <2>3. \A i \in 1 .. offered : ~reset_cdc0[i]
    BY <1>4, <1>8 DEF Inlet
  <2>4. \A i \in 1 .. offered + 1 : ~reset_cdc0'[i]
    <3>1. ~reset_cdc0'[1]
      BY <1>2, <1>8
    <3>2. offered >= 1 => ~reset_cdc0'[2]
      BY <1>2, <2>2, <2>3
    <3>3. offered >= 2 => ~reset_cdc0'[3]
      BY <1>2, <2>2, <2>3
    <3>4. \A i \in 1 .. offered + 1 : i = 1 \/ (i = 2 /\ offered >= 1) \/ (i = 3 /\ offered >= 2)
      BY <2>2
    <3> QED
      BY <3>1, <3>2, <3>3, <3>4
  <2>5. CASE state' = "RECV" /\ offered' \in {offered, offered + 1}
    <3>1. \A i \in 1 .. offered' : ~reset_cdc0'[i]
      BY <2>2, <2>4, <2>5
    <3> QED
      BY <2>1, <2>5, <3>1 DEF Inlet
  <2>6. CASE state' = "SQIN" /\ offered = 2
    <3>1. \A i \in 1 .. 3 : ~reset_cdc0'[i]
      BY <2>4, <2>6
    <3> QED
      BY <2>1, <2>6, <3>1 DEF Inlet
  <2> QED
    BY <2>2, <2>5, <2>6
<1>9. CASE state = "SQIN"
  <2>1. Quiet' /\ ~running'
    BY <1>3, <1>4, <1>6, <1>9 DEF Inlet
  <2>2. state' = "START"
    BY <1>9, ClkSteps
  <2>3. \A i \in 1 .. 3 : ~reset_cdc0[i]
    BY <1>4, <1>9 DEF Inlet
  <2>4. ~reset_cdc0[1] /\ ~reset_cdc0[2] /\ ~reset_cdc0[3]
    BY <2>3
  <2>5. \A i \in 1 .. 4 : ~reset_cdc0'[i]
    BY <1>2, <1>5, <1>9, <2>4
  <2> QED
    BY <2>1, <2>2, <2>5 DEF Inlet
<1>10. ASSUME state \in {"START", "COMPUTE"}
       PROVE  \A i \in 1 .. 4 : ~reset_cdc0'[i]
  <2>1. \A i \in 1 .. 4 : ~reset_cdc0[i]
    BY <1>4, <1>10 DEF Inlet
  <2>2. ~reset_cdc0[1] /\ ~reset_cdc0[2] /\ ~reset_cdc0[3]
    BY <2>1
  <2> QED
    BY <1>2, <1>5, <1>10, <2>2
<1>11. CASE state = "START"
  <2>1. state' = "COMPUTE"
    BY <1>11, ClkSteps
  <2>2. ~running /\ fifo_in = AllEmpty /\ fifo_in_val = <<FALSE, FALSE>>
    BY <1>4, <1>11 DEF Inlet, Quiet
  <2>3. Room = 0
    BY <1>11 DEF Room
  <2>4. fifo_out = AllEmpty
    <3> SUFFICES ASSUME fifo_out # AllEmpty PROVE FALSE
      OBVIOUS
    <3>1. Holding(fifo_out) /\ \A l \in Lanes : InTime(WaitsIn(fifo_out)[l])
      BY <1>4 DEF Outlet
    <3>2. PICK l \in Lanes : InTime(WaitsIn(fifo_out)[l])
      BY <3>1, WrapperAssumption
    <3> DEFINE w == WaitsIn(fifo_out)[l]
    <3>3. w \in Nat
      BY <3>1 DEF Holding
    <3>4. w + 3 <= 0
      BY <2>3, <3>2 DEF InTime
    <3> HIDE DEF w
    <3> QED
      BY <3>3, <3>4
  <2>5. fifo_out_val = <<FALSE, FALSE>>
    <3>1. PICK a \in BOOLEAN, b \in BOOLEAN : fifo_out_val = <<a, b>>
      BY DEF IInv, TypeOK
    <3>2. ~fifo_out_val[1] /\ ~fifo_out_val[2]
      BY <1>4, <2>3 DEF Outlet
    <3>3. ~a /\ ~b
      BY <3>1, <3>2
    <3> QED
      BY <3>1, <3>3
  <2>6. /\ fifo_out' = AllEmpty /\ fifo_out_val' = <<FALSE, FALSE>> /\ ~final_iteration_r'
    BY <2>4, <2>5, ClkRests
  <2>7. /\ status = "busy" /\ ~ap_start
    BY <1>11, ClkReady
  <2>8. t_current = request.t_start /\ t_final = request.t_final /\ sq_in = Input
    BY <1>11, <2>7 DEF IInv, Computing
  <2>9. t_current' = t_current /\ request' = request
    BY <1>11, <2>7, KernelActs DEF Count, Kernel
  <2>10. Counted' = 0
    <3>1. Counted = 0
      BY <2>8, Counting
    <3> QED
      BY <2>9, <3>1 DEF Counted
  <2>11. PICK d \in [Lanes -> SyncDelays] : fifo_in' = Written(fifo_in, sq_in, d)
    BY <1>11, ClkReady
  <2>12. Holding(fifo_in') /\ WordIn(fifo_in') = Input
    BY <2>2, <2>8, <2>11, WireWritten, WireHolds
  <2>13. Holding(fifo_in)' /\ WordIn(fifo_in)' = Input'
    BY <2>9, <2>12 DEF Holding, WordIn, WaitsIn, Input
  <2>14. Crossing'
    BY <1>3, <2>2, <2>6, <2>10, <2>13 DEF Crossing, Unfed
  <2> QED
    BY <1>10, <1>11, <2>1, <2>14 DEF Inlet
<1>12. CASE state = "COMPUTE"
  <2>1. \/ Crossing
        \/ Fetching(<<TRUE, FALSE>>, fifo_in_reg)
        \/ Fetching(<<FALSE, TRUE>>, mont_in)
        \/ Squaring
    BY <1>4, <1>12 DEF Inlet
  <2>2. fifo_in' = fifo_in
    BY <1>1, <1>12
  <2>3. request' = request
    BY <1>12, ClkReady, KernelActs DEF Kernel
  <2>4. Input' = Input
    BY <2>3 DEF Input
  <2>5. ASSUME Unfed
        PROVE  Unfed' /\ state' = "COMPUTE"
    <3>1. /\ fifo_out' = AllEmpty /\ fifo_out_val' = <<FALSE, FALSE>>
          /\ ~sq_finished /\ ~final_iteration_r'
      BY <2>5, ClkRests DEF Unfed
    <3>2. t_current' = t_current
      BY <1>12, <3>1, KernelActs DEF Count
    <3>3. Counted' = 0
      <4>1. Counted = 0
        BY <2>5 DEF Unfed
      <4> QED
        BY <2>3, <3>2, <4>1 DEF Counted
    <3>4. state' = "COMPUTE"
      BY <1>12, <2>5, ClkSteps DEF Unfed
    <3> QED
      BY <1>3, <2>5, <3>1, <3>3, <3>4 DEF Unfed
  <2>6. CASE Crossing
    <3>1. Unfed' /\ state' = "COMPUTE"
      BY <2>5, <2>6 DEF Crossing
    <3>2. Holding(fifo_in)' /\ WordIn(fifo_in)' = Input'
      BY <2>2, <2>4, <2>6 DEF Crossing, Holding, WordIn, WaitsIn
    <3>3. fifo_in_val' = <<FALSE, FALSE>>
      BY <1>3, <2>6 DEF Crossing
    <3>4. Crossing'
      BY <3>1, <3>2, <3>3 DEF Crossing
    <3> QED
      BY <1>10, <1>12, <3>1, <3>4 DEF Inlet
  <2>7. CASE Fetching(<<TRUE, FALSE>>, fifo_in_reg)
    <3>1. Unfed' /\ state' = "COMPUTE"
      BY <2>5, <2>7 DEF Fetching
    <3>2. Fetching(<<TRUE, FALSE>>, fifo_in_reg)'
      BY <1>3, <2>2, <2>4, <2>7, <3>1 DEF Fetching, Words
    <3> QED
      BY <1>10, <1>12, <3>1, <3>2 DEF Inlet
  <2>8. CASE Fetching(<<FALSE, TRUE>>, mont_in)
    <3>1. Unfed' /\ state' = "COMPUTE"
      BY <2>5, <2>8 DEF Fetching
    <3>2. Fetching(<<FALSE, TRUE>>, mont_in)'
      BY <1>3, <2>2, <2>4, <2>8, <3>1 DEF Fetching, Words
    <3> QED
      BY <1>10, <1>12, <3>1, <3>2 DEF Inlet
  <2>9. CASE Squaring
    <3>1. Squaring' /\ Quiet'
      BY <1>3, <1>6, <1>12, <2>9 DEF Squaring
    <3>2. state' = "COMPUTE" \/ state' = "PREPARE_SEND"
      BY <1>12, ClkSteps
    <3> QED
      BY <1>10, <1>12, <3>1, <3>2 DEF Inlet
  <2> QED
    BY <2>1, <2>6, <2>7, <2>8, <2>9
<1>13. CASE state = "PREPARE_SEND"
  <2>1. state' = "SEND" /\ axi_out_count' = 0
    BY <1>13, ClkSteps
  <2>2. Elapsed' = 1
    BY <2>1 DEF Elapsed
  <2>3. 1 \in Elapsed' .. 4 /\ reset_cdc0'[1] /\ 1 <= clk_gap'
    BY <1>1, <1>2, <1>13, <2>2
  <2>4. Quiet'
    BY <1>4, <1>6, <1>13 DEF Inlet
  <2> QED
    BY <2>1, <2>3, <2>4 DEF Inlet
<1>14. CASE state = "SEND"
  <2>1. /\ axi_out_count \in 0 .. 2
        /\ \/ state' = "SEND" /\ axi_out_count' \in {axi_out_count, axi_out_count + 1}
           \/ state' = "IDLE" /\ axi_out_count = 2
    BY <1>14, ClkSteps
  <2>2. Elapsed = 1 + axi_out_count
    BY <1>14 DEF Elapsed
  <2>3. Elapsed' \in Nat /\ Elapsed' <= Elapsed + 1
    <3>1. CASE state' = "SEND" /\ axi_out_count' \in {axi_out_count, axi_out_count + 1}
      <4>1. Elapsed' = 1 + axi_out_count'
        BY <3>1 DEF Elapsed
      <4>2. Elapsed' = 1 + axi_out_count \/ Elapsed' = 1 + (axi_out_count + 1)
        BY <3>1, <4>1
      <4> QED
        BY <2>1, <2>2, <4>2
    <3>2. CASE state' = "IDLE" /\ axi_out_count = 2
      <4>1. Elapsed' = 4
        BY <3>2 DEF Elapsed
      <4> QED
        BY <2>2, <3>2, <4>1
    <3> QED
      BY <2>1, <3>1, <3>2
  <2>4. ASSUME running'
        PROVE  \E i \in Elapsed' .. 4 : reset_cdc0'[i] /\ i <= clk_gap'
    <3>1. PICK i \in Elapsed .. 4 : reset_cdc0[i] /\ i <= clk_gap
      BY <1>3, <1>4, <1>14, <2>4 DEF Inlet
    <3>2. i \in 1 .. 3
      BY <1>1, <2>1, <2>2, <3>1
    <3>3. reset_cdc0'[i + 1]
      <4>1. i = 1 \/ i = 2 \/ i = 3
        BY <3>2
      <4> QED
        BY <1>2, <3>1, <4>1
    <3>4. i + 1 \in Elapsed' .. 4 /\ i + 1 <= clk_gap'
      BY <1>1, <2>1, <2>2, <2>3, <3>1, <3>2
    <3> QED
      BY <3>3, <3>4
  <2>5. Quiet'
    BY <1>4, <1>6, <1>14 DEF Inlet
  <2>6. state' = "SEND" \/ state' = "IDLE"
    BY <2>1
  <2> QED
    BY <2>4, <2>5, <2>6 DEF Inlet
<1>15. CASE state = "IDLE"
  <2>1. state' = "INIT"
    BY <1>15, ClkSteps
  <2>2. Elapsed = 4
    BY <1>15 DEF Elapsed
  <2>3. ~running
    <3> SUFFICES ASSUME running PROVE FALSE
      OBVIOUS
    <3>1. PICK i \in Elapsed .. 4 : i <= clk_gap
      BY <1>4, <1>15 DEF Inlet
    <3> QED
      BY <1>1, <2>2, <3>1
  <2>4. Quiet'
    BY <1>4, <1>6, <1>15 DEF Inlet
  <2> QED
    BY <1>3, <2>1, <2>3, <2>4 DEF Inlet
<1> QED
  BY <1>7, <1>8, <1>9, <1>11, <1>12, <1>13, <1>14, <1>15, ClkSteps DEF MsuStates

\* The results on their way stay in order.
LEMMA ClkResults ==
  ASSUME IInv,
         NEW ap_start \in BOOLEAN, NEW gives \in BOOLEAN,
         NEW accepts \in BOOLEAN, NEW finishes \in BOOLEAN,
         Edge(ap_start, gives, accepts, finishes), ready, ready'
  PROVE  Results'
<1> SUFFICES ASSUME state' = "COMPUTE", running', ~final_iteration_r'
             PROVE  /\ fifo_out_val'[2] => o_sq_out' = Words(Result(AtPort))'
                    /\ fifo_out_val'[1] => fifo_out_reg' = Words(Result(AtReg))'
                    /\ fifo_out' # AllEmpty => WordIn(fifo_out)' = Result(AtFifo)'
                    /\ o_val' => o_mul' = Result(Announced)'
                    /\ x' = Result(Announced)'
  BY DEF Results
<1>1. running' = running /\ o_val' = o_val /\ o_mul' = o_mul /\ x' = x
  BY ClkLeaves
<1>2. state = "COMPUTE" /\ ~final_iteration_r
  <2>1. state # "START"
    BY <1>1 DEF IInv, Inlet
  <2>2. state = "COMPUTE"
    BY <2>1, ClkSteps DEF MsuStates
  <2> QED
    BY <2>2, ClkSteps
<1>3. /\ ~reset_1d /\ ~reset_1d' /\ status = "busy" /\ ~ap_start
      /\ fifo_out' = ReadEdge(fifo_out, FifoOutRd)
      /\ fifo_out_reg' = Fetched(fifo_out, FifoOutRd, fifo_out_reg)
      /\ o_sq_out' = fifo_out_reg
  BY <1>2, ClkReady
<1>4. request' = request
  BY <1>3, KernelActs DEF Kernel
<1>5. \A n : Result(n) = Value(request.job, n)
  BY DEF Result
<1>6. /\ Words(Result(AtPort))' = Words(Result(AtPort'))
      /\ Words(Result(AtReg))' = Words(Result(AtReg'))
      /\ Result(AtFifo)' = Result(AtFifo')
      /\ Result(Announced)' = Result(Announced')
  BY <1>4 DEF Result, Words
<1>7. /\ fifo_out_val[2] => o_sq_out = Words(Result(AtPort))
      /\ fifo_out_val[1] => fifo_out_reg = Words(Result(AtReg))
      /\ fifo_out # AllEmpty => WordIn(fifo_out) = Result(AtFifo)
      /\ o_val => o_mul = Result(Announced)
      /\ x = Result(Announced)
  BY <1>1, <1>2 DEF IInv, Results
<1>8. fifo_out_val'[1] = FifoOutRd /\ fifo_out_val'[2] = fifo_out_val[1]
  <2>1. fifo_out_val' = <<FifoOutRd, fifo_out_val[1]>>
    BY <1>3, ClkShifts
  <2> QED
    BY <2>1 DEF FifoOutRd
<1>9. AtPort \in Nat /\ AtReg \in Nat /\ AtFifo \in Nat /\ Announced \in Nat /\ Counted \in Nat
  BY CountedIs, PowerOfTwo DEF IInv
<1>10. Counted' = AtPort
  <2>1. Counted < Wanted /\ t_final = request.t_final
    BY <1>2, <1>3 DEF IInv, Computing
  <2>2. t_current' = IF sq_finished THEN Wrapped(t_current + 1) ELSE t_current
    BY <1>2, KernelActs DEF Count
  <2>3. Counted' = Wrapped(t_current' + 2^T_LEN - request.t_start)
    BY <1>4 DEF Counted
  <2>4. CASE ~sq_finished
    <3>1. Counted' = Counted
      BY <2>2, <2>3, <2>4 DEF Counted
    <3>2. AtPort = Counted
      BY <1>9, <2>4 DEF AtPort, One, sq_finished, o_valid
    <3> QED
      BY <3>1, <3>2
  <2>5. CASE sq_finished
    <3>1. t_current # Wrapped(t_final + 2^T_LEN - 1)
      BY <2>5, KernelActs DEF FinalIteration
    <3>2. Wanted \in Nat /\ Counted # Wanted - 1
      BY <2>1, <3>1, Counting
    <3>3. Counted + 1 < Wanted
      BY <1>9, <2>1, <3>2
    <3>4. Counted' = Counted + 1
      BY <2>1, <2>2, <2>3, <2>5, <3>3, Counting
    <3>5. AtPort = Counted + 1
      BY <2>5 DEF AtPort, One, sq_finished, o_valid
    <3> QED
      BY <3>4, <3>5
  <2> QED
    BY <2>4, <2>5
<1>11. AtPort' = AtReg
  BY <1>8, <1>10 DEF AtPort, AtReg, One
<1>12. AtReg' = AtReg + One(FifoOutRd)
  BY <1>8, <1>11 DEF AtReg, One
<1>13. /\ FifoOutRd => fifo_out # AllEmpty /\ fifo_out' = AllEmpty
                       /\ fifo_out_reg' = Words(WordIn(fifo_out))
       /\ ~FifoOutRd => /\ fifo_out' # AllEmpty <=> fifo_out # AllEmpty
                        /\ fifo_out' # AllEmpty => WordIn(fifo_out') = WordIn(fifo_out)
  <2>1. CASE fifo_out = AllEmpty
    <3>1. ~FifoOutRd /\ fifo_out' = AllEmpty
      BY <1>3, <2>1, EmptyStays DEF FifoOutRd
    <3> QED
      BY <2>1, <3>1
  <2>2. CASE fifo_out # AllEmpty
    <3> DEFINE w == WaitsIn(fifo_out)
    <3>1. Holding(fifo_out) /\ w \in [Lanes -> Nat]
      BY <2>2 DEF IInv, Outlet, Holding
    <3>2. CASE \A l \in Lanes : w[l] = 0
      <4>1. /\ FifoOutRd /\ fifo_out' = AllEmpty
            /\ fifo_out_reg' = Words(WordIn(fifo_out))
        BY <1>3, <3>1, <3>2, ReaderEdge DEF FifoOutRd
      <4> QED
        BY <2>2, <4>1
    <3>3. CASE \E l \in Lanes : w[l] > 0
      <4>1. ~FifoOutRd /\ Holding(fifo_out') /\ WordIn(fifo_out') = WordIn(fifo_out)
        BY <1>3, <3>1, <3>3, ReaderEdge DEF FifoOutRd
      <4>2. fifo_out' # AllEmpty
        BY <4>1, ReaderEdge
      <4> QED
        BY <2>2, <4>1, <4>2
    <3> HIDE DEF w
    <3> QED
      BY <3>1, <3>2, <3>3
  <2> QED
    BY <2>1, <2>2
<1>14. AtFifo' = AtFifo
  <2>1. CASE FifoOutRd
    <3>1. AtReg' = AtReg + 1 /\ AtFifo = AtReg + 1
      BY <1>12, <1>13, <2>1 DEF AtFifo, One
    <3>2. AtFifo' = AtReg' + 0
      BY <1>13, <2>1 DEF AtFifo, One
    <3> QED
      BY <1>9, <3>1, <3>2
  <2>2. CASE ~FifoOutRd
    <3>1. AtReg' = AtReg
      BY <1>9, <1>12, <2>2 DEF One
    <3> QED
      BY <1>13, <2>2, <3>1 DEF AtFifo, One
  <2> QED
    BY <2>1, <2>2
<1>15. Announced' = Announced
  BY <1>1, <1>14 DEF Announced, One
<1>16. fifo_out_val'[2] => o_sq_out' = Words(Result(AtPort'))
  BY <1>3, <1>7, <1>8, <1>11
<1>17. ASSUME fifo_out_val'[1]
       PROVE  fifo_out_reg' = Words(Result(AtReg'))
  <2>1. FifoOutRd
    BY <1>8, <1>17
  <2>2. fifo_out # AllEmpty /\ fifo_out_reg' = Words(Result(AtFifo))
    BY <1>7, <1>13, <2>1
  <2>3. AtReg' = AtReg + 1 /\ AtFifo = AtReg + 1
    BY <1>12, <2>1, <2>2 DEF AtFifo, One
  <2> QED
    BY <2>2, <2>3
<1>18. ASSUME fifo_out' # AllEmpty
       PROVE  WordIn(fifo_out') = Result(AtFifo')
  <2>1. ~FifoOutRd
    BY <1>13, <1>18
  <2> QED
    BY <1>7, <1>13, <1>14, <1>18, <2>1
<1>19. WordIn(fifo_out)' = WordIn(fifo_out')
  BY DEF WordIn
<1> QED
  BY <1>1, <1>6, <1>7, <1>15, <1>16, <1>17, <1>18, <1>19

\* Shapes.
LEMMA ClkShapes ==
  ASSUME IInv,
         NEW ap_start \in BOOLEAN, NEW gives \in BOOLEAN,
         NEW accepts \in BOOLEAN, NEW finishes \in BOOLEAN,
         Edge(ap_start, gives, accepts, finishes)
  PROVE  Shapes'
<1>1. Shapes
  BY DEF IInv
<1>2. axi_in' = <<axi_in'[1], axi_in'[2], axi_in'[3]>>
  <2>1. CASE gives
    <3>1. axi_in' = <<axi_in[2], axi_in[3], Asked[offered + 1]>>
      BY <2>1, ClkTakes
    <3> QED
      BY <3>1
  <2>2. CASE ~gives
    <3>1. axi_in' = axi_in
      BY <2>2, ClkTakes
    <3> QED
      BY <1>1, <3>1 DEF Shapes
  <2> QED
    BY <2>1, <2>2
<1>3. axi_out' = <<axi_out'[1], axi_out'[2], axi_out'[3]>>
  <2> DEFINE last == FinalIteration(sq_finished)
  <2>1. CASE last
    BY <2>1, ClkSends
  <2>2. CASE ~last /\ accepts
    <3>1. axi_out' = <<axi_out[2], axi_out[3], T(0)>>
      BY <2>2, ClkSends
    <3> QED
      BY <3>1
  <2>3. CASE ~last /\ ~accepts
    <3>1. axi_out' = axi_out
      BY <2>3, ClkSends
    <3> QED
      BY <1>1, <3>1 DEF Shapes
  <2> QED
    BY <2>1, <2>2, <2>3
<1>4. request' \in [job : 0 .. MaxJobs, t_start : Counts, t_final : Counts]
  <2>1. CASE ap_start
    BY <2>1, ClkStarts
  <2>2. CASE ~ap_start
    BY <1>1, <2>2, KernelActs DEF Kernel, Shapes
  <2> QED
    BY <2>1, <2>2
<1> QED
  BY <1>2, <1>3, <1>4 DEF Shapes

\* The lanes hold a word at most.
LEMMA ClkWords ==
  ASSUME IInv,
         NEW ap_start \in BOOLEAN, NEW gives \in BOOLEAN,
         NEW accepts \in BOOLEAN, NEW finishes \in BOOLEAN,
         Edge(ap_start, gives, accepts, finishes)
  PROVE  \A l \in Lanes : Len(fifo_in'[l]) <= 1 /\ Len(fifo_out'[l]) <= 2
<1>1. Inlet' /\ Outlet' /\ Cleared'
  <2>1. CASE ready'
    <3>1. CASE ready
      BY <2>1, <3>1, ClkInlet, ClkOutlet, ClkCleared
    <3>2. CASE ~ready
      BY <2>1, <3>2, ClkComesUp, ClkCleared
    <3> QED
      BY <3>1, <3>2
  <2>2. CASE ~ready'
    BY <2>2, ClkCleared DEF Inlet, Outlet
  <2> QED
    BY <2>1, <2>2
<1>2. (Holding(fifo_in)' => Holding(fifo_in')) /\ (Holding(fifo_out)' => Holding(fifo_out'))
  BY DEF Holding, WordIn, WaitsIn
<1>3. fifo_out' = AllEmpty \/ Holding(fifo_out')
  BY <1>1, <1>2 DEF Outlet, Cleared
<1>4. fifo_in' = AllEmpty \/ Holding(fifo_in')
  <2>1. CASE ~ready'
    BY <1>1, <2>1 DEF Cleared
  <2>2. CASE ready'
    <3>1. Quiet' \/ Crossing' \/ Fetching(<<TRUE, FALSE>>, fifo_in_reg)'
           \/ Fetching(<<FALSE, TRUE>>, mont_in)' \/ Squaring'
      BY <1>1, <2>2 DEF Inlet
    <3> QED
      BY <1>2, <3>1 DEF Quiet, Crossing, Fetching, Squaring
  <2> QED
    BY <2>1, <2>2
<1> QED
  BY <1>3, <1>4, FewWords

\* Types.
LEMMA ClkTypes ==
  ASSUME IInv,
         NEW ap_start \in BOOLEAN, NEW gives \in BOOLEAN,
         NEW accepts \in BOOLEAN, NEW finishes \in BOOLEAN,
         Edge(ap_start, gives, accepts, finishes)
  PROVE  TypeOK'
<1>1. TypeOK /\ Shapes
  BY DEF IInv
<1>2. reset_1d' \in BOOLEAN /\ final_iteration_r' \in BOOLEAN
  <2>1. reset_1d' \in BOOLEAN
    BY DEF Edge, ClkEdge, MsuClk, reset
  <2>2. final_iteration_r' \in BOOLEAN
    BY DEF Edge, ClkEdge, MsuClk, FinalIteration, sq_finished, o_valid
  <2> QED
    BY <2>1, <2>2
<1>3. state' \in MsuStates
  <2>1. CASE reset_1d
    BY <2>1, KernelActs DEF MsuStates
  <2>2. CASE ~reset_1d
    <3>1. state' = NextState(ap_start, gives /\ offered + 1 = 3, accepts)
      BY <2>2, KernelActs
    <3>2. state \in MsuStates
      BY <1>1 DEF TypeOK
    <3> QED
      BY <3>1, <3>2 DEF NextState, MsuStates
  <2> QED
    BY <2>1, <2>2
<1>4. t_current' \in Counts /\ t_final' \in Counts
  <2>1. t_current \in Counts /\ t_final \in Counts
    BY <1>1 DEF TypeOK
  <2>2. Wrapped(t_current + 1) \in Counts
    BY <2>1, CountsGo
  <2>3. CASE state = "SQIN"
    <3>1. axi_in = Asked
      BY <2>3 DEF IInv, Staged, Computing
    <3>2. t_current' = request.t_start /\ t_final' = request.t_final
      BY <2>3, <3>1, KernelActs DEF Count, Asked, Promise!RequestBeats, Promise!Beat
    <3> QED
      BY <1>1, <3>2 DEF Shapes
  <2>4. CASE state # "SQIN"
    BY <2>1, <2>2, <2>4, KernelActs DEF Count
  <2> QED
    BY <2>3, <2>4
<1>5. Shapes'
  BY ClkShapes
<1>6. Len(axi_in') = AXI_IN_COUNT /\ Len(axi_out') = AXI_OUT_COUNT
  <2>1. \A a, b, c : Len(<<a, b, c>>) = 3
    OBVIOUS
  <2>2. Len(axi_in') = 3
    BY <1>5, <2>1 DEF Shapes
  <2>3. Len(axi_out') = 3
    BY <1>5, <2>1 DEF Shapes
  <2> QED
    BY <2>2, <2>3 DEF AXI_IN_COUNT, AXI_OUT_COUNT
<1>7. axi_out_count' \in 0 .. AXI_OUT_COUNT
  <2>1. axi_out_count \in 0 .. 3 /\ (accepts => axi_out_count < 3)
    BY <1>1, KernelActs DEF TypeOK, AXI_OUT_COUNT
  <2>2. axi_out_count' = 0 \/ (axi_out_count' = axi_out_count + 1 /\ accepts)
        \/ axi_out_count' = axi_out_count
    BY ClkSends
  <2> QED
    BY <2>1, <2>2 DEF AXI_OUT_COUNT
<1>8. WrapperClk(reset_1d, reset_1d', reset_mont, sq_start, sq_in)
  BY KernelActs
<1>9. UNCHANGED <<fifo_in_val, reset_cdc1, running, since, o_val>>
  BY ClkLeaves
<1>10. {locked', locked_d', ready', o_ready', reset_cdc1', running', o_val'} \subseteq BOOLEAN
  <2>1. reset_cdc1' \in BOOLEAN /\ running' \in BOOLEAN /\ o_val' \in BOOLEAN
    BY <1>1, <1>9 DEF TypeOK
  <2>2. locked' \in BOOLEAN /\ locked_d' \in BOOLEAN /\ ready' \in BOOLEAN /\ o_ready' \in BOOLEAN
    BY <1>8 DEF WrapperClk
  <2> QED
    BY <2>1, <2>2
<1>11. clk_gap' \in 0 .. MaxRatio
  <2>1. clk_gap' = IF clk_gap < MaxRatio THEN clk_gap + 1 ELSE clk_gap
    BY <1>8 DEF WrapperClk
  <2> QED
    BY <1>1, <2>1, WrapperAssumption DEF TypeOK
<1>12. rst_busy' \in 0 .. FifoResetEdges
  <2>1. rst_busy \in 0 .. FifoResetEdges
    BY <1>1 DEF TypeOK
  <2>2. rst_busy' = rst_busy \/ rst_busy' = FifoResetEdges
    BY ClkChain
  <2> QED
    BY <2>1, <2>2, WrapperAssumption
<1>13. reset_cdc0' \in [1 .. 4 -> BOOLEAN] /\ fifo_out_val' \in BOOLEAN \X BOOLEAN
  <2>1. CASE reset_1d \/ reset_1d'
    <3>1. reset_cdc0' = <<TRUE, FALSE, FALSE, FALSE>> /\ fifo_out_val' = <<FALSE, FALSE>>
      BY <1>8, <2>1 DEF WrapperClk
    <3>2. <<TRUE, FALSE, FALSE, FALSE>> \in [1 .. 4 -> BOOLEAN]
      BY ResetBits
    <3>3. <<FALSE, FALSE>> \in BOOLEAN \X BOOLEAN
      OBVIOUS
    <3> QED
      BY <3>1, <3>2, <3>3
  <2>2. CASE ~reset_1d /\ ~reset_1d'
    <3>1. reset_cdc0' \in [1 .. 4 -> BOOLEAN]
      BY <2>2, ClkShifts
    <3>2. fifo_out_val' = <<FifoOutRd, fifo_out_val[1]>>
      BY <2>2, ClkShifts
    <3>3. FifoOutRd \in BOOLEAN /\ fifo_out_val[1] \in BOOLEAN
      BY <1>1 DEF TypeOK, FifoOutRd
    <3> QED
      BY <3>1, <3>2, <3>3
  <2> QED
    BY <2>1, <2>2
<1>14. fifo_in_val' \in BOOLEAN \X BOOLEAN /\ since' \in 0 .. MaxGap - 1
  BY <1>1, <1>9 DEF TypeOK
<1>15. \A l \in Lanes : Len(fifo_in'[l]) <= 1 /\ Len(fifo_out'[l]) <= 2
  BY ClkWords
<1>16. status' \in {"idle", "busy", "done", "abandoned"} /\ request'.job \in 0 .. MaxJobs
  <2>1. status' \in {"idle", "busy", "done", "abandoned"}
    <3>1. CASE ap_start
      BY <3>1, ClkStarts
    <3>2. CASE ~ap_start
      BY <1>1, <3>2, KernelActs DEF Kernel, TypeOK
    <3> QED
      BY <3>1, <3>2
  <2> QED
    BY <1>5, <2>1 DEF Shapes
<1>17. offered' \in 0 .. AXI_IN_COUNT
  <2>1. CASE ap_start
    <3>1. offered' = 0
      BY <2>1, ClkStarts
    <3> QED
      BY <3>1 DEF AXI_IN_COUNT
  <2>2. CASE ~ap_start
    <3>1. offered' = (IF gives THEN offered + 1 ELSE offered) /\ (gives => offered < 3)
      BY <2>2, KernelActs DEF Kernel
    <3> QED
      BY <1>1, <3>1 DEF TypeOK, AXI_IN_COUNT
  <2> QED
    BY <2>1, <2>2
<1>18. Len(answer') <= AXI_OUT_COUNT
  <2>1. CASE ap_start
    <3>1. answer' = <<>>
      BY <2>1, ClkStarts
    <3> QED
      BY <3>1 DEF AXI_OUT_COUNT
  <2>2. CASE ~ap_start /\ ~accepts
    <3>1. answer' = answer
      BY <2>2, KernelActs DEF Kernel
    <3> QED
      BY <1>1, <3>1 DEF TypeOK
  <2>3. CASE ~ap_start /\ accepts
    <3>1. status = "busy" /\ state = "SEND"
      BY <2>3, KernelActs
    <3>2. answer' = Append(answer, axi_out[1])
      BY <2>3, KernelActs DEF Kernel, m_axis_tdata
    <3>3. answer = <<>> \/ answer = <<Answered[1]>> \/ answer = <<Answered[1], Answered[2]>>
      BY <3>1 DEF IInv, Sending
    <3> DEFINE b == axi_out[1]
    <3>4. answer' = <<b>> \/ answer' = <<Answered[1], b>>
          \/ answer' = <<Answered[1], Answered[2], b>>
      <4>1. Append(<<>>, b) = <<b>>
        OBVIOUS
      <4> QED
        BY <3>2, <3>3, <4>1, BeatFollows, BeatsGrow
    <3>5. \A p, q, r : Len(<<p>>) <= 3 /\ Len(<<p, q>>) <= 3 /\ Len(<<p, q, r>>) <= 3
      OBVIOUS
    <3> QED
      BY <3>4, <3>5 DEF AXI_OUT_COUNT
  <2> QED
    BY <2>1, <2>2, <2>3
<1>19. reset_left' \in 0 .. ResetEdges /\ resets' \in 0 .. MaxResets
  <2>1. IF reset
        THEN reset_left' = reset_left - 1 /\ UNCHANGED resets
        ELSE \/ UNCHANGED <<reset_left, resets>>
             \/ resets < MaxResets /\ resets' = resets + 1 /\ reset_left' = ResetEdges
    BY KernelActs DEF Kernel
  <2>2. reset_left \in 0 .. ResetEdges /\ resets \in 0 .. MaxResets
    BY <1>1 DEF TypeOK
  <2>3. CASE reset
    <3>1. reset_left > 0 /\ reset_left' = reset_left - 1 /\ resets' = resets
      BY <2>1, <2>3 DEF reset
    <3> QED
      BY <2>2, <3>1, SystemAssumption
  <2>4. CASE ~reset
    BY <2>1, <2>2, <2>4, SystemAssumption
  <2> QED
    BY <2>3, <2>4
<1> QED
  BY <1>2, <1>3, <1>4, <1>6, <1>7, <1>10, <1>11, <1>12, <1>13, <1>14, <1>15, <1>16, <1>17,
     <1>18, <1>19 DEF TypeOK

\* All of it.
LEMMA ClkKeeps ==
  ASSUME IInv, Clk
  PROVE  IInv'
<1>1. PICK ap_start \in BOOLEAN, gives \in BOOLEAN, accepts \in BOOLEAN, finishes \in BOOLEAN :
        Edge(ap_start, gives, accepts, finishes)
  BY DEF Clk, Edge
<1>2. TypeOK' /\ Shapes'
  BY <1>1, ClkTypes, ClkShapes
<1>3. Idle'
  <2>1. UNCHANGED <<running, x, since, o_val>>
    BY <1>1, ClkLeaves
  <2> QED
    BY <2>1 DEF IInv, Idle
<1>4. Chain' /\ Cleared'
  BY <1>1, ClkChain, ClkCleared
<1>5. Staged' /\ Receiving' /\ Computing' /\ Sending'
  BY <1>1, ClkStaged, ClkReceiving, ClkComputing, ClkSending
<1>6. Inlet' /\ Outlet' /\ Results'
  <2>1. CASE ~ready'
    BY <2>1 DEF Inlet, Outlet, Results
  <2>2. CASE ready' /\ ~ready
    BY <1>1, <2>2, ClkComesUp
  <2>3. CASE ready' /\ ready
    BY <1>1, <2>3, ClkInlet, ClkOutlet, ClkResults
  <2> QED
    BY <2>1, <2>2, <2>3
<1> QED
  BY <1>2, <1>3, <1>4, <1>5, <1>6 DEF IInv

-----------------------------------------------------------------------------
(***************************************************************************)
(* Theorems.                                                               *)
(***************************************************************************)
\* In reset nothing is under way, whatever the squarer's side holds.
LEMMA Starts0 ==
  Init => IInv
<1> SUFFICES ASSUME Init PROVE IInv
  OBVIOUS
<1> USE DEF Init, MsuInit, WrapperInit, SquarerInit, Promise!PromiseInit
<1>1. /\ reset_1d = TRUE /\ ready = FALSE /\ status = "idle" /\ state = "INIT"
      /\ running = FALSE /\ fifo_in = AllEmpty /\ fifo_out = AllEmpty
  OBVIOUS
<1>2. 0 \in Counts
  BY PowerOfTwo DEF Counts
<1>3. TypeOK
  <2>1. reset_1d \in BOOLEAN /\ final_iteration_r \in BOOLEAN /\ state \in MsuStates
    BY DEF MsuStates
  <2>2. t_current \in Counts /\ t_final \in Counts /\ axi_out_count \in 0 .. AXI_OUT_COUNT
    BY <1>2 DEF AXI_OUT_COUNT
  <2>3. Len(axi_in) = AXI_IN_COUNT /\ Len(axi_out) = AXI_OUT_COUNT
    BY DEF AXI_IN_COUNT, AXI_OUT_COUNT
  <2>4. {locked, locked_d, ready, o_ready, reset_cdc1, running, o_val} \subseteq BOOLEAN
    OBVIOUS
  <2>5. clk_gap \in 0 .. MaxRatio /\ rst_busy \in 0 .. FifoResetEdges
    BY WrapperAssumption
  <2>6. reset_cdc0 \in [1 .. 4 -> BOOLEAN]
    BY ResetBits
  <2>7. fifo_in_val \in BOOLEAN \X BOOLEAN /\ fifo_out_val \in BOOLEAN \X BOOLEAN
    OBVIOUS
  <2>8. since \in 0 .. MaxGap - 1
    BY GapAssumption
  <2>9. \A l \in Lanes : Len(fifo_in[l]) <= 1 /\ Len(fifo_out[l]) <= 2
    BY FewWords
  <2>10. /\ status \in {"idle", "busy", "done", "abandoned"}
         /\ request.job \in 0 .. MaxJobs /\ offered \in 0 .. AXI_IN_COUNT
         /\ Len(answer) <= AXI_OUT_COUNT
    BY SystemAssumption DEF AXI_IN_COUNT, AXI_OUT_COUNT
  <2>11. reset_left \in 0 .. ResetEdges /\ resets \in 0 .. MaxResets
    BY SystemAssumption
  <2> QED
    BY <2>1, <2>2, <2>3, <2>4, <2>5, <2>6, <2>7, <2>8, <2>9, <2>10, <2>11 DEF TypeOK
<1>4. Shapes
  BY <1>2, SystemAssumption DEF Shapes
<1>5. Idle
  BY DEF Idle
<1>6. Chain
  BY DEF Chain
<1>7. Cleared
  BY WrapperAssumption DEF Cleared
<1>8. Staged /\ Receiving /\ Computing /\ Sending
  BY <1>1 DEF Staged, Receiving, Computing, Sending, Final
<1>9. Inlet /\ Outlet /\ Results
  BY <1>1 DEF Inlet, Outlet, Results
<1> QED
  BY <1>3, <1>4, <1>5, <1>6, <1>7, <1>8, <1>9 DEF IInv

\* What is on its way between msu and the squarer comes in order and in time:
\* the reset of a finished job before the input of the next one, every result
\* before the FIFO holds another and before the next START.
THEOREM CrossingKeepsTime == Spec => []IInv
<1>1. ASSUME IInv, [Next]_vars
      PROVE  IInv'
  <2>1. CASE Clk
    BY <1>1, <2>1, ClkKeeps
  <2>2. CASE ClkInt
    BY <1>1, <2>2, IntKeeps
  <2>3. CASE MmcmLocks
    BY <1>1, <2>3, LockKeeps
  <2>4. CASE UNCHANGED vars
    BY <1>1, <2>4, NothingChanges
  <2> QED
    BY <1>1, <2>1, <2>2, <2>3, <2>4 DEF Next
<1> QED
  BY <1>1, Starts0, PTL DEF Spec

\* The types of the three parts and the kernel.
THEOREM TypesHold == Spec => []TypeOK
<1>1. IInv => TypeOK
  BY DEF IInv
<1> QED
  BY <1>1, CrossingKeepsTime, PTL

\* Each result that advances t_current is the next square of this job's
\* input, whole (msu.sv, t_current).
THEOREM EveryResultIsNext == Spec => []CountedResultIsNext
<1>1. ASSUME IInv
      PROVE  CountedResultIsNext
  <2> SUFFICES ASSUME state = "COMPUTE", sq_finished, ~reset_1d, status = "busy"
               PROVE  sq_out = Value(request.job,
                                     Wrapped(t_current + 2^T_LEN - request.t_start) + 1)
    BY DEF CountedResultIsNext
  <2> QED
    BY <1>1, ResultIsNext DEF Result, Counted
<1> QED
  BY <1>1, CrossingKeepsTime, PTL

\* The squarer is at rest and out of reset when the input arrives.
THEOREM StartIsNotLost == Spec => StartTakesHold
<1>1. ASSUME IInv, [Next]_vars
      PROVE  [ClkInt /\ fifo_in_val[2] /\ ready => ~running /\ running']_vars
  <2> SUFFICES ASSUME ClkInt, fifo_in_val[2], ready
               PROVE  ~running /\ running'
    OBVIOUS
  <2>1. fifo_in_val # <<FALSE, FALSE>> /\ fifo_in_val # <<TRUE, FALSE>>
    <3>1. \A b : fifo_in_val = <<b, FALSE>> => ~fifo_in_val[2]
      OBVIOUS
    <3> QED
      BY <3>1
  <2>2. Inlet
    BY <1>1 DEF IInv
  <2>3. state = "COMPUTE"
    BY <2>1, <2>2 DEF Inlet, Quiet
  <2>4. ~Crossing /\ ~Fetching(<<TRUE, FALSE>>, fifo_in_reg) /\ ~Squaring
    BY <2>1 DEF Quiet, Crossing, Fetching, Squaring
  <2>5. Fetching(<<FALSE, TRUE>>, mont_in)
    BY <2>2, <2>3, <2>4 DEF Inlet
  <2>6. ~running /\ ~reset_cdc1
    BY <2>5 DEF Fetching, Unfed
  <2>7. ~reset_cdc1'
    <3>1. \A i \in 1 .. 4 : ~reset_cdc0[i]
      BY <2>2, <2>3 DEF Inlet
    <3> QED
      BY <1>1, <3>1, IntReady
  <2>8. Feed(Assembled(mont_in))
    BY <1>1, <2>6, <2>7, IntReady DEF SquarerEdge
  <2> QED
    BY <2>6, <2>8 DEF Feed
<1> QED
  BY <1>1, CrossingKeepsTime, PTL DEF Spec, StartTakesHold

\* A beat of the answer offered and not accepted stays as it is (AXI4-Stream).
THEOREM OfferedBeatStays == Spec => OfferedBeatIsHeld
<1>1. ASSUME IInv, [Next]_vars, m_axis_tvalid, ~reset_1d
      PROVE  \/ m_axis_tvalid' /\ m_axis_tdata' = m_axis_tdata /\ m_axis_tlast' = m_axis_tlast
             \/ answer' = Append(answer, m_axis_tdata)
  <2>1. state = "SEND" /\ axi_out_count < AXI_OUT_COUNT
    BY <1>1 DEF m_axis_tvalid
  <2>2. status = "busy"
    BY <1>1, <2>1 DEF IInv, Staged
  <2>3. CASE UNCHANGED <<state, axi_out, axi_out_count>>
    BY <2>1, <2>3 DEF m_axis_tvalid, m_axis_tdata, m_axis_tlast
  <2>4. CASE Clk
    <3>1. PICK ap_start \in BOOLEAN, gives \in BOOLEAN, accepts \in BOOLEAN,
               finishes \in BOOLEAN : Edge(ap_start, gives, accepts, finishes)
      BY <2>4 DEF Clk, Edge
    <3>2. ~ap_start
      BY <1>1, <2>2, <3>1, KernelActs
    <3>3. CASE accepts
      BY <1>1, <3>1, <3>2, <3>3, KernelActs DEF Kernel
    <3>4. CASE ~accepts
      <4>1. ~FinalIteration(sq_finished)
        BY <1>1, <2>1, <2>2, NotAgain
      <4>2. axi_out' = axi_out /\ axi_out_count' = axi_out_count
        BY <1>1, <3>1, <3>4, <4>1, ClkSends
      <4>3. state' = NextState(ap_start, gives /\ offered + 1 = 3, accepts)
        BY <1>1, <3>1, KernelActs
      <4>4. state' = "SEND"
        BY <2>1, <3>4, <4>3 DEF NextState
      <4> QED
        BY <2>1, <2>3, <4>2, <4>4
    <3> QED
      BY <3>3, <3>4
  <2>5. ClkInt \/ MmcmLocks \/ UNCHANGED vars => UNCHANGED <<state, axi_out, axi_out_count>>
    BY DEF ClkInt, MmcmLocks, vars, msu_vars
  <2> QED
    BY <1>1, <2>3, <2>4, <2>5 DEF Next
<1>2. IInv /\ [Next]_vars =>
        [m_axis_tvalid /\ ~reset_1d =>
           \/ m_axis_tvalid' /\ m_axis_tdata' = m_axis_tdata /\ m_axis_tlast' = m_axis_tlast
           \/ answer' = Append(answer, m_axis_tdata)]_vars
  BY <1>1
<1> QED
  BY <1>2, CrossingKeepsTime, PTL DEF Spec, OfferedBeatIsHeld

\* What a step of the system is in MsuPromise: a request, a beat of it taken, a
\* beat of the answer sent, the end of the job, or nothing.
LEMMA ClkIsPromised ==
  ASSUME IInv, Clk
  PROVE  [Promise!PromiseNext]_Promise!promise_vars
<1>1. PICK ap_start \in BOOLEAN, gives \in BOOLEAN, accepts \in BOOLEAN, finishes \in BOOLEAN :
        Edge(ap_start, gives, accepts, finishes)
  BY DEF Clk, Edge
<1>2. Kernel(ap_start, gives, accepts, finishes)
  BY <1>1, KernelActs
<1>3. CASE ap_start
  BY <1>2, <1>3 DEF Kernel, Promise!PromiseNext
<1>4. CASE ~ap_start
  <2>1. /\ status' = (IF reset /\ status = "busy" THEN "abandoned"
                      ELSE IF finishes THEN "done" ELSE status)
        /\ offered' = IF gives THEN offered + 1 ELSE offered
        /\ answer' = IF accepts THEN Append(answer, axi_out[1]) ELSE answer
        /\ request' = request
    BY <1>2, <1>4 DEF Kernel, m_axis_tdata
  <2>2. /\ gives => status = "busy" /\ state = "RECV" /\ ~reset /\ offered < 3
        /\ accepts => status = "busy" /\ state = "SEND" /\ ~reset /\ axi_out_count < 3
        /\ finishes => status = "busy" /\ state \in {"IDLE", "INIT"} /\ ~reset
    BY <1>1, KernelActs
  <2>3. CASE reset /\ status = "busy"
    <3>1. ~gives /\ ~accepts
      BY <2>2, <2>3
    <3>2. Promise!Abandon
      BY <2>1, <2>3, <3>1 DEF Promise!Abandon
    <3> QED
      BY <3>2 DEF Promise!PromiseNext
  <2>4. CASE gives
    <3>1. ~accepts /\ ~finishes /\ ~reset
      BY <2>2, <2>4
    <3>2. Len(Promise!RequestBeats(request)) = 3
      BY DEF Promise!RequestBeats
    <3>3. Promise!TakeBeat
      BY <2>1, <2>2, <2>4, <3>1, <3>2 DEF Promise!TakeBeat
    <3> QED
      BY <3>3 DEF Promise!PromiseNext
  <2>5. CASE accepts
    <3>1. ~gives /\ ~finishes /\ ~reset /\ status = "busy" /\ state = "SEND"
      BY <2>2, <2>5
    <3>2. Len(Promise!RequestBeats(request)) = 3 /\ Len(Promise!AnswerBeats(request)) = 3
      BY DEF Promise!RequestBeats, Promise!AnswerBeats
    <3>3. /\ offered = 3
          /\ \/ answer = <<>> /\ axi_out = Answered
             \/ answer = <<Answered[1]>> /\ axi_out[1] = Answered[2]
             \/ answer = <<Answered[1], Answered[2]>> /\ axi_out[1] = Answered[3]
      BY <3>1 DEF IInv, Sending
    <3>4. Len(answer) < 3 /\ axi_out[1] = Answered[Len(answer) + 1]
      <4>1. \A p, q : Len(<<p>>) = 1 /\ Len(<<p, q>>) = 2
        OBVIOUS
      <4>2. CASE answer = <<>> /\ axi_out = Answered
        BY <4>2
      <4>3. CASE answer = <<Answered[1]>> /\ axi_out[1] = Answered[2]
        <5>1. Len(answer) = 1
          BY <4>1, <4>3
        <5> QED
          BY <4>3, <5>1
      <4>4. CASE answer = <<Answered[1], Answered[2]>> /\ axi_out[1] = Answered[3]
        <5>1. Len(answer) = 2
          BY <4>1, <4>4
        <5> QED
          BY <4>4, <5>1
      <4> QED
        BY <3>3, <4>2, <4>3, <4>4
    <3>5. answer' = Append(answer, Promise!AnswerBeats(request)[Len(answer) + 1])
      BY <2>1, <2>5, <3>4 DEF Answered
    <3>6. Promise!SendBeat
      BY <2>1, <3>1, <3>2, <3>3, <3>4, <3>5 DEF Promise!SendBeat
    <3> QED
      BY <3>6 DEF Promise!PromiseNext
  <2>6. CASE finishes
    <3>1. ~gives /\ ~accepts /\ ~reset /\ status = "busy"
      BY <2>2, <2>6
    <3>2. answer = Answered
      BY <2>2, <2>6 DEF IInv, Sending
    <3>3. Promise!Finish
      BY <2>1, <2>6, <3>1, <3>2 DEF Promise!Finish, Answered
    <3> QED
      BY <3>3 DEF Promise!PromiseNext
  <2>7. CASE ~gives /\ ~accepts /\ ~finishes /\ ~(reset /\ status = "busy")
    BY <2>1, <2>7 DEF Promise!promise_vars
  <2> QED
    BY <2>3, <2>4, <2>5, <2>6, <2>7
<1> QED
  BY <1>3, <1>4

\* The answer is the one MsuPromise asks for, beat by beat, and no beat leaves
\* before the request is complete: MsuSystem implements MsuPromise.
THEOREM PromiseIsKept == Spec => KeepsPromise
<1>1. Init => Promise!PromiseInit
  BY DEF Init
<1>2. ASSUME IInv, [Next]_vars
      PROVE  [Promise!PromiseNext]_Promise!promise_vars
  <2>1. CASE Clk
    BY <1>2, <2>1, ClkIsPromised
  <2>2. ClkInt \/ MmcmLocks \/ UNCHANGED vars => UNCHANGED Promise!promise_vars
    BY DEF ClkInt, MmcmLocks, vars, kernel_vars, Promise!promise_vars
  <2> QED
    BY <1>2, <2>1, <2>2 DEF Next
<1> QED
  BY <1>1, <1>2, CrossingKeepsTime, PTL DEF Spec, KeepsPromise, Promise!PromiseSpec
=============================================================================
