------------------------ MODULE AxiReadSystem_proofs ------------------------
(***************************************************************************)
(* For any widths, depth, sizes, addresses and pace of the user and of the *)
(* bus: the FIFO of the read master never overflows, an address that is    *)
(* offered is held, and every transfer's beats are streamed once and in    *)
(* order, done coming once, when all have arrived.                         *)
(*                                                                         *)
(* The invariant says of each burst asked for which one of the transfer it *)
(* is, of each beat in the FIFO which one the user expects, and how the    *)
(* three counters of bursts tell the same story.                           *)
(***************************************************************************)
EXTENDS AxiReadSystem, AxiParts_proofs, SequenceTheorems

\* Arithmetic that the provers do not know.
ASSUME PowersOfTwo ==
  \A w \in {LP_LOG_BURST_LEN, LP_TRANSACTION_CNTR_WIDTH, LP_OUTSTANDING_CNTR_WIDTH} :
    2^w \in Nat /\ 2^w >= 1 /\ (w > 0 => 2^w >= 2)

\* The FIFO is as deep as the bursts that may be outstanding are long
\* (vdf_axi_read_master.sv:172).
ASSUME DepthAssumption == LP_AXI_BURST_LEN * C_MAX_OUTSTANDING <= LP_FIFO_DEPTH

\* The registers that a reset does not reach follow it in two edges.
ASSUME ResetAssumption == ResetEdges > 1

\* The counters of bursts hold every transfer's.
LastBeat(bytes) ==
  IF bytes % LP_DW_BYTES > 0 THEN bytes \div LP_DW_BYTES ELSE (bytes \div LP_DW_BYTES) - 1
ASSUME SizesFit ==
  \A bytes \in Sizes : LastBeat(bytes) \div LP_AXI_BURST_LEN < 2^LP_TRANSACTION_CNTR_WIDTH

-----------------------------------------------------------------------------
ReadBeat == [addr : Nat, last : BOOLEAN]
Burst    == [addr : Nat, len : 0 .. LP_AXI_BURST_LEN - 1]

Registers ==
  /\ {done, start_d1, start, ar_idle, arvalid_r} \subseteq BOOLEAN
  /\ total_len_r \in Nat /\ num_transactions < 2^LP_TRANSACTION_CNTR_WIDTH
  /\ addr_offset_r \in Nat /\ addr \in Nat
  /\ final_burst_len \in 0 .. LP_AXI_BURST_LEN - 1
  /\ Sound(ar_transaction_cntr, LP_TRANSACTION_CNTR_WIDTH)
  /\ Sound(r_transaction_cntr, LP_TRANSACTION_CNTR_WIDTH)
  /\ Sound(ar_to_r_cntr, LP_OUTSTANDING_CNTR_WIDTH)

Around ==
  /\ status \in {"idle", "busy", "done", "abandoned"} /\ size \in Nat
  /\ reset_left \in 0 .. ResetEdges
  /\ fifo \in Seq(Entries(ReadBeat)) /\ expected \in Seq(ReadBeat)
  /\ asked \in Seq(Burst) /\ returned \in 0 .. LP_AXI_BURST_LEN - 1

\* A beat in the FIFO waits no longer than the FIFO's delay.
Waits == \A i \in 1 .. Len(fifo) : \E d \in FifoDelays : fifo[i].wait <= d

\* The FIFO holds the first of the beats that the user expects.
Stream ==
  /\ Len(fifo) <= Len(expected)
  /\ \A i \in 1 .. Len(fifo) : fifo[i].beat = expected[i]

\* ends[i] bursts end in the FIFO after its i-th beat.
Ending(ends) ==
  /\ ends \in [0 .. Len(fifo) -> Nat] /\ ends[Len(fifo)] = 0
  /\ \A i \in 1 .. Len(fifo) :
       ends[i - 1] = ends[i] + (IF fifo[i].beat.last THEN 1 ELSE 0)

\* A burst takes a place until its last beat is streamed; what follows the
\* i-th beat is whole bursts, none of them longer than a full one, and the
\* beats returned of the next.
Vacancy ==
  /\ \E ends :
       /\ Ending(ends)
       /\ ends[0] + Len(asked) + ar_to_r_cntr.count = C_MAX_OUTSTANDING
       /\ \A i \in 0 .. Len(fifo) : Len(fifo) - i <= LP_AXI_BURST_LEN * ends[i] + returned
  /\ arvalid_r => ar_to_r_cntr.count > 0

-----------------------------------------------------------------------------
\* The books of a transfer, in beats and bursts still to go.
Total    == total_len_r + 1
LastLen  == total_len_r % LP_AXI_BURST_LEN
ToAsk    == IF ar_idle THEN 0 ELSE ar_transaction_cntr.count + 1
ToReturn == IF done THEN 0 ELSE r_transaction_cntr.count + 1
ToCome   == IF ToReturn = 0 THEN 0
            ELSE (ToReturn - 1) * LP_AXI_BURST_LEN + LastLen + 1 - returned

\* The burst with which, itself included, so many are to go; the n-th beat.
BurstOf(togo) ==
  [addr |-> addr_offset_r + (num_transactions + 1 - togo) * BurstBytes,
   len  |-> IF togo = 1 THEN LastLen ELSE LP_AXI_BURST_LEN - 1]
BeatOf(n) ==
  [addr |-> addr_offset_r + (n - 1) * LP_DW_BYTES,
   last |-> n % LP_AXI_BURST_LEN = 0 \/ n = Total]

\* Beyond what the FIFO holds the user expects the last beats of the transfer.
Awaits(left) ==
  /\ Beats(size) = Total /\ left \in 0 .. Total
  /\ Len(expected) = Len(fifo) + left
  /\ \A j \in 1 .. left : expected[Len(fifo) + j] = BeatOf(Total - left + j)

AddressBooks ==
  /\ final_burst_len = LastLen
  /\ arvalid_r => ~ar_idle
  /\ ~ar_idle => addr = BurstOf(ToAsk).addr

DataBooks ==
  /\ ToAsk <= ToReturn /\ ToReturn <= num_transactions + 1
  /\ Len(asked) = ToReturn - ToAsk
  /\ \A i \in 1 .. Len(asked) : asked[i] = BurstOf(ToReturn - i + 1)
  /\ IF asked = <<>> THEN returned = 0 ELSE returned <= asked[1].len
  /\ Awaits(ToCome)

-----------------------------------------------------------------------------
\* The phases.
Idle  == ar_idle /\ ~arvalid_r /\ ~done /\ asked = <<>> /\ returned = 0
Quiet == status # "busy" /\ ~start_d1 /\ ~start /\ Idle /\ Len(expected) = Len(fifo)

Starting ==
  /\ status = "busy" /\ (start_d1 <=> ~start) /\ Idle
  /\ start => final_burst_len = LastLen
  /\ Awaits(Total)

Active == status = "busy" /\ ~start_d1 /\ ~start /\ AddressBooks /\ DataBooks

\* From the second edge of a reset on.
Resetting ==
  /\ reset_left \in 1 .. ResetEdges - 1
  /\ status # "busy" /\ ~start_d1 /\ Idle /\ Len(expected) = Len(fifo)

Phase ==
  \/ (Quiet \/ Starting \/ Active) /\ reset_left \in {0, ResetEdges}
  \/ Resetting

IInv == Registers /\ Around /\ Waits /\ Stream /\ Vacancy /\ Phase

-----------------------------------------------------------------------------
(***************************************************************************)
(* Arithmetic.                                                             *)
(***************************************************************************)
\* What the assumptions say of the constants.
LEMMA Widths ==
  /\ LP_AXI_BURST_LEN \in Nat /\ LP_AXI_BURST_LEN >= 1
  /\ 2^LP_LOG_BURST_LEN = LP_AXI_BURST_LEN
  /\ 2^LP_TRANSACTION_CNTR_WIDTH \in Nat /\ 2^LP_TRANSACTION_CNTR_WIDTH >= 2
  /\ 2^LP_OUTSTANDING_CNTR_WIDTH \in Nat /\ 2^LP_OUTSTANDING_CNTR_WIDTH >= 2
  /\ C_MAX_OUTSTANDING \in Nat \ {0} /\ C_MAX_OUTSTANDING < 2^LP_OUTSTANDING_CNTR_WIDTH
  /\ LP_DW_BYTES \in Nat \ {0} /\ BurstBytes \in Nat \ {0}
  /\ BurstBytes = LP_DW_BYTES * LP_AXI_BURST_LEN
  /\ LP_FIFO_DEPTH \in Nat
  /\ ResetEdges \in Nat /\ ResetEdges > 1
<1>1. /\ 2^LP_LOG_BURST_LEN \in Nat /\ 2^LP_LOG_BURST_LEN >= 1
      /\ 2^LP_TRANSACTION_CNTR_WIDTH \in Nat
      /\ LP_TRANSACTION_CNTR_WIDTH > 0 => 2^LP_TRANSACTION_CNTR_WIDTH >= 2
      /\ 2^LP_OUTSTANDING_CNTR_WIDTH \in Nat
      /\ LP_OUTSTANDING_CNTR_WIDTH > 0 => 2^LP_OUTSTANDING_CNTR_WIDTH >= 2
  BY PowersOfTwo, Zenon
<1>2. /\ LP_TRANSACTION_CNTR_WIDTH > 0 /\ LP_OUTSTANDING_CNTR_WIDTH > 0
      /\ C_MAX_OUTSTANDING \in Nat \ {0} /\ C_MAX_OUTSTANDING < 2^LP_OUTSTANDING_CNTR_WIDTH
      /\ LP_DW_BYTES \in Nat \ {0}
  BY MasterAssumption
<1>3. LP_AXI_BURST_LEN \in Nat /\ LP_AXI_BURST_LEN >= 1
  BY <1>1, Zenon DEF LP_AXI_BURST_LEN
<1>4. BurstBytes \in Nat \ {0}
  BY <1>2, <1>3 DEF BurstBytes
<1>5. ResetEdges \in Nat /\ ResetEdges > 1 /\ LP_FIFO_DEPTH \in Nat
  BY UserAssumption, ResetAssumption, FifoAssumption
<1> QED
  BY <1>1, <1>2, <1>3, <1>4, <1>5 DEF LP_AXI_BURST_LEN, BurstBytes

\* The number of the last beat, and of the last burst, of a transfer that may
\* be asked for.
LEMMA LastBeatFits ==
  ASSUME NEW bytes \in Sizes
  PROVE  /\ LastBeat(bytes) \in Nat /\ Beats(bytes) = LastBeat(bytes) + 1
         /\ LastBeat(bytes) \div LP_AXI_BURST_LEN < 2^LP_TRANSACTION_CNTR_WIDTH
<1> DEFINE D == LP_DW_BYTES
           q == bytes \div D
           r == bytes % D
<1>1. bytes \in Nat /\ bytes >= 1 /\ D \in Nat \ {0}
  BY UserAssumption, Widths
<1>2. bytes = D * q + r /\ q \in Nat /\ r \in 0 .. D - 1
  BY <1>1
<1> HIDE DEF q, r, D
<1>3. D * q = q * D /\ (q + 1) * D = q * D + D /\ q * D \in Nat
  BY <1>1, <1>2
<1>4. CASE r > 0
  <2>1. bytes + D - 1 = (q + 1) * D + (r - 1) /\ r - 1 \in 0 .. D - 1
    BY <1>1, <1>2, <1>3, <1>4
  <2>2. (bytes + D - 1) \div D = q + 1
    BY <1>1, <1>2, <2>1, Division
  <2> QED
    BY <1>2, <1>4, <2>2, SizesFit DEF LastBeat, Beats, q, r, D
<1>5. CASE r = 0
  <2>1. q # 0
    BY <1>1, <1>2, <1>3, <1>5
  <2>2. bytes + D - 1 = q * D + (D - 1) /\ D - 1 \in 0 .. D - 1
    BY <1>1, <1>2, <1>3, <1>5
  <2>3. (bytes + D - 1) \div D = q
    BY <1>1, <1>2, <2>2, Division
  <2>4. LastBeat(bytes) = q - 1 /\ Beats(bytes) = q
    BY <1>5, <2>3 DEF LastBeat, Beats, q, r, D
  <2> QED
    BY <1>2, <2>1, <2>4, SizesFit
<1> QED
  BY <1>2, <1>4, <1>5

\* No bytes, no beats.
LEMMA NoBeats == Beats(0) = 0
<1>1. LP_DW_BYTES \in Nat \ {0}
  BY Widths
<1>2. (0 * LP_DW_BYTES + (LP_DW_BYTES - 1)) \div LP_DW_BYTES = 0
  BY <1>1, Division
<1> QED
  BY <1>1, <1>2 DEF Beats

\* The lengths of a transfer that the counters hold.
LEMMA Lengths ==
  ASSUME Registers
  PROVE  /\ Total \in Nat \ {0} /\ LastLen \in 0 .. LP_AXI_BURST_LEN - 1
         /\ num_transactions \in 0 .. 2^LP_TRANSACTION_CNTR_WIDTH - 1
         /\ Total = num_transactions * LP_AXI_BURST_LEN + LastLen + 1
<1>1. total_len_r \in Nat /\ LP_AXI_BURST_LEN \in Nat \ {0}
  BY Widths DEF Registers
<1>2. /\ total_len_r = LP_AXI_BURST_LEN * num_transactions + LastLen
      /\ LastLen \in 0 .. LP_AXI_BURST_LEN - 1 /\ num_transactions \in Nat
  BY <1>1 DEF num_transactions, LastLen
<1>3. LP_AXI_BURST_LEN * num_transactions = num_transactions * LP_AXI_BURST_LEN
  BY <1>1, <1>2
<1> QED
  BY <1>1, <1>2, <1>3, Widths DEF Total, Registers

-----------------------------------------------------------------------------
(***************************************************************************)
(* An edge, with each choice named.                                        *)
(***************************************************************************)
Given(rvalid) == IF rvalid THEN Returns ELSE [addr |-> 0, last |-> FALSE]
Inputs(arready, rvalid) == [arready |-> arready, rvalid |-> rvalid, r |-> Given(rvalid)]

Step(ctrl, takes, arready, rvalid) ==
  /\ takes \in BOOLEAN /\ arready \in BOOLEAN /\ rvalid \in BOOLEAN
  /\ takes => m_axis_tvalid
  /\ arready => arvalid_r
  /\ rvalid => ~areset /\ asked # <<>>
  /\ ctrl \in IF areset THEN {NoCtrl} ELSE Ctrls
  /\ Edge(ctrl, takes, Inputs(arready, rvalid))

\* The last beat of a burst is returned, or streamed.
Whole(rvalid)  == rvalid /\ returned = Head(asked).len
Streams(takes) == takes /\ m_axis_beat.last

\* What the parts of the system do.
LEMMA Parts ==
  ASSUME NEW ctrl, NEW takes, NEW arready, NEW rvalid, Step(ctrl, takes, arready, rvalid),
         NEW r, r = Given(rvalid)
  PROVE  /\ Request(ctrl.start, ctrl.size, ctrl.offset)
         /\ Address(areset, arready, takes)
         /\ done' \in BOOLEAN /\ (done' <=> rvalid /\ r.last /\ r_transaction_cntr.is_zero)
         /\ fifo' \in AfterEdge(fifo, areset, takes, rvalid, r)
         /\ r_transaction_cntr' = ToGo(r_transaction_cntr, areset, rvalid /\ r.last)
         /\ ~areset => User(ctrl, takes) /\ Bus([arready |-> arready, rvalid |-> rvalid, r |-> r])
         /\ areset => Reset /\ reset_left' = reset_left - 1
         /\ ~areset => UNCHANGED reset_left \/ reset_left' = ResetEdges
<1> DEFINE bus == [arready |-> arready, rvalid |-> rvalid, r |-> r]
<1>1. Edge(ctrl, takes, bus)
  BY DEF Step, Inputs
<1>2. bus.arready = arready /\ bus.rvalid = rvalid /\ bus.r = r
  OBVIOUS
<1> HIDE DEF bus
<1>3. Address(areset, bus.arready, takes) /\ Data(areset, bus, takes)
      /\ Request(ctrl.start, ctrl.size, ctrl.offset)
  BY <1>1 DEF Edge, ReadMasterClk
<1>4. /\ ~areset => User(ctrl, takes) /\ Bus(bus)
      /\ areset => Reset /\ reset_left' = reset_left - 1
      /\ ~areset => UNCHANGED reset_left \/ reset_left' = ResetEdges
  BY <1>1, Zenon DEF Edge
<1>5. /\ done' \in BOOLEAN
      /\ done' <=> bus.rvalid /\ bus.r.last /\ r_transaction_cntr.is_zero
  BY <1>3, Zenon DEF Data, Done
<1>6. /\ fifo' \in AfterEdge(fifo, areset, takes, bus.rvalid, bus.r)
      /\ r_transaction_cntr' = ToGo(r_transaction_cntr, areset, bus.rvalid /\ bus.r.last)
  BY <1>3 DEF Data
<1> QED
  BY <1>2, <1>3, <1>4, <1>5, <1>6 DEF bus

\* A control input is a start only for a user that has nothing under way.
LEMMA Controls ==
  ASSUME NEW ctrl, ctrl \in IF areset THEN {NoCtrl} ELSE Ctrls
  PROVE  /\ ctrl.start \in BOOLEAN
         /\ ctrl.start => ~areset /\ status # "busy"
                        /\ ctrl.size \in Sizes /\ ctrl.offset \in Offsets
<1>1. CASE ctrl = NoCtrl
  BY <1>1 DEF NoCtrl
<1>2. CASE ctrl # NoCtrl
  <2>1. ~areset /\ status # "busy" /\ ctrl \in [start : {TRUE}, size : Sizes, offset : Offsets]
    BY <1>2 DEF Ctrls
  <2> QED
    BY <2>1
<1> QED
  BY <1>1, <1>2

\* The beat that the bus returns.
LEMMA Returned ==
  ASSUME Around, asked # <<>>
  PROVE  /\ Head(asked) = asked[1] /\ asked[1] \in Burst /\ Len(asked) \in Nat \ {0}
         /\ Returns \in ReadBeat /\ (Returns.last <=> returned = asked[1].len)
         /\ Returns.addr = asked[1].addr + returned * LP_DW_BYTES
<1>1. Head(asked) = asked[1] /\ asked[1] \in Burst /\ Len(asked) \in Nat \ {0}
  BY DEF Around
<1>2. returned \in Nat /\ LP_DW_BYTES \in Nat
  BY Widths DEF Around
<1>3. returned * LP_DW_BYTES \in Nat
  BY <1>2
<1>4. asked[1].addr + returned * LP_DW_BYTES \in Nat
  BY <1>1, <1>3 DEF Burst
<1>5. PICK z \in BOOLEAN : z = (returned = Head(asked).len)
  OBVIOUS
<1>6. Returns = [addr |-> asked[1].addr + returned * LP_DW_BYTES, last |-> z]
  BY <1>1, <1>5 DEF Returns
<1> QED
  BY <1>1, <1>4, <1>5, <1>6 DEF ReadBeat

\* The flags and the address after an edge.
LEMMA FlagsEdge ==
  ASSUME Registers, Around, NEW ctrl, NEW takes, NEW arready, NEW rvalid,
         Step(ctrl, takes, arready, rvalid)
  PROVE  /\ start_d1' = ctrl.start /\ start' = start_d1
         /\ arvalid_r' <=> /\ ~areset
                           /\ \/ ~ar_idle /\ ~ar_to_r_cntr.is_zero /\ ~arvalid_r
                              \/ arvalid_r /\ ~arready
         /\ ar_idle' <=> areset \/ (~start /\ ((ar_transaction_cntr.is_zero /\ arready) \/ ar_idle))
         /\ done' <=> Whole(rvalid) /\ r_transaction_cntr.is_zero
         /\ {done, start_d1, start, ar_idle, arvalid_r}' \subseteq BOOLEAN
         /\ addr' = IF start THEN addr_offset_r
                    ELSE IF arready THEN addr + BurstBytes ELSE addr
         /\ final_burst_len' = LastLen
         /\ ctrl.start => /\ total_len_r' = LastBeat(ctrl.size)
                          /\ addr_offset_r' = ctrl.offset - (ctrl.offset % BurstBytes)
         /\ ~ctrl.start => UNCHANGED <<total_len_r, addr_offset_r>>
<1> DEFINE r == Given(rvalid)
<1>1. /\ Request(ctrl.start, ctrl.size, ctrl.offset)
      /\ Address(areset, arready, takes)
  BY Parts
<1>2. done' \in BOOLEAN /\ (done' <=> rvalid /\ r.last /\ r_transaction_cntr.is_zero)
  BY Parts
<1>3. rvalid => (r.last <=> returned = Head(asked).len)
  BY Returned DEF Step, Given
<1> HIDE DEF r
<1>4. (done' <=> Whole(rvalid) /\ r_transaction_cntr.is_zero) /\ done' \in BOOLEAN
  BY <1>2, <1>3, Zenon DEF Whole
<1>5. arready => arvalid_r
  BY DEF Step
<1>6. arready \in BOOLEAN /\ arvalid_r \in BOOLEAN /\ ar_idle \in BOOLEAN
  BY DEF Step, Registers
<1>7. /\ arvalid_r' <=> /\ ~areset
                        /\ \/ ~ar_idle /\ ~ar_to_r_cntr.is_zero /\ ~arvalid_r
                           \/ arvalid_r /\ ~arready
      /\ arvalid_r' \in BOOLEAN
  BY <1>1, Zenon DEF Address, ArValid
<1>8. /\ ar_idle' <=> areset \/ (~start /\ ((ar_transaction_cntr.is_zero /\ arready) \/ ar_idle))
      /\ ar_idle' \in BOOLEAN
  BY <1>1, <1>5, Zenon DEF Address, ArDone
<1>9. start_d1' = ctrl.start /\ start' = start_d1 /\ ctrl.start \in BOOLEAN
  BY <1>1, Controls DEF Request, Step
<1>10. start' \in BOOLEAN /\ start_d1' \in BOOLEAN
  BY <1>9 DEF Registers
<1>11. addr' = IF start THEN addr_offset_r
               ELSE IF arready THEN addr + BurstBytes ELSE addr
  BY <1>1, <1>5, <1>6 DEF Address
<1>12. /\ final_burst_len' = LastLen
       /\ ctrl.start => /\ total_len_r' = LastBeat(ctrl.size)
                        /\ addr_offset_r' = ctrl.offset - (ctrl.offset % BurstBytes)
       /\ ~ctrl.start => UNCHANGED <<total_len_r, addr_offset_r>>
  BY <1>1 DEF Request, LastLen, LastBeat
<1> QED
  BY <1>4, <1>7, <1>8, <1>9, <1>10, <1>11, <1>12

\* The counters after an edge that is not one of a reset.
LEMMA CountersEdge ==
  ASSUME Registers, Around, ~areset, NEW ctrl, NEW takes, NEW arready, NEW rvalid,
         Step(ctrl, takes, arready, rvalid)
  PROVE  /\ start => /\ ar_transaction_cntr' = Loaded(num_transactions)
                     /\ r_transaction_cntr' = Loaded(num_transactions)
         /\ ~start => /\ Turned(ar_transaction_cntr, ar_transaction_cntr',
                                LP_TRANSACTION_CNTR_WIDTH, FALSE, arready)
                      /\ Turned(r_transaction_cntr, r_transaction_cntr',
                                LP_TRANSACTION_CNTR_WIDTH, FALSE, Whole(rvalid))
         /\ Turned(ar_to_r_cntr, ar_to_r_cntr', LP_OUTSTANDING_CNTR_WIDTH,
                   Streams(takes), arready)
<1> DEFINE r == Given(rvalid)
           whole == rvalid /\ r.last
           arxfer == arvalid_r /\ arready
           streamed == m_axis_tvalid /\ takes /\ m_axis_beat.last
<1>1. /\ Address(areset, arready, takes)
      /\ r_transaction_cntr' = ToGo(r_transaction_cntr, areset, whole)
  BY Parts
<1>2. rvalid => (r.last <=> returned = Head(asked).len)
  BY Returned DEF Step, Given
<1> HIDE DEF r
<1>3. (arready => arvalid_r) /\ (takes => m_axis_tvalid)
  BY DEF Step
<1>4. /\ whole \in BOOLEAN /\ (whole <=> Whole(rvalid))
      /\ arxfer \in BOOLEAN /\ (arxfer <=> arready)
      /\ streamed \in BOOLEAN /\ (streamed <=> Streams(takes))
  BY <1>2, <1>3, Zenon DEF Whole, Streams
<1>5. /\ ar_transaction_cntr' = ToGo(ar_transaction_cntr, areset, arxfer)
      /\ ar_to_r_cntr' = Stepped(ar_to_r_cntr, LP_OUTSTANDING_CNTR_WIDTH, streamed, arxfer)
  BY <1>1 DEF Address
<1> HIDE DEF whole, arxfer, streamed
<1> USE DEF Registers
<1>6. CASE start
  <2>1. /\ ar_transaction_cntr' = Loaded(num_transactions)
        /\ r_transaction_cntr' = Loaded(num_transactions)
    BY <1>1, <1>5, <1>6 DEF ToGo
  <2>2. Turned(ar_to_r_cntr, ar_to_r_cntr', LP_OUTSTANDING_CNTR_WIDTH, streamed, arxfer)
    BY <1>4, <1>5, CounterSteps, Widths
  <2> QED
    BY <1>4, <1>6, <2>1, <2>2 DEF Turned
<1>7. CASE ~start
  <2>1. /\ ar_transaction_cntr' =
             Stepped(ar_transaction_cntr, LP_TRANSACTION_CNTR_WIDTH, FALSE, arxfer)
        /\ r_transaction_cntr' =
             Stepped(r_transaction_cntr, LP_TRANSACTION_CNTR_WIDTH, FALSE, whole)
    BY <1>1, <1>5, <1>7 DEF ToGo
  <2>2. /\ Turned(ar_transaction_cntr, ar_transaction_cntr',
                  LP_TRANSACTION_CNTR_WIDTH, FALSE, arxfer)
        /\ Turned(r_transaction_cntr, r_transaction_cntr',
                  LP_TRANSACTION_CNTR_WIDTH, FALSE, whole)
    BY <1>4, <2>1, CounterSteps, Widths
  <2>3. Turned(ar_to_r_cntr, ar_to_r_cntr', LP_OUTSTANDING_CNTR_WIDTH, streamed, arxfer)
    BY <1>4, <1>5, CounterSteps, Widths
  <2> QED
    BY <1>4, <1>7, <2>2, <2>3 DEF Turned
<1> QED
  BY <1>6, <1>7

\* The counters and the FIFO after an edge of a reset.
LEMMA CountersReset ==
  ASSUME areset, NEW ctrl, NEW takes, NEW arready, NEW rvalid,
         Step(ctrl, takes, arready, rvalid)
  PROVE  /\ ar_transaction_cntr' = Loaded(0) /\ r_transaction_cntr' = Loaded(0)
         /\ ar_to_r_cntr' = Loaded(C_MAX_OUTSTANDING) /\ fifo' = <<>>
<1> DEFINE r == Given(rvalid)
<1>1. /\ Address(areset, arready, takes)
      /\ r_transaction_cntr' = ToGo(r_transaction_cntr, areset, rvalid /\ r.last)
      /\ fifo' \in AfterEdge(fifo, areset, takes, rvalid, r)
  BY Parts
<1> HIDE DEF r
<1> QED
  BY <1>1 DEF Address, ToGo, AfterEdge

\* What is left of a sequence once its first elements may have left.
One(condition) == IF condition THEN 1 ELSE 0
Shifted(new, old, out) == \A i \in 1 .. Len(old) - out : new[i] = old[i + out]
LEMMA Left ==
  ASSUME NEW S, NEW s \in Seq(S), NEW takes \in BOOLEAN, takes => s # <<>>,
         NEW left, left = (IF takes THEN Tail(s) ELSE s)
  PROVE  /\ left \in Seq(S) /\ Len(left) = Len(s) - One(takes) /\ Len(left) \in Nat
         /\ Shifted(left, s, One(takes))
<1>1. CASE takes
  <2>1. s # <<>> /\ left = Tail(s) /\ One(takes) = 1
    BY <1>1 DEF One
  <2> QED
    BY <2>1 DEF Shifted
<1>2. CASE ~takes
  <2>1. left = s /\ One(takes) = 0 /\ Len(s) \in Nat
    BY <1>2 DEF One
  <2>2. \A i \in 1 .. Len(s) : i + 0 = i
    OBVIOUS
  <2> QED
    BY <2>1, <2>2 DEF Shifted
<1> QED
  BY <1>1, <1>2

\* One sequence after another.
LEMMA Joined ==
  ASSUME NEW S, NEW s \in Seq(S), NEW t \in Seq(S)
  PROVE  /\ s \o t \in Seq(S) /\ Len(s \o t) = Len(s) + Len(t)
         /\ \A i \in 1 .. Len(s) : (s \o t)[i] = s[i]
         /\ \A n \in 1 .. Len(t) : (s \o t)[Len(s) + n] = t[n]
<1>1. Len(s) \in Nat /\ Len(t) \in Nat
  OBVIOUS
<1>2. /\ s \o t \in Seq(S) /\ Len(s \o t) = Len(s) + Len(t)
      /\ \A i \in 1 .. Len(s) + Len(t) :
           (s \o t)[i] = IF i <= Len(s) THEN s[i] ELSE t[i - Len(s)]
  BY ConcatProperties
<1>3. \A i \in 1 .. Len(s) : i \in 1 .. Len(s) + Len(t) /\ i <= Len(s)
  BY <1>1
<1>4. \A n \in 1 .. Len(t) : /\ Len(s) + n \in 1 .. Len(s) + Len(t)
                             /\ Len(s) + n > Len(s) /\ (Len(s) + n) - Len(s) = n
  BY <1>1
<1>5. \A n \in 1 .. Len(t) : (s \o t)[Len(s) + n] = t[n]
  BY <1>1, <1>2, <1>4
<1> QED
  BY <1>2, <1>3, <1>5

\* The beats of a transfer that is asked for.
LEMMA WantedBeats ==
  ASSUME NEW bytes \in Sizes, NEW offset \in Offsets
  PROVE  /\ Wanted(bytes, offset) \in Seq(ReadBeat)
         /\ Len(Wanted(bytes, offset)) = Beats(bytes)
         /\ offset - (offset % BurstBytes) \in Nat
         /\ \A n \in 1 .. Beats(bytes) :
              Wanted(bytes, offset)[n] =
                [addr |-> offset - (offset % BurstBytes) + (n - 1) * LP_DW_BYTES,
                 last |-> n % LP_AXI_BURST_LEN = 0 \/ n = Beats(bytes)]
<1> DEFINE base == offset - (offset % BurstBytes)
           w == Wanted(bytes, offset)
           ends(n) == n % LP_AXI_BURST_LEN = 0 \/ n = Beats(bytes)
<1>1. Beats(bytes) \in Nat
  BY LastBeatFits
<1>2. base \in Nat
  BY UserAssumption, Widths
<1>3. w = [n \in 1 .. Beats(bytes) |-> [addr |-> base + (n - 1) * LP_DW_BYTES, last |-> ends(n)]]
  BY DEF Wanted
<1> HIDE DEF w, base
<1>4. \A n \in 1 .. Beats(bytes) : w[n] \in ReadBeat
  <2> TAKE n \in 1 .. Beats(bytes)
  <2>1. (n - 1) * LP_DW_BYTES \in Nat
    BY <1>1, Widths
  <2>2. base + (n - 1) * LP_DW_BYTES \in Nat
    BY <1>2, <2>1
  <2>3. ends(n) \in BOOLEAN
    OBVIOUS
  <2>4. w[n] = [addr |-> base + (n - 1) * LP_DW_BYTES, last |-> ends(n)]
    BY <1>3
  <2> HIDE DEF ends
  <2> QED
    BY <2>2, <2>3, <2>4 DEF ReadBeat
<1>5. w \in Seq(ReadBeat) /\ Len(w) = Beats(bytes)
  <2>1. w \in [1 .. Beats(bytes) -> ReadBeat]
    BY <1>3, <1>4
  <2> QED
    BY <1>1, <2>1
<1> QED
  BY <1>2, <1>3, <1>5 DEF w, base

\* The user after an edge that is not one of a reset.
LEMMA UserEdge ==
  ASSUME Around, Stream, ~areset, NEW ctrl, NEW takes, NEW arready, NEW rvalid,
         Step(ctrl, takes, arready, rvalid)
  PROVE  /\ reset_left' \in {0, ResetEdges} /\ size' \in Nat
         /\ status' \in {"idle", "busy", "done", "abandoned"}
         /\ expected' \in Seq(ReadBeat) /\ (takes => Len(fifo) >= 1)
         /\ Shifted(expected', expected, One(takes))
         /\ ctrl.start => /\ status' = "busy" /\ size' = ctrl.size
                          /\ Len(expected') = Len(expected) - One(takes) + Beats(ctrl.size)
                          /\ \A n \in 1 .. Beats(ctrl.size) :
                               expected'[Len(expected) - One(takes) + n] =
                                 Wanted(ctrl.size, ctrl.offset)[n]
         /\ ~ctrl.start => /\ status' = IF done THEN "done" ELSE status
                           /\ size' = size /\ Len(expected') = Len(expected) - One(takes)
<1> DEFINE left == IF takes THEN Tail(expected) ELSE expected
<1>1. User(ctrl, takes) /\ (UNCHANGED reset_left \/ reset_left' = ResetEdges)
  BY Parts
<1>2. takes \in BOOLEAN /\ (takes => fifo # <<>>)
  BY DEF Step, m_axis_tvalid, DataValid
<1>3. (takes => Len(fifo) >= 1) /\ Len(fifo) \in Nat
  BY <1>2 DEF Around
<1>4. takes => expected # <<>>
  BY <1>3 DEF Around, Stream
<1>5. /\ left \in Seq(ReadBeat) /\ Len(left) = Len(expected) - One(takes) /\ Len(left) \in Nat
      /\ Shifted(left, expected, One(takes))
  BY <1>2, <1>4, Left DEF Around
<1>6. reset_left' \in {0, ResetEdges}
  BY <1>1, Widths DEF areset, Around
<1>7. CASE ctrl.start
  <2>1. ctrl.size \in Sizes /\ ctrl.offset \in Offsets
    BY <1>7, Controls DEF Step
  <2> DEFINE w == Wanted(ctrl.size, ctrl.offset)
  <2>2. w \in Seq(ReadBeat) /\ Len(w) = Beats(ctrl.size) /\ Beats(ctrl.size) \in Nat
    BY <2>1, WantedBeats, LastBeatFits
  <2>3. status' = "busy" /\ size' = ctrl.size /\ expected' = left \o w
    BY <1>1, <1>7 DEF User
  <2>4. size' \in Nat
    BY <2>1, <2>3, UserAssumption
  <2> HIDE DEF w, left
  <2>5. /\ expected' \in Seq(ReadBeat) /\ Len(expected') = Len(left) + Len(w)
        /\ \A i \in 1 .. Len(left) : expected'[i] = left[i]
        /\ \A n \in 1 .. Len(w) : expected'[Len(left) + n] = w[n]
    <3>1. left \in Seq(ReadBeat) /\ w \in Seq(ReadBeat)
      BY <1>5, <2>2
    <3>2. /\ left \o w \in Seq(ReadBeat) /\ Len(left \o w) = Len(left) + Len(w)
          /\ \A i \in 1 .. Len(left) : (left \o w)[i] = left[i]
          /\ \A n \in 1 .. Len(w) : (left \o w)[Len(left) + n] = w[n]
      BY <3>1, Joined
    <3> QED
      BY <2>3, <3>2
  <2> QED
    BY <1>3, <1>5, <1>6, <1>7, <2>2, <2>3, <2>4, <2>5 DEF w, Shifted
<1>8. CASE ~ctrl.start
  <2>1. /\ status' = IF done THEN "done" ELSE status
        /\ size' = size /\ expected' = left
    BY <1>1, <1>8 DEF User
  <2> HIDE DEF left
  <2>2. status' \in {"idle", "busy", "done", "abandoned"} /\ size' \in Nat
    BY <2>1 DEF Around
  <2> QED
    BY <1>3, <1>5, <1>6, <1>8, <2>1, <2>2
<1> QED
  BY <1>7, <1>8

\* The bus after an edge that is not one of a reset.
LEMMA BusEdge ==
  ASSUME Registers, Around, ~areset, NEW ctrl, NEW takes, NEW arready, NEW rvalid,
         Step(ctrl, takes, arready, rvalid)
  PROVE  /\ asked' \in Seq(Burst) /\ Len(asked) - One(Whole(rvalid)) \in Nat
         /\ Len(asked') = Len(asked) - One(Whole(rvalid)) + One(arready)
         /\ Shifted(asked', asked, One(Whole(rvalid)))
         /\ arready => asked'[Len(asked) - One(Whole(rvalid)) + 1]
                         = [addr |-> addr, len |-> m_axi_arlen]
         /\ returned' = IF Whole(rvalid) THEN 0
                        ELSE IF rvalid THEN returned + 1 ELSE returned
<1> DEFINE r == Given(rvalid)
           rest == IF Whole(rvalid) THEN Tail(asked) ELSE asked
           burst == [addr |-> addr, len |-> m_axi_arlen]
<1>1. Bus([arready |-> arready, rvalid |-> rvalid, r |-> r])
  BY Parts
<1>2. rvalid => (r.last <=> returned = Head(asked).len)
  BY Returned DEF Step, Given
<1> HIDE DEF r
<1>3. arready \in BOOLEAN /\ rvalid \in BOOLEAN /\ Whole(rvalid) \in BOOLEAN
      /\ (rvalid => asked # <<>>)
  BY Zenon DEF Step, Whole
<1>4. rvalid /\ r.last <=> Whole(rvalid)
  BY <1>2 DEF Whole
<1>5. /\ asked' = IF arready THEN Append(rest, burst) ELSE rest
      /\ returned' = IF Whole(rvalid) THEN 0
                     ELSE IF rvalid THEN returned + 1 ELSE returned
  BY <1>1, <1>3, <1>4 DEF Bus
<1>6. burst \in Burst
  BY Widths DEF Registers, m_axi_arlen, Burst
<1>7. Whole(rvalid) => asked # <<>>
  BY <1>3 DEF Whole
<1>8. /\ rest \in Seq(Burst) /\ Len(rest) = Len(asked) - One(Whole(rvalid)) /\ Len(rest) \in Nat
      /\ Shifted(rest, asked, One(Whole(rvalid)))
  BY <1>3, <1>7, Left DEF Around
<1> HIDE DEF rest, burst
<1>9. CASE arready
  <2>1. /\ asked' \in Seq(Burst) /\ Len(asked') = Len(rest) + 1
        /\ asked'[Len(rest) + 1] = burst
        /\ \A i \in 1 .. Len(rest) : asked'[i] = rest[i]
    BY <1>5, <1>6, <1>8, <1>9
  <2> QED
    BY <1>5, <1>8, <1>9, <2>1 DEF burst, One, Shifted
<1>10. CASE ~arready
  BY <1>5, <1>8, <1>10 DEF One
<1> QED
  BY <1>9, <1>10

\* The FIFO after an edge that is not one of a reset.
LEMMA FifoEdge ==
  ASSUME Around, ~areset, NEW ctrl, NEW takes, NEW arready, NEW rvalid,
         Step(ctrl, takes, arready, rvalid)
  PROVE  /\ fifo' \in Seq(Entries(ReadBeat)) /\ (rvalid => Returns \in ReadBeat)
         /\ Passed(fifo, fifo', takes, rvalid, Given(rvalid))
<1>1. fifo' \in AfterEdge(fifo, areset, takes, rvalid, Given(rvalid)) /\ areset \in BOOLEAN
  <2>1. areset \in BOOLEAN
    BY DEF areset
  <2> QED
    BY <2>1, Parts
<1>2. takes \in BOOLEAN /\ rvalid \in BOOLEAN
  BY DEF Step
<1>3. rvalid => Returns \in ReadBeat
  BY Returned DEF Step
<1>4. Given(rvalid) \in ReadBeat
  BY <1>2, <1>3 DEF Given, ReadBeat
<1> QED
  <2>1. fifo \in Seq(Entries(ReadBeat))
    BY DEF Around
  <2>2. /\ fifo' \in Seq(Entries(ReadBeat))
        /\ Passed(fifo, fifo', takes, rvalid, Given(rvalid))
    BY <1>1, <1>2, <1>4, <2>1, FifoPasses
  <2> QED
    BY <1>3, <2>2

-----------------------------------------------------------------------------
(***************************************************************************)
(* What the invariant says of a state.                                     *)
(***************************************************************************)
\* A burst that the bus has still to return is one of the transfer that is
\* under way, and not all of it has been returned.
LEMMA UnderWay ==
  ASSUME IInv, asked # <<>>
  PROVE  /\ Active /\ asked[1] \in Burst /\ Len(asked) \in Nat \ {0}
         /\ returned <= asked[1].len /\ asked[1] = BurstOf(ToReturn)
         /\ ToReturn \in 1 .. num_transactions + 1
<1>1. Active
  BY DEF IInv, Phase, Quiet, Starting, Resetting, Idle
<1>2. asked[1] \in Burst /\ Len(asked) \in Nat \ {0}
  BY DEF IInv, Around
<1>3. ToAsk \in Nat /\ ToReturn \in Nat /\ num_transactions \in Nat
  BY Lengths DEF IInv, Registers, Sound, Counters, ToAsk, ToReturn
<1>4. returned <= asked[1].len /\ ToReturn - ToAsk >= 1 /\ ToReturn <= num_transactions + 1
  BY <1>1, <1>2, <1>3 DEF Active, DataBooks
<1>5. asked[1] = BurstOf(ToReturn - 1 + 1)
  BY <1>1, <1>2 DEF Active, DataBooks
<1>6. ToReturn - 1 + 1 = ToReturn
  BY <1>3
<1> QED
  BY <1>1, <1>2, <1>3, <1>4, <1>5, <1>6

\* What follows the first i beats of the FIFO, in whole bursts.
LEMMA Room ==
  ASSUME IInv
  PROVE  /\ Len(fifo) + LP_AXI_BURST_LEN * Len(asked) - returned <= LP_FIFO_DEPTH
         /\ asked # <<>> => ~Full(fifo)
<1>1. PICK ends :
        /\ Ending(ends)
        /\ ends[0] + Len(asked) + ar_to_r_cntr.count = C_MAX_OUTSTANDING
        /\ \A i \in 0 .. Len(fifo) : Len(fifo) - i <= LP_AXI_BURST_LEN * ends[i] + returned
  BY DEF IInv, Vacancy
<1> DEFINE B == LP_AXI_BURST_LEN
<1>2. B \in Nat /\ B >= 1 /\ returned \in 0 .. B - 1 /\ LP_FIFO_DEPTH \in Nat
  BY Widths DEF IInv, Around
<1>3. Len(fifo) \in Nat /\ Len(asked) \in Nat
  BY DEF IInv, Around
<1>4. ends[0] \in Nat /\ ar_to_r_cntr.count \in Nat
  BY <1>1, <1>3 DEF Ending, IInv, Registers, Sound, Counters
<1>5. Len(fifo) <= B * ends[0] + returned
  BY <1>1, <1>3, <1>4
<1>6. C_MAX_OUTSTANDING \in Nat /\ B * C_MAX_OUTSTANDING <= LP_FIFO_DEPTH
  BY DepthAssumption, Widths
<1>7. ends[0] + Len(asked) <= C_MAX_OUTSTANDING
  BY <1>1, <1>3, <1>4, <1>6
<1> HIDE DEF B
<1>8. /\ B * ends[0] \in Nat /\ B * Len(asked) \in Nat /\ B * C_MAX_OUTSTANDING \in Nat
      /\ B * (ends[0] + Len(asked)) = B * ends[0] + B * Len(asked)
      /\ B * (ends[0] + Len(asked)) <= B * C_MAX_OUTSTANDING
  BY <1>2, <1>3, <1>4, <1>6, <1>7
<1>9. Len(fifo) + B * Len(asked) - returned <= LP_FIFO_DEPTH
  BY <1>2, <1>3, <1>5, <1>6, <1>8
<1>10. asked # <<>> => B * Len(asked) >= B
  <2> SUFFICES ASSUME asked # <<>> PROVE B * Len(asked) >= B
    OBVIOUS
  <2>1. Len(asked) >= 1
    BY DEF IInv, Around
  <2> QED
    BY <1>2, <1>3, <2>1
<1>11. asked # <<>> => Len(fifo) < LP_FIFO_DEPTH
  BY <1>2, <1>3, <1>8, <1>9, <1>10
<1> QED
  BY <1>2, <1>3, <1>9, <1>11 DEF Full, B

\* The beats to come of a transfer, and the number of the next.
LEMMA Coming ==
  ASSUME Registers, Around, ToReturn \in 1 .. num_transactions + 1
  PROVE  /\ ToCome \in Int
         /\ Total - ToCome = (num_transactions + 1 - ToReturn) * LP_AXI_BURST_LEN + returned
         /\ ToReturn = 1 => ToCome = LastLen + 1 - returned
         /\ ToReturn > 1 => ToCome >= LastLen + 1
<1> DEFINE B == LP_AXI_BURST_LEN
           N == num_transactions
           t == ToReturn
<1>1. /\ B \in Nat /\ B >= 1 /\ N \in Nat /\ LastLen \in 0 .. B - 1
      /\ Total = N * B + LastLen + 1 /\ t \in 1 .. N + 1 /\ returned \in 0 .. B - 1
  BY Lengths, Widths DEF Around
<1>2. ToCome = (t - 1) * B + LastLen + 1 - returned
  BY <1>1 DEF ToCome
<1> HIDE DEF B, N, t
<1>3. /\ (t - 1) * B \in Nat /\ N * B \in Nat
      /\ (N + 1 - t) * B = N * B - (t - 1) * B
      /\ t = 1 => (t - 1) * B = 0
      /\ t > 1 => (t - 1) * B >= B
  <2>1. t - 1 \in Nat
    BY <1>1
  <2>2. t > 1 => (t - 1) * B >= 1 * B
    BY <1>1, <2>1
  <2> QED
    BY <1>1, <2>1, <2>2
<1>4. /\ ToCome \in Int /\ Total - ToCome = (N + 1 - t) * B + returned
      /\ t = 1 => ToCome = LastLen + 1 - returned
      /\ t > 1 => ToCome >= LastLen + 1
  BY <1>1, <1>2, <1>3
<1> QED
  BY <1>4 DEF B, N, t

\* The beat that the bus returns is the next of the transfer.
LEMMA NextBeat ==
  ASSUME IInv, asked # <<>>
  PROVE  /\ ToCome \in 1 .. Total /\ Len(expected) = Len(fifo) + ToCome
         /\ Returns = expected[Len(fifo) + 1]
<1> DEFINE B == LP_AXI_BURST_LEN
           N == num_transactions
           t == ToReturn
           k == N + 1 - t
           n == Total - ToCome + 1
<1>1. /\ Active /\ asked[1] \in Burst /\ returned <= asked[1].len /\ asked[1] = BurstOf(t)
      /\ t \in 1 .. N + 1 /\ Registers /\ Around
  BY UnderWay DEF IInv
<1>2. /\ B \in Nat /\ B >= 1 /\ N \in Nat /\ LastLen \in 0 .. B - 1 /\ Total \in Nat
      /\ Total = N * B + LastLen + 1 /\ returned \in 0 .. B - 1
      /\ LP_DW_BYTES \in Nat /\ BurstBytes = LP_DW_BYTES * B /\ addr_offset_r \in Nat
  BY <1>1, Lengths, Widths DEF Around, Registers
<1>3. /\ ToCome \in Int /\ Total - ToCome = k * B + returned
      /\ t = 1 => ToCome = LastLen + 1 - returned
      /\ t > 1 => ToCome >= LastLen + 1
  BY <1>1, Coming
<1>4. asked[1].len = IF t = 1 THEN LastLen ELSE B - 1
  BY <1>1 DEF BurstOf
<1>5. asked[1].addr = addr_offset_r + k * BurstBytes
  BY <1>1 DEF BurstOf
<1>6. ToCome \in 1 .. Total /\ Len(expected) = Len(fifo) + ToCome
      /\ expected[Len(fifo) + 1] = BeatOf(n)
  <2>1. ToCome >= 1
    BY <1>1, <1>2, <1>3, <1>4
  <2>2. /\ ToCome \in 0 .. Total /\ Len(expected) = Len(fifo) + ToCome
        /\ \A j \in 1 .. ToCome : expected[Len(fifo) + j] = BeatOf(Total - ToCome + j)
    BY <1>1 DEF Active, DataBooks, Awaits
  <2> QED
    BY <1>3, <2>1, <2>2
<1>7. k \in Nat /\ n = k * B + returned + 1 /\ n \in Nat /\ k * B \in Nat
  <2>1. k \in Nat
    BY <1>1, <1>2
  <2>2. k * B \in Nat
    BY <1>2, <2>1
  <2> QED
    BY <1>2, <1>3, <2>1, <2>2
<1>8. n = Total <=> t = 1 /\ returned = LastLen
  <2>1. n = Total <=> ToCome = 1
    BY <1>2, <1>3
  <2>2. CASE t = 1
    BY <1>2, <1>3, <2>1, <2>2
  <2>3. CASE t > 1
    <3>1. k <= N - 1
      BY <1>1, <1>2, <2>3
    <3> HIDE DEF k, B, N
    <3>2. k * B <= (N - 1) * B /\ (N - 1) * B = N * B - B /\ N * B \in Nat
      BY <1>2, <1>7, <3>1
    <3> QED
      BY <1>2, <1>7, <2>3, <3>2
  <2> QED
    BY <1>1, <1>2, <2>2, <2>3
<1> HIDE DEF k, B, N, t
<1>9. n % B = 0 <=> returned = B - 1
  <2>1. CASE returned = B - 1
    <3>1. n = (k + 1) * B + 0
      BY <1>2, <1>7, <2>1
    <3> HIDE DEF n
    <3>2. 0 \in 0 .. B - 1 /\ k + 1 \in Nat /\ B \in Nat \ {0}
      BY <1>2, <1>7
    <3> QED
      BY <2>1, <3>1, <3>2, Division
  <2>2. CASE returned # B - 1
    <3>1. n = k * B + (returned + 1)
      BY <1>2, <1>7
    <3> HIDE DEF n
    <3>2. returned + 1 \in 0 .. B - 1 /\ returned + 1 # 0 /\ B \in Nat \ {0}
      BY <1>2, <2>2
    <3>3. n % B = returned + 1
      BY <1>7, <3>1, <3>2, Division
    <3> QED
      BY <2>2, <3>2, <3>3
  <2> QED
    BY <2>1, <2>2
<1>10. (n % B = 0 \/ n = Total) <=> returned = asked[1].len
  BY <1>1, <1>2, <1>4, <1>8, <1>9
<1>11. (n - 1) * LP_DW_BYTES = k * BurstBytes + returned * LP_DW_BYTES
  <2>1. n - 1 = k * B + returned
    BY <1>2, <1>7
  <2> HIDE DEF n
  <2>2. (k * B + returned) * LP_DW_BYTES = (k * B) * LP_DW_BYTES + returned * LP_DW_BYTES
    BY <1>2, <1>7
  <2>3. (k * B) * LP_DW_BYTES = k * (LP_DW_BYTES * B)
    BY <1>2, <1>7
  <2> QED
    BY <1>2, <2>1, <2>2, <2>3
<1>12. Returns = BeatOf(n)
  <2> DEFINE a == addr_offset_r + (n - 1) * LP_DW_BYTES
  <2>1. a = asked[1].addr + returned * LP_DW_BYTES
    <3>1. k * BurstBytes \in Nat /\ returned * LP_DW_BYTES \in Nat
      BY <1>2, <1>7, Widths
    <3> QED
      BY <1>2, <1>5, <1>11, <3>1
  <2>2. Head(asked) = asked[1]
    BY <1>1, Returned
  <2>3. (n % B = 0 \/ n = Total) = (returned = Head(asked).len)
    BY <1>10, <2>2
  <2> HIDE DEF a
  <2> QED
    BY <2>1, <2>2, <2>3 DEF Returns, BeatOf, a, B
<1> QED
  BY <1>6, <1>12

-----------------------------------------------------------------------------
(***************************************************************************)
(* What an edge keeps in every phase.                                      *)
(***************************************************************************)
\* Each register stays in its range.
LEMMA RegistersKept ==
  ASSUME Registers, Around, NEW ctrl, NEW takes, NEW arready, NEW rvalid,
         Step(ctrl, takes, arready, rvalid)
  PROVE  Registers'
<1>1. /\ {done, start_d1, start, ar_idle, arvalid_r}' \subseteq BOOLEAN
      /\ addr' = IF start THEN addr_offset_r
                 ELSE IF arready THEN addr + BurstBytes ELSE addr
      /\ final_burst_len' = LastLen
      /\ ctrl.start => /\ total_len_r' = LastBeat(ctrl.size)
                       /\ addr_offset_r' = ctrl.offset - (ctrl.offset % BurstBytes)
      /\ ~ctrl.start => UNCHANGED <<total_len_r, addr_offset_r>>
  BY FlagsEdge
<1>2. /\ total_len_r' \in Nat /\ num_transactions' < 2^LP_TRANSACTION_CNTR_WIDTH
      /\ addr_offset_r' \in Nat
  <2>1. CASE ctrl.start
    <3>1. ctrl.size \in Sizes /\ ctrl.offset \in Offsets
      BY <2>1, Controls DEF Step
    <3> QED
      BY <1>1, <2>1, <3>1, LastBeatFits, WantedBeats DEF num_transactions
  <2>2. CASE ~ctrl.start
    BY <1>1, <2>2 DEF num_transactions, Registers
  <2> QED
    BY <2>1, <2>2
<1>3. addr' \in Nat /\ final_burst_len' \in 0 .. LP_AXI_BURST_LEN - 1
  BY <1>1, Lengths, Widths DEF Registers
<1>4. /\ Sound(ar_transaction_cntr, LP_TRANSACTION_CNTR_WIDTH)'
      /\ Sound(r_transaction_cntr, LP_TRANSACTION_CNTR_WIDTH)'
      /\ Sound(ar_to_r_cntr, LP_OUTSTANDING_CNTR_WIDTH)'
  <2>1. CASE areset
    <3>1. /\ C_MAX_OUTSTANDING \in 0 .. 2^LP_OUTSTANDING_CNTR_WIDTH - 1
          /\ 0 \in 0 .. 2^LP_TRANSACTION_CNTR_WIDTH - 1
      BY Widths
    <3> QED
      BY <2>1, <3>1, CountersReset, CounterLoads
  <2>2. CASE ~areset
    <3>1. Sound(ar_to_r_cntr, LP_OUTSTANDING_CNTR_WIDTH)'
      BY <2>2, CountersEdge DEF Turned
    <3>2. CASE start
      <4>1. num_transactions \in 0 .. 2^LP_TRANSACTION_CNTR_WIDTH - 1
        BY Lengths
      <4> QED
        BY <2>2, <3>1, <3>2, <4>1, CountersEdge, CounterLoads
    <3>3. CASE ~start
      BY <2>2, <3>1, <3>3, CountersEdge DEF Turned
    <3> QED
      BY <3>2, <3>3
  <2> QED
    BY <2>1, <2>2
<1> QED
  BY <1>1, <1>2, <1>3, <1>4 DEF Registers

\* So does what surrounds them.
LEMMA AroundKept ==
  ASSUME IInv, ~areset, NEW ctrl, NEW takes, NEW arready, NEW rvalid,
         Step(ctrl, takes, arready, rvalid)
  PROVE  Around' /\ Waits'
<1>1. Registers /\ Around /\ Waits /\ Stream
  BY DEF IInv
<1>2. /\ reset_left' \in {0, ResetEdges} /\ size' \in Nat
      /\ status' \in {"idle", "busy", "done", "abandoned"}
      /\ expected' \in Seq(ReadBeat)
  BY <1>1, UserEdge
<1>3. /\ asked' \in Seq(Burst)
      /\ returned' = IF Whole(rvalid) THEN 0
                     ELSE IF rvalid THEN returned + 1 ELSE returned
  BY <1>1, BusEdge
<1>4. returned' \in 0 .. LP_AXI_BURST_LEN - 1
  <2>1. returned \in 0 .. LP_AXI_BURST_LEN - 1 /\ LP_AXI_BURST_LEN \in Nat
    BY <1>1, Widths DEF Around
  <2>2. CASE rvalid /\ ~Whole(rvalid)
    <3>1. asked # <<>>
      BY <2>2 DEF Step
    <3>2. /\ returned <= asked[1].len /\ asked[1].len \in 0 .. LP_AXI_BURST_LEN - 1
          /\ returned # asked[1].len
      BY <1>1, <2>2, <3>1, UnderWay, Returned DEF Burst, Whole
    <3> QED
      BY <1>3, <2>1, <2>2, <3>2
  <2>3. CASE ~(rvalid /\ ~Whole(rvalid))
    BY <1>3, <2>1, <2>3
  <2> QED
    BY <2>2, <2>3
<1>5. fifo' \in Seq(Entries(ReadBeat)) /\ Passed(fifo, fifo', takes, rvalid, Given(rvalid))
  BY <1>1, FifoEdge
<1>6. Around'
  BY <1>2, <1>3, <1>4, <1>5, Widths DEF Around
<1>7. Waits'
  <2> DEFINE out  == IF takes /\ DataValid(fifo) THEN 1 ELSE 0
             stay == Len(fifo) - out
  <2>1. /\ Len(fifo') = stay + (IF rvalid /\ ~Full(fifo) THEN 1 ELSE 0)
        /\ \A i \in 1 .. stay : fifo'[i].wait <= fifo[i + out].wait
        /\ rvalid /\ ~Full(fifo) => fifo'[stay + 1].wait \in FifoDelays
    BY <1>5 DEF Passed
  <2>2. out \in {0, 1} /\ stay \in Nat /\ Len(fifo) \in Nat
    BY <1>1 DEF DataValid, Around
  <2> HIDE DEF out
  <2> SUFFICES ASSUME NEW i \in 1 .. Len(fifo')
               PROVE  \E d \in FifoDelays : fifo'[i].wait <= d
    BY DEF Waits
  <2>3. fifo'[i].wait \in Nat
    BY <1>5, EntryFields
  <2>4. CASE i \in 1 .. stay
    <3>1. i + out \in 1 .. Len(fifo)
      BY <2>2, <2>4
    <3>2. PICK d \in FifoDelays : fifo[i + out].wait <= d
      BY <1>1, <3>1 DEF Waits
    <3>3. fifo[i + out].wait \in Nat
      BY <1>1, <3>1, EntryFields DEF Around
    <3>4. fifo'[i].wait <= fifo[i + out].wait /\ d \in Nat
      BY <2>1, <2>4, FifoAssumption
    <3> QED
      BY <2>3, <3>2, <3>3, <3>4
  <2>5. CASE i \notin 1 .. stay
    <3>1. i = stay + 1 /\ rvalid /\ ~Full(fifo)
      BY <2>1, <2>2, <2>5
    <3> QED
      BY <2>1, <2>3, <3>1
  <2> QED
    BY <2>4, <2>5
<1> QED
  BY <1>6, <1>7

\* How the FIFO and what is expected of it move together.
LEMMA Moves ==
  ASSUME IInv, ~areset, NEW ctrl, NEW takes, NEW arready, NEW rvalid,
         Step(ctrl, takes, arready, rvalid)
  PROVE  /\ One(takes) \in {0, 1} /\ One(rvalid) \in {0, 1}
         /\ Len(fifo) - One(takes) \in Nat
         /\ Len(fifo') = Len(fifo) - One(takes) + One(rvalid)
         /\ \A i \in 1 .. Len(fifo) - One(takes) : fifo'[i].beat = fifo[i + One(takes)].beat
         /\ rvalid => fifo'[Len(fifo) - One(takes) + 1].beat = Returns
<1>1. Registers /\ Around /\ Stream
  BY DEF IInv
<1>2. (takes => fifo # <<>> /\ DataValid(fifo)) /\ takes \in BOOLEAN /\ rvalid \in BOOLEAN
  BY DEF Step, m_axis_tvalid, DataValid
<1>3. rvalid => ~Full(fifo)
  BY Room DEF Step
<1>4. Passed(fifo, fifo', takes, rvalid, Given(rvalid))
  BY <1>1, FifoEdge
<1>5. One(takes) = (IF takes /\ DataValid(fifo) THEN 1 ELSE 0)
  BY <1>2 DEF One
<1>6. One(rvalid) = (IF rvalid /\ ~Full(fifo) THEN 1 ELSE 0)
  BY <1>3 DEF One
<1>7. /\ Len(fifo') = Len(fifo) - One(takes) + One(rvalid)
      /\ \A i \in 1 .. Len(fifo) - One(takes) : fifo'[i].beat = fifo[i + One(takes)].beat
      /\ rvalid => fifo'[Len(fifo) - One(takes) + 1].beat = Given(rvalid)
  BY <1>3, <1>4, <1>5, <1>6 DEF Passed
<1>8. One(takes) \in {0, 1} /\ One(rvalid) \in {0, 1} /\ Len(fifo) - One(takes) \in Nat
  BY <1>1, <1>2 DEF One, Around
<1> QED
  BY <1>7, <1>8 DEF Given

\* What the FIFO holds is still what the user expects first.
LEMMA StreamKept ==
  ASSUME IInv, ~areset, NEW ctrl, NEW takes, NEW arready, NEW rvalid,
         Step(ctrl, takes, arready, rvalid)
  PROVE  Stream'
<1>1. Registers /\ Around /\ Stream
  BY DEF IInv
<1> DEFINE out  == One(takes)
           stay == Len(fifo) - out
<1>2. /\ out \in {0, 1} /\ One(rvalid) \in {0, 1} /\ stay \in Nat
      /\ Len(fifo') = stay + One(rvalid)
      /\ \A i \in 1 .. stay : fifo'[i].beat = fifo[i + out].beat
      /\ rvalid => fifo'[stay + 1].beat = Returns
  BY Moves
<1>3. /\ expected' \in Seq(ReadBeat) /\ Shifted(expected', expected, out)
      /\ ctrl.start => Len(expected') = Len(expected) - out + Beats(ctrl.size)
      /\ ~ctrl.start => Len(expected') = Len(expected) - out
  BY <1>1, UserEdge
<1>4. ctrl.start => Beats(ctrl.size) \in Nat
  BY Controls, LastBeatFits DEF Step
<1>5. Len(expected) \in Nat /\ Len(fifo) \in Nat /\ Len(expected') \in Nat
  BY <1>1, <1>3 DEF Around
<1>6. Len(expected') >= Len(expected) - out
  BY <1>2, <1>3, <1>4, <1>5
<1>7. rvalid => Len(expected) >= Len(fifo) + 1 /\ Returns = expected[Len(fifo) + 1]
  <2> SUFFICES ASSUME rvalid
               PROVE  Len(expected) >= Len(fifo) + 1 /\ Returns = expected[Len(fifo) + 1]
    OBVIOUS
  <2>1. asked # <<>>
    BY DEF Step
  <2>2. /\ ToCome \in 1 .. Total /\ Len(expected) = Len(fifo) + ToCome
        /\ Returns = expected[Len(fifo) + 1]
    BY <2>1, NextBeat
  <2>3. Total \in Nat
    BY <1>1, Lengths
  <2> QED
    BY <1>5, <2>2, <2>3
<1>8. Len(fifo) <= Len(expected) /\ \A i \in 1 .. Len(fifo) : fifo[i].beat = expected[i]
  BY <1>1 DEF Stream
<1> HIDE DEF out
<1>9. One(rvalid) = 1 => rvalid
  BY DEF One
<1>10. Len(fifo') <= Len(expected')
  BY <1>2, <1>5, <1>6, <1>7, <1>8, <1>9
<1>11. ASSUME NEW i \in 1 .. Len(fifo')
       PROVE  fifo'[i].beat = expected'[i]
  <2>1. i \in 1 .. Len(expected) - out /\ expected'[i] = expected[i + out]
    <3>1. i \in 1 .. Len(expected) - out
      BY <1>2, <1>5, <1>7, <1>8, <1>9
    <3> QED
      BY <1>3, <3>1 DEF Shifted
  <2>2. CASE i \in 1 .. stay
    <3>1. i + out \in 1 .. Len(fifo)
      BY <1>2, <1>5, <2>2
    <3> QED
      BY <1>2, <1>8, <2>1, <2>2, <3>1
  <2>3. CASE i \notin 1 .. stay
    <3>1. i = stay + 1 /\ rvalid /\ i + out = Len(fifo) + 1
      BY <1>2, <1>5, <1>9, <2>3
    <3> QED
      BY <1>2, <1>7, <2>1, <3>1
  <2> QED
    BY <2>2, <2>3
<1> QED
  BY <1>10, <1>11 DEF Stream

\* The vacancy, the bursts asked for and those that end in the FIFO make up
\* the bursts that may be outstanding.
LEMMA VacancyKept ==
  ASSUME IInv, ~areset, NEW ctrl, NEW takes, NEW arready, NEW rvalid,
         Step(ctrl, takes, arready, rvalid)
  PROVE  Vacancy'
<1> DEFINE B     == LP_AXI_BURST_LEN
           M     == 2^LP_OUTSTANDING_CNTR_WIDTH
           c     == ar_to_r_cntr.count
           out   == One(takes)
           stay  == Len(fifo) - out
           whole == One(Whole(rvalid))
           strm  == One(Streams(takes))
<1>1. Registers /\ Around /\ Vacancy
  BY DEF IInv
<1>2. PICK ends :
        /\ Ending(ends)
        /\ ends[0] + Len(asked) + c = C_MAX_OUTSTANDING
        /\ \A i \in 0 .. Len(fifo) : Len(fifo) - i <= B * ends[i] + returned
  BY <1>1 DEF Vacancy
<1>3. /\ B \in Nat /\ B >= 1 /\ returned \in 0 .. B - 1 /\ Len(fifo) \in Nat
      /\ Len(asked) \in Nat /\ M \in Nat /\ c \in 0 .. M - 1
      /\ C_MAX_OUTSTANDING \in Nat /\ C_MAX_OUTSTANDING < M
  BY <1>1, Widths DEF Around, Registers, Sound, Counters
<1>4. /\ \A i \in 0 .. Len(fifo) : ends[i] \in Nat
      /\ ends[Len(fifo)] = 0
      /\ \A i \in 1 .. Len(fifo) : ends[i - 1] = ends[i] + One(fifo[i].beat.last)
  BY <1>2 DEF Ending, One
<1>5. /\ out \in {0, 1} /\ One(rvalid) \in {0, 1} /\ stay \in Nat
      /\ Len(fifo') = stay + One(rvalid)
  BY Moves
<1>6. /\ \A i \in 1 .. stay : fifo'[i].beat = fifo[i + out].beat
      /\ rvalid => fifo'[stay + 1].beat = Returns
  BY Moves
<1>7. /\ Len(asked') = Len(asked) - whole + One(arready)
      /\ returned' = IF Whole(rvalid) THEN 0
                     ELSE IF rvalid THEN returned + 1 ELSE returned
  BY <1>1, BusEdge
<1>8. whole \in {0, 1} /\ (whole = 1 <=> Whole(rvalid)) /\ (whole = 1 => One(rvalid) = 1)
  BY DEF One, Whole
<1>9. (One(rvalid) = 1 <=> rvalid) /\ (out = 1 <=> takes) /\ One(arready) \in {0, 1}
      /\ (One(arready) = 1 <=> arready)
  BY DEF One
<1>10. rvalid => One(Returns.last) = whole
  <2> SUFFICES ASSUME rvalid PROVE One(Returns.last) = One(Whole(rvalid))
    OBVIOUS
  <2>1. Returns.last <=> Whole(rvalid)
    BY <1>1, Returned DEF Step, Whole
  <2> QED
    BY <2>1 DEF One
<1>11. strm \in {0, 1} /\ (strm = 1 <=> Streams(takes))
  BY DEF One
<1>12. ends[0] = ends[out] + strm
  <2>1. CASE takes
    <3>1. Len(fifo) >= 1 /\ out = 1 /\ Head(fifo) = fifo[1]
      <4>1. fifo # <<>> /\ fifo \in Seq(Entries(ReadBeat))
        BY <1>1, <2>1 DEF Around, Step, m_axis_tvalid, DataValid
      <4>2. Len(fifo) >= 1 /\ Head(fifo) = fifo[1]
        BY <4>1
      <4>3. out = 1
        BY <2>1 DEF One
      <4> QED
        BY <4>2, <4>3
    <3>2. ends[1 - 1] = ends[1] + One(fifo[1].beat.last)
      BY <1>3, <1>4, <3>1
    <3>3. Streams(takes) <=> fifo[1].beat.last
      BY <2>1, <3>1 DEF Streams, m_axis_beat, Dout
    <3>4. One(Streams(takes)) = One(fifo[1].beat.last)
      BY <3>3 DEF One
    <3> QED
      BY <3>1, <3>2, <3>4
  <2>2. CASE ~takes
    <3>1. out = 0 /\ One(Streams(takes)) = 0 /\ ends[0] \in Nat
      BY <1>3, <1>4, <2>2 DEF One, Streams
    <3> QED
      BY <3>1
  <2> QED
    BY <2>1, <2>2
<1>13. ar_to_r_cntr'.count = c + strm - One(arready)
  <2>1. Turned(ar_to_r_cntr, ar_to_r_cntr', LP_OUTSTANDING_CNTR_WIDTH, Streams(takes), arready)
    BY <1>1, CountersEdge
  <2>2. arready => c > 0
    BY <1>1 DEF Vacancy, Step
  <2>3. ends[out] \in Nat /\ ends[0] \in Nat
    BY <1>3, <1>4, <1>5
  <2>4. Streams(takes) => c < M - 1
    <3> HIDE DEF c, M, out, strm
    <3>1. Streams(takes) => ends[0] >= 1
      BY <1>11, <1>12, <2>3
    <3> QED
      BY <1>2, <1>3, <2>3, <3>1
  <2> QED
    BY <1>3, <1>9, <1>11, <2>1, <2>2, <2>4 DEF Turned
<1>14. arvalid_r' => ar_to_r_cntr'.count > 0
  <2> SUFFICES ASSUME arvalid_r' PROVE ar_to_r_cntr'.count > 0
    OBVIOUS
  <2>1. \/ ~ar_idle /\ ~ar_to_r_cntr.is_zero /\ ~arvalid_r
        \/ arvalid_r /\ ~arready
    BY <1>1, FlagsEdge
  <2>2. c > 0 /\ ~arready
    BY <1>1, <1>3, <2>1 DEF Vacancy, Step, Registers, Sound
  <2> QED
    BY <1>3, <1>9, <1>11, <1>13, <2>2
<1> HIDE DEF B, M, c, out, whole, strm, stay
<1>15. stay = Len(fifo) - out
  BY DEF stay
<1>16. PICK new : new = [i \in 0 .. Len(fifo') |-> IF i <= stay THEN ends[i + out] + whole ELSE 0]
  OBVIOUS
<1>17. Len(fifo') \in Nat /\ \A i \in 0 .. Len(fifo') : i <= stay => ends[i + out] \in Nat
  <2> SUFFICES ASSUME NEW i \in 0 .. Len(fifo'), i <= stay
               PROVE  i + out \in 0 .. Len(fifo)
    BY <1>4, <1>15, <1>5
  <2> QED
    BY <1>15, <1>3, <1>5
<1>18. \A i \in 0 .. Len(fifo') : new[i] = IF i <= stay THEN ends[i + out] + whole ELSE 0
  BY <1>16
<1>19. Ending(new)'
  <2>1. new \in [0 .. Len(fifo') -> Nat]
    BY <1>8, <1>17, <1>16
  <2>2. new[Len(fifo')] = 0
    <3>1. CASE rvalid
      <4>1. Len(fifo') = stay + 1
        BY <1>5, <1>9, <3>1
      <4>2. ~(Len(fifo') <= stay) /\ Len(fifo') \in 0 .. Len(fifo')
        BY <1>5, <4>1
      <4> QED
        BY <1>18, <4>2
    <3>2. CASE ~rvalid
      <4>1. /\ whole = 0 /\ Len(fifo') = stay /\ stay + out = Len(fifo)
            /\ Len(fifo') \in 0 .. Len(fifo') /\ stay <= stay
        BY <1>15, <1>3, <1>5, <1>8, <1>9, <1>17, <3>2
      <4> QED
        BY <1>4, <1>18, <4>1
    <3> QED
      BY <3>1, <3>2
  <2>3. ASSUME NEW i \in 1 .. Len(fifo')
        PROVE  new[i - 1] = new[i] + One(fifo'[i].beat.last)
    <3>1. CASE i <= stay
      <4>1. i + out \in 1 .. Len(fifo) /\ (i + out) - 1 = (i - 1) + out
            /\ i \in 1 .. stay /\ i \in 0 .. Len(fifo') /\ i - 1 \in 0 .. Len(fifo')
            /\ i - 1 <= stay
        BY <1>15, <1>3, <1>5, <1>17, <3>1
      <4>2. ends[(i - 1) + out] = ends[i + out] + One(fifo[i + out].beat.last)
        BY <1>4, <4>1
      <4>3. new[i - 1] = ends[(i - 1) + out] + whole /\ new[i] = ends[i + out] + whole
        BY <1>18, <3>1, <4>1
      <4>4. fifo'[i].beat = fifo[i + out].beat
        BY <1>6, <4>1
      <4>5. One(fifo[i + out].beat.last) \in Nat /\ ends[i + out] \in Nat
        BY <1>17, <3>1, <4>1 DEF One
      <4> QED
        BY <1>8, <4>2, <4>3, <4>4, <4>5
    <3>2. CASE i > stay
      <4>1. i = stay + 1 /\ rvalid /\ stay + out = Len(fifo) /\ i - 1 = stay
            /\ stay \in 0 .. Len(fifo') /\ i \in 0 .. Len(fifo') /\ ~(i <= stay)
        BY <1>15, <1>3, <1>5, <1>9, <1>17, <3>2
      <4>2. new[i - 1] = whole /\ new[i] = 0
        <5>1. new[i - 1] = ends[stay + out] + whole /\ stay <= stay
          <6>1. stay <= stay
            BY <1>5
          <6>2. stay \in 0 .. Len(fifo')
            BY <4>1
          <6>3. new[stay] = ends[stay + out] + whole
            BY <1>18, <6>1, <6>2
          <6> QED
            BY <4>1, <6>1, <6>3
        <5> QED
          BY <1>4, <1>8, <1>18, <4>1, <5>1
      <4>3. One(fifo'[i].beat.last) = whole
        BY <1>10, <1>6, <4>1
      <4> QED
        BY <1>8, <4>2, <4>3
    <3> QED
      BY <1>17, <1>15, <1>5, <3>1, <3>2
  <2> QED
    BY <2>1, <2>3, <2>2 DEF Ending, One
<1>20. new[0] + Len(asked') + ar_to_r_cntr'.count = C_MAX_OUTSTANDING
  <2>1. new[0] = ends[0 + out] + whole /\ 0 + out = out /\ ends[0 + out] \in Nat
    BY <1>5, <1>17, <1>18
  <2>2. ends[0] \in Nat
    BY <1>3, <1>4
  <2>3. ends[0] + Len(asked) + c = C_MAX_OUTSTANDING
    BY <1>2
  <2>4. Len(asked') = Len(asked) - whole + One(arready)
    BY <1>7
  <2>5. new[0] = ends[out] + whole /\ ends[out] \in Nat
    BY <2>1
  <2>6. whole \in {0, 1} /\ strm \in {0, 1} /\ One(arready) \in {0, 1}
    BY <1>8, <1>9, <1>11
  <2>7. c \in Nat /\ Len(asked) \in Nat
    BY <1>3
  <2>8. new[0] + Len(asked') = ends[out] + Len(asked) + One(arready)
    BY <2>4, <2>5, <2>6, <2>7
  <2>9. ends[out] + strm + Len(asked) + c = C_MAX_OUTSTANDING
    BY <1>12, <2>3
  <2> QED
    BY <1>13, <2>5, <2>6, <2>7, <2>8, <2>9
<1>21. ASSUME NEW i \in 0 .. Len(fifo')
       PROVE  Len(fifo') - i <= B * new[i] + returned'
  <2>1. returned' \in Nat
    BY <1>3, <1>7
  <2>2. CASE i <= stay
    <3>1. i + out \in 0 .. Len(fifo)
      BY <1>15, <1>3, <1>5, <1>17, <2>2
    <3> DEFINE e == ends[i + out]
    <3>2. e \in Nat /\ new[i] = e + whole
      BY <1>17, <1>18, <2>2
    <3>3. Len(fifo) - (i + out) <= B * e + returned
      BY <1>2, <3>1
    <3> HIDE DEF e
    <3>4. B * e \in Nat /\ B * (e + 1) = B * e + B /\ B * (e + 0) = B * e
      BY <1>3, <3>2
    <3>5. CASE Whole(rvalid)
      <4>1. whole = 1 /\ returned' = 0 /\ One(rvalid) = 1
        BY <1>7, <1>8, <3>5
      <4> QED
        BY <1>15, <1>3, <1>5, <1>17, <3>2, <3>3, <3>4, <4>1
    <3>6. CASE ~Whole(rvalid)
      <4>1. whole = 0 /\ returned' = returned + One(rvalid)
        BY <1>15, <1>3, <1>5, <1>7, <1>8, <1>9, <3>6
      <4>2. Len(fifo') - i = Len(fifo) - (i + out) + One(rvalid)
        BY <1>15, <1>3, <1>5, <1>17
      <4>3. B * new[i] = B * e
        BY <3>2, <3>4, <4>1
      <4> QED
        BY <1>3, <1>5, <3>1, <3>3, <3>4, <4>1, <4>2, <4>3
    <3> QED
      BY <3>5, <3>6
  <2>3. CASE i > stay
    <3>1. new[i] = 0 /\ Len(fifo') - i <= 0
      BY <1>15, <1>3, <1>5, <1>17, <1>18, <2>3
    <3>2. B * 0 = 0 /\ Len(fifo') - i \in Int
      BY <1>3, <1>17
    <3> QED
      BY <2>1, <3>1, <3>2
  <2> QED
    BY <1>15, <1>5, <1>17, <2>2, <2>3
<1>22. \A i \in 0 .. Len(fifo') : Len(fifo') - i <= LP_AXI_BURST_LEN * new[i] + returned'
  BY <1>21 DEF B
<1> QED
  BY <1>14, <1>19, <1>20, <1>22 DEF Vacancy

-----------------------------------------------------------------------------
(***************************************************************************)
(* From phase to phase.                                                    *)
(***************************************************************************)
\* A transfer's measures stay until the next is asked for.
LEMMA MeasuresKept ==
  ASSUME Registers, Around, NEW ctrl, NEW takes, NEW arready, NEW rvalid,
         Step(ctrl, takes, arready, rvalid), ~ctrl.start
  PROVE  /\ UNCHANGED <<total_len_r, addr_offset_r, num_transactions, Total, LastLen>>
         /\ \A n : BurstOf(n)' = BurstOf(n) /\ BeatOf(n)' = BeatOf(n)
<1>1. UNCHANGED <<total_len_r, addr_offset_r>>
  BY FlagsEdge
<1>2. UNCHANGED <<num_transactions, Total, LastLen>>
  BY <1>1 DEF num_transactions, Total, LastLen
<1> QED
  BY <1>1, <1>2 DEF BurstOf, BeatOf

\* What the user awaits, once the next beat may have come.
LEMMA AwaitsKept ==
  ASSUME IInv, ~areset, NEW ctrl, NEW takes, NEW arready, NEW rvalid,
         Step(ctrl, takes, arready, rvalid), ~ctrl.start,
         NEW left \in Nat, Awaits(left), One(rvalid) <= left,
         NEW next, next = left - One(rvalid)
  PROVE  Awaits(next)'
<1>1. Registers /\ Around /\ Stream
  BY DEF IInv
<1>2. /\ One(takes) \in {0, 1} /\ One(rvalid) \in {0, 1} /\ Len(fifo) - One(takes) \in Nat
      /\ Len(fifo') = Len(fifo) - One(takes) + One(rvalid)
  BY Moves
<1>3. /\ size' = size /\ Len(expected') = Len(expected) - One(takes)
      /\ Shifted(expected', expected, One(takes))
  BY <1>1, UserEdge
<1>4. UNCHANGED Total /\ \A n : BeatOf(n)' = BeatOf(n)
  BY <1>1, MeasuresKept
<1>5. Total \in Nat /\ Len(fifo) \in Nat /\ Len(expected) \in Nat
  BY <1>1, Lengths DEF Around
<1>6. /\ Beats(size) = Total /\ left \in 0 .. Total
      /\ Len(expected) = Len(fifo) + left
      /\ \A j \in 1 .. left : expected[Len(fifo) + j] = BeatOf(Total - left + j)
  BY DEF Awaits
<1>7. Beats(size') = Total /\ next \in 0 .. Total /\ Len(expected') = Len(fifo') + next
  BY <1>2, <1>3, <1>5, <1>6
<1>8. ASSUME NEW j \in 1 .. next
      PROVE  expected'[Len(fifo') + j] = BeatOf(Total - next + j)
  <2>1. /\ j + One(rvalid) \in 1 .. left
        /\ Total - left + (j + One(rvalid)) = Total - next + j
        /\ Len(fifo') + j \in 1 .. Len(expected) - One(takes)
        /\ Len(fifo') + j + One(takes) = Len(fifo) + (j + One(rvalid))
    <3>1. left \in 0 .. Total /\ Len(expected) = Len(fifo) + left /\ j \in Nat /\ j >= 1
      BY <1>6
    <3>2. j + One(rvalid) \in 1 .. left /\ Total - left + (j + One(rvalid)) = Total - next + j
      BY <1>2, <1>5, <3>1
    <3>3. Len(fifo') + j + One(takes) = Len(fifo) + (j + One(rvalid))
      BY <1>2, <1>5
    <3>4. PICK k \in 1 .. left : k = j + One(rvalid)
      BY <3>2
    <3>5. PICK stay \in Nat : stay = Len(fifo) - One(takes)
      BY <1>2
    <3>6. Len(fifo') + j = stay + k /\ Len(expected) - One(takes) = stay + left
      BY <1>2, <1>5, <3>1, <3>4, <3>5
    <3>7. stay + k \in 1 .. stay + left
      BY <1>5, <3>1, <3>4, <3>5
    <3>8. Len(fifo') + j \in 1 .. Len(expected) - One(takes)
      BY <3>6, <3>7
    <3> QED
      BY <3>2, <3>3, <3>8
  <2>2. expected[Len(fifo) + (j + One(rvalid))] = BeatOf(Total - left + (j + One(rvalid)))
    BY <1>6, <2>1
  <2>3. expected'[Len(fifo') + j] = expected[Len(fifo') + j + One(takes)]
    BY <1>3, <2>1 DEF Shifted
  <2> QED
    BY <2>1, <2>2, <2>3
<1> QED
  BY <1>4, <1>7, <1>8 DEF Awaits

\* Nothing comes of nothing: before the counters are loaded the bus does nothing.
LEMMA IdleEdge ==
  ASSUME IInv, ~areset, Idle, NEW ctrl, NEW takes, NEW arready, NEW rvalid,
         Step(ctrl, takes, arready, rvalid)
  PROVE  /\ ~arready /\ ~rvalid /\ One(rvalid) = 0
         /\ ~arvalid_r' /\ ~done' /\ asked' = <<>> /\ returned' = 0
         /\ ar_idle' <=> ~start
<1>1. Registers /\ Around
  BY DEF IInv
<1>2. ~arready /\ ~rvalid
  BY DEF Idle, Step
<1>3. ~Whole(rvalid) /\ One(Whole(rvalid)) = 0 /\ One(arready) = 0 /\ One(rvalid) = 0
  BY <1>2 DEF Whole, One
<1>4. /\ asked' \in Seq(Burst) /\ Len(asked') = Len(asked) - One(Whole(rvalid)) + One(arready)
      /\ returned' = returned
  BY <1>1, <1>2, <1>3, BusEdge
<1>5. asked' = <<>> /\ returned' = 0
  <2>1. Len(asked) = 0
    BY DEF Idle
  <2>2. Len(asked') = 0
    BY <1>3, <1>4, <2>1
  <2> QED
    BY <1>4, <2>2 DEF Idle
<1>6. ~arvalid_r' /\ ~done' /\ (ar_idle' <=> ~start)
  BY <1>1, <1>2, <1>3, FlagsEdge DEF Idle
<1> QED
  BY <1>2, <1>3, <1>5, <1>6

\* Quiet until the user asks.
LEMMA QuietEdge ==
  ASSUME IInv, ~areset, Quiet, NEW ctrl, NEW takes, NEW arready, NEW rvalid,
         Step(ctrl, takes, arready, rvalid)
  PROVE  Quiet' \/ Starting'
<1>1. Registers /\ Around /\ Stream
  BY DEF IInv
<1>2. Idle /\ ~start /\ ~start_d1 /\ status # "busy" /\ Len(expected) = Len(fifo)
  BY DEF Quiet
<1>3. Idle' /\ One(rvalid) = 0
  BY <1>2, IdleEdge DEF Idle
<1>4. start_d1' = ctrl.start /\ ~start' /\ ctrl.start \in BOOLEAN
  BY <1>1, <1>2, FlagsEdge, Controls DEF Step
<1>5. /\ Len(fifo') = Len(fifo) - One(takes) /\ Len(fifo) - One(takes) \in Nat
      /\ Len(fifo) \in Nat /\ Len(expected) \in Nat
  BY <1>1, <1>3, Moves DEF Around
<1>6. CASE ctrl.start
  <2>1. /\ status' = "busy" /\ size' = ctrl.size
        /\ Len(expected') = Len(expected) - One(takes) + Beats(ctrl.size)
        /\ \A n \in 1 .. Beats(ctrl.size) :
             expected'[Len(expected) - One(takes) + n] = Wanted(ctrl.size, ctrl.offset)[n]
    BY <1>1, <1>6, UserEdge
  <2>2. ctrl.size \in Sizes /\ ctrl.offset \in Offsets
    BY <1>6, Controls DEF Step
  <2>3. /\ total_len_r' = LastBeat(ctrl.size)
        /\ addr_offset_r' = ctrl.offset - (ctrl.offset % BurstBytes)
    BY <1>1, <1>6, FlagsEdge
  <2>4. Total' = Beats(ctrl.size) /\ Beats(ctrl.size) \in Nat
    BY <2>2, <2>3, LastBeatFits DEF Total
  <2>5. ASSUME NEW j \in 1 .. Total'
        PROVE  expected'[Len(fifo') + j] =
                 [addr |-> addr_offset_r' + (j - 1) * LP_DW_BYTES,
                  last |-> j % LP_AXI_BURST_LEN = 0 \/ j = Total']
    <3>1. expected'[Len(fifo') + j] = Wanted(ctrl.size, ctrl.offset)[j]
      BY <1>2, <1>5, <2>1, <2>4
    <3>2. /\ Wanted(ctrl.size, ctrl.offset)[j] =
             [addr |-> ctrl.offset - (ctrl.offset % BurstBytes) + (j - 1) * LP_DW_BYTES,
              last |-> j % LP_AXI_BURST_LEN = 0 \/ j = Beats(ctrl.size)]
      BY <2>2, <2>4, WantedBeats
    <3> QED
      BY <2>3, <2>4, <3>1, <3>2
  <2>6. Awaits(Total)'
    <3>1. /\ Beats(size') = Total' /\ Total' \in 0 .. Total'
          /\ Len(expected') = Len(fifo') + Total'
      BY <1>2, <1>5, <2>1, <2>4
    <3>2. \A j \in 1 .. Total' : Total' - Total' + j = j
      BY <2>4
    <3> QED
      BY <2>5, <3>1, <3>2 DEF Awaits, BeatOf
  <2> QED
    BY <1>3, <1>4, <1>6, <2>1, <2>6 DEF Starting
<1>7. CASE ~ctrl.start
  <2>1. status' # "busy" /\ Len(expected') = Len(fifo')
    BY <1>1, <1>2, <1>5, <1>7, UserEdge
  <2> QED
    BY <1>3, <1>4, <1>7, <2>1 DEF Quiet
<1> QED
  BY <1>4, <1>6, <1>7

\* The request is on its way to the counters; when they are loaded the books
\* are opened, with all of the transfer to go.
LEMMA StartingEdge ==
  ASSUME IInv, ~areset, Starting, NEW ctrl, NEW takes, NEW arready, NEW rvalid,
         Step(ctrl, takes, arready, rvalid)
  PROVE  Starting' \/ Active'
<1>1. Registers /\ Around /\ Stream
  BY DEF IInv
<1>2. Idle /\ status = "busy" /\ (start_d1 <=> ~start) /\ Awaits(Total)
  BY DEF Starting
<1>3. /\ One(rvalid) = 0 /\ ~arvalid_r' /\ ~done' /\ asked' = <<>> /\ returned' = 0
      /\ ar_idle' <=> ~start
  BY <1>2, IdleEdge
<1>4. ~ctrl.start
  BY <1>2, Controls DEF Step
<1>5. ~start_d1' /\ (start' <=> ~start) /\ final_burst_len' = LastLen
  BY <1>1, <1>2, <1>4, FlagsEdge
<1>6. status' = "busy"
  BY <1>1, <1>2, <1>4, UserEdge DEF Idle
<1>7. UNCHANGED <<addr_offset_r, num_transactions, Total, LastLen>>
  BY <1>1, <1>4, MeasuresKept
<1>8. Awaits(Total)'
  <2>1. PICK next : next = Total - One(rvalid)
    OBVIOUS
  <2>2. Total \in Nat /\ One(rvalid) <= Total /\ next = Total
    BY <1>1, <1>3, <2>1, Lengths
  <2>3. Awaits(next)'
    BY <1>2, <1>4, <2>1, <2>2, AwaitsKept
  <2> QED
    BY <1>7, <2>2, <2>3 DEF Awaits
<1>9. CASE ~start
  BY <1>3, <1>5, <1>6, <1>7, <1>8, <1>9 DEF Starting, Idle
<1>10. CASE start
  <2>1. /\ ar_transaction_cntr'.count = num_transactions
        /\ r_transaction_cntr'.count = num_transactions
    BY <1>1, <1>10, CountersEdge DEF Loaded
  <2>2. /\ num_transactions \in Nat
        /\ Total = num_transactions * LP_AXI_BURST_LEN + LastLen + 1
        /\ LastLen \in 0 .. LP_AXI_BURST_LEN - 1 /\ LP_AXI_BURST_LEN \in Nat
    BY <1>1, Lengths, Widths
  <2>3. ToAsk' = num_transactions + 1 /\ ToReturn' = num_transactions + 1
    BY <1>3, <1>10, <2>1 DEF ToAsk, ToReturn
  <2>4. ToCome' = Total'
    <3>1. ToCome' = (num_transactions + 1 - 1) * LP_AXI_BURST_LEN + LastLen + 1 - 0
      BY <1>3, <1>7, <2>2, <2>3 DEF ToCome
    <3>2. num_transactions + 1 - 1 = num_transactions
      BY <2>2
    <3>3. num_transactions * LP_AXI_BURST_LEN \in Nat
      BY <2>2
    <3> QED
      BY <1>7, <2>2, <3>1, <3>2, <3>3
  <2>5. Awaits(ToCome)'
    BY <1>8, <2>4 DEF Awaits
  <2>6. DataBooks'
    <3>1. /\ ToAsk' <= ToReturn' /\ ToReturn' <= num_transactions' + 1
          /\ Len(asked') = ToReturn' - ToAsk' /\ Len(asked') = 0
      BY <1>3, <1>7, <2>2, <2>3
    <3> QED
      BY <1>3, <2>5, <3>1 DEF DataBooks
  <2>7. AddressBooks'
    <3>1. addr' = addr_offset_r
      BY <1>1, <1>10, FlagsEdge
    <3>2. addr_offset_r + (num_transactions + 1 - (num_transactions + 1)) * BurstBytes
            = addr_offset_r
      BY <1>1, <2>2, Widths DEF Registers
    <3> QED
      BY <1>3, <1>5, <1>7, <1>10, <2>3, <3>1, <3>2 DEF AddressBooks, BurstOf
  <2> QED
    BY <1>5, <1>6, <1>10, <2>6, <2>7 DEF Active
<1> QED
  BY <1>9, <1>10

\* What the transfer has still to ask for and to get back after an edge.
LEMMA ToGoKept ==
  ASSUME IInv, ~areset, Active, ~done, NEW ctrl, NEW takes, NEW arready, NEW rvalid,
         Step(ctrl, takes, arready, rvalid)
  PROVE  /\ ToAsk' = ToAsk - One(arready) /\ ToReturn' = ToReturn - One(Whole(rvalid))
         /\ ToAsk \in Nat /\ ToReturn \in Nat /\ One(arready) <= ToAsk
         /\ One(Whole(rvalid)) <= ToReturn
         /\ One(Whole(rvalid)) \in {0, 1} /\ One(arready) \in {0, 1}
<1>1. Registers /\ Around /\ ~start /\ AddressBooks
  BY DEF IInv, Active
<1> DEFINE a == ar_transaction_cntr.count
           c == r_transaction_cntr.count
<1>2. /\ a \in Nat /\ (ar_transaction_cntr.is_zero <=> a = 0)
      /\ c \in Nat /\ (r_transaction_cntr.is_zero <=> c = 0)
  BY <1>1, Widths DEF Registers, Sound, Counters
<1>3. /\ Turned(ar_transaction_cntr, ar_transaction_cntr',
                LP_TRANSACTION_CNTR_WIDTH, FALSE, arready)
      /\ Turned(r_transaction_cntr, r_transaction_cntr',
                LP_TRANSACTION_CNTR_WIDTH, FALSE, Whole(rvalid))
  BY <1>1, CountersEdge
<1>4. /\ ar_idle' <=> (a = 0 /\ arready) \/ ar_idle
      /\ done' <=> Whole(rvalid) /\ c = 0
  BY <1>1, <1>2, FlagsEdge
<1>5. arready => ~ar_idle
  BY <1>1 DEF Step, AddressBooks
<1>6. /\ arready /\ a > 0 => ar_transaction_cntr'.count = a - 1
      /\ ~arready => ar_transaction_cntr'.count = a
      /\ Whole(rvalid) /\ c > 0 => r_transaction_cntr'.count = c - 1
      /\ ~Whole(rvalid) => r_transaction_cntr'.count = c
  BY <1>3 DEF Turned
<1> HIDE DEF a, c
<1>7. /\ ToAsk = IF ar_idle THEN 0 ELSE a + 1
      /\ ToReturn = c + 1
  BY DEF ToAsk, ToReturn, a, c
<1>8. ToAsk' = ToAsk - One(arready) /\ ToAsk \in Nat /\ One(arready) <= ToAsk
  <2>1. CASE arready
    <3>1. One(arready) = 1 /\ ToAsk = a + 1
      BY <1>5, <1>7, <2>1 DEF One
    <3>2. CASE a = 0
      <4>1. ToAsk' = 0
        BY <1>4, <2>1, <3>2 DEF ToAsk
      <4> QED
        BY <3>1, <3>2, <4>1
    <3>3. CASE a > 0
      <4>1. ToAsk' = a - 1 + 1
        BY <1>4, <1>5, <1>6, <2>1, <3>3 DEF ToAsk
      <4> QED
        BY <1>2, <3>1, <4>1
    <3> QED
      BY <1>2, <3>2, <3>3
  <2>2. CASE ~arready
    <3>1. One(arready) = 0
      BY <2>2 DEF One
    <3>2. ToAsk' = IF ar_idle THEN 0 ELSE a + 1
      BY <1>4, <1>6, <2>2 DEF ToAsk
    <3> QED
      BY <1>2, <1>7, <3>1, <3>2
  <2> QED
    BY <2>1, <2>2
<1>9. /\ ToReturn' = ToReturn - One(Whole(rvalid)) /\ ToReturn \in Nat
      /\ One(Whole(rvalid)) <= ToReturn
  <2>1. CASE Whole(rvalid)
    <3>1. One(Whole(rvalid)) = 1
      BY <2>1 DEF One
    <3>2. CASE c = 0
      <4>1. ToReturn' = 0
        BY <1>4, <2>1, <3>2 DEF ToReturn
      <4> QED
        BY <1>7, <3>1, <3>2, <4>1
    <3>3. CASE c > 0
      <4>1. ToReturn' = c - 1 + 1
        BY <1>4, <1>6, <2>1, <3>3 DEF ToReturn
      <4> QED
        BY <1>2, <1>7, <3>1, <4>1
    <3> QED
      BY <1>2, <3>2, <3>3
  <2>2. CASE ~Whole(rvalid)
    <3>1. One(Whole(rvalid)) = 0 /\ ToReturn' = c + 1
      BY <1>4, <1>6, <2>2 DEF One, ToReturn
    <3> QED
      BY <1>2, <1>7, <3>1
  <2> QED
    BY <2>1, <2>2
<1> QED
  BY <1>8, <1>9 DEF One

\* The burst that is offered.
LEMMA Offered ==
  ASSUME Registers, Active, ~ar_idle
  PROVE  [addr |-> addr, len |-> m_axi_arlen] = BurstOf(ToAsk)
<1>1. /\ ToAsk = ar_transaction_cntr.count + 1
      /\ ar_transaction_cntr.is_zero <=> ar_transaction_cntr.count = 0
      /\ ar_transaction_cntr.count \in Nat
  BY Widths DEF ToAsk, Registers, Sound, Counters
<1>2. ar_transaction_cntr.is_zero <=> ToAsk = 1
  BY <1>1
<1>3. m_axi_arlen = IF ToAsk = 1 THEN LastLen ELSE LP_AXI_BURST_LEN - 1
  BY <1>2 DEF m_axi_arlen, Active, AddressBooks
<1> QED
  BY <1>3 DEF Active, AddressBooks, BurstOf

\* A burst that has been accepted joins those that the bus has to return.
LEMMA AskedKept ==
  ASSUME IInv, ~areset, Active, ~done, NEW ctrl, NEW takes, NEW arready, NEW rvalid,
         Step(ctrl, takes, arready, rvalid), ~ctrl.start
  PROVE  /\ Len(asked') = ToReturn' - ToAsk'
         /\ \A i \in 1 .. Len(asked') : asked'[i] = BurstOf(ToReturn' - i + 1)
<1>1. Registers /\ Around /\ AddressBooks /\ DataBooks
  BY DEF IInv, Active
<1> DEFINE out == One(Whole(rvalid))
           t   == ToReturn
<1>2. /\ ToAsk' = ToAsk - One(arready) /\ ToReturn' = t - out
      /\ ToAsk \in Nat /\ t \in Nat
      /\ out \in {0, 1} /\ One(arready) \in {0, 1}
  BY ToGoKept
<1>3. Len(asked) = t - ToAsk /\ Len(asked) \in Nat
  BY <1>1 DEF DataBooks, Around
<1>4. \A i \in 1 .. Len(asked) : asked[i] = BurstOf(t - i + 1)
  BY <1>1 DEF DataBooks
<1>5. /\ Len(asked) - out \in Nat
      /\ Len(asked') = Len(asked) - out + One(arready)
      /\ Shifted(asked', asked, out)
      /\ arready => asked'[Len(asked) - out + 1] = [addr |-> addr, len |-> m_axi_arlen]
  BY <1>1, BusEdge
<1>6. arready => ~ar_idle
  BY <1>1 DEF Step, AddressBooks
<1> HIDE DEF out, t
<1>7. Len(asked') = ToReturn' - ToAsk'
  BY <1>2, <1>3, <1>5
<1>8. ASSUME NEW i \in 1 .. Len(asked')
      PROVE  asked'[i] = BurstOf(ToReturn' - i + 1)
  <2>1. CASE i \in 1 .. Len(asked) - out
    <3>1. i + out \in 1 .. Len(asked) /\ t - (i + out) + 1 = ToReturn' - i + 1
      BY <1>2, <1>3, <2>1
    <3>2. asked'[i] = asked[i + out]
      BY <1>5, <2>1 DEF Shifted
    <3> QED
      BY <1>4, <3>1, <3>2
  <2>2. CASE i \notin 1 .. Len(asked) - out
    <3>1. i = Len(asked) - out + 1 /\ One(arready) = 1
      BY <1>2, <1>5, <2>2
    <3>2. arready
      BY <3>1 DEF One
    <3>3. asked'[i] = BurstOf(ToAsk)
      BY <1>1, <1>5, <1>6, <3>1, <3>2, Offered
    <3>4. ToReturn' - i + 1 = ToAsk
      BY <1>2, <1>3, <3>1
    <3> QED
      BY <3>3, <3>4
  <2> QED
    BY <2>1, <2>2
<1> QED
  BY <1>7, <1>8

\* The beats to come, one fewer when one is returned.
LEMMA ToComeKept ==
  ASSUME IInv, ~areset, Active, ~done, NEW ctrl, NEW takes, NEW arready, NEW rvalid,
         Step(ctrl, takes, arready, rvalid), ~ctrl.start
  PROVE  ToCome' = ToCome - One(rvalid)
<1>1. Registers /\ Around
  BY DEF IInv
<1> DEFINE B == LP_AXI_BURST_LEN
           t == ToReturn
<1>2. /\ ToReturn' = t - One(Whole(rvalid)) /\ t \in Nat /\ t >= 1
      /\ One(Whole(rvalid)) \in {0, 1}
  <2>1. t >= 1
    BY <1>1, Widths DEF ToReturn, Registers, Sound, Counters
  <2> QED
    BY <2>1, ToGoKept
<1>3. returned' = IF Whole(rvalid) THEN 0
                  ELSE IF rvalid THEN returned + 1 ELSE returned
  BY <1>1, BusEdge
<1>4. /\ B \in Nat /\ B >= 1 /\ LastLen \in 0 .. B - 1 /\ returned \in 0 .. B - 1
      /\ UNCHANGED LastLen
  BY <1>1, Lengths, Widths, MeasuresKept DEF Around
<1>5. ToCome = (t - 1) * B + LastLen + 1 - returned
  BY <1>2 DEF ToCome
<1>6. ToCome' = IF ToReturn' = 0 THEN 0
                ELSE (ToReturn' - 1) * B + LastLen + 1 - returned'
  BY <1>4 DEF ToCome
<1> HIDE DEF B, t
<1>7. (t - 1) * B \in Nat
  <2>1. t - 1 \in Nat
    BY <1>2
  <2> QED
    BY <1>4, <2>1
<1>8. CASE Whole(rvalid)
  <2>1. One(Whole(rvalid)) = 1 /\ One(rvalid) = 1 /\ rvalid
    BY <1>8 DEF One, Whole
  <2>2. asked # <<>> /\ returned = asked[1].len /\ asked[1] = BurstOf(t)
    BY <1>1, <1>8, <2>1, UnderWay, Returned DEF Step, Whole, t
  <2>3. returned = IF t = 1 THEN LastLen ELSE B - 1
    BY <2>2 DEF BurstOf, B
  <2>4. CASE t = 1
    <3>1. ToReturn' = t - 1
      BY <1>2, <2>1
    <3>2. ToReturn' = 0
      BY <2>4, <3>1
    <3>3. (t - 1) * B = 0
      BY <1>4, <2>4
    <3>4. ToCome = 1 /\ ToCome' = 0
      BY <1>4, <1>5, <1>6, <2>3, <2>4, <3>2, <3>3
    <3>5. One(rvalid) = 1
      BY <2>1
    <3> QED
      BY <3>4, <3>5
  <2>5. CASE t > 1
    <3>1. ToReturn' = t - 1
      BY <1>2, <2>1
    <3>2. ToReturn' # 0 /\ ToReturn' - 1 = (t - 1) - 1
      BY <1>2, <2>5, <3>1
    <3>3. ((t - 1) - 1) * B = (t - 1) * B - B
      BY <1>2, <1>4
    <3>4. ToCome' = (t - 1) * B - B + LastLen + 1 - 0
      BY <1>3, <1>6, <1>8, <3>2, <3>3
    <3>5. ToCome = (t - 1) * B + LastLen + 1 - (B - 1)
      BY <1>2, <1>5, <2>3, <2>5
    <3>6. ToCome' = ToCome - 1
      BY <1>4, <1>7, <3>4, <3>5
    <3> QED
      BY <2>1, <3>6
  <2> QED
    BY <1>2, <2>4, <2>5
<1>9. CASE ~Whole(rvalid)
  <2>1. ToReturn' = t
    BY <1>2, <1>9 DEF One
  <2>2. returned' = returned + One(rvalid) /\ One(rvalid) \in {0, 1}
    BY <1>3, <1>4, <1>9 DEF One
  <2>3. ToCome' = (t - 1) * B + LastLen + 1 - returned'
    BY <1>2, <1>6, <2>1
  <2> QED
    BY <1>4, <1>5, <1>7, <2>2, <2>3
<1> QED
  BY <1>8, <1>9

\* How much of the burst at the head has been returned.
LEMMA ReturnedKept ==
  ASSUME IInv, ~areset, Active, ~done, NEW ctrl, NEW takes, NEW arready, NEW rvalid,
         Step(ctrl, takes, arready, rvalid)
  PROVE  IF asked' = <<>> THEN returned' = 0 ELSE returned' <= asked'[1].len
<1>1. Registers /\ Around /\ DataBooks
  BY DEF IInv, Active
<1>2. /\ asked' \in Seq(Burst)
      /\ Len(asked') = Len(asked) - One(Whole(rvalid)) + One(arready)
      /\ Shifted(asked', asked, One(Whole(rvalid)))
      /\ returned' = IF Whole(rvalid) THEN 0
                     ELSE IF rvalid THEN returned + 1 ELSE returned
  BY <1>1, BusEdge
<1>3. asked' # <<>> => asked'[1].len \in Nat
  <2> SUFFICES ASSUME asked' # <<>> PROVE asked'[1].len \in Nat
    OBVIOUS
  <2>1. asked'[1] \in Burst
    BY <1>2
  <2> QED
    BY <2>1, Widths DEF Burst
<1>4. CASE Whole(rvalid)
  <2>1. returned' = 0
    BY <1>2, <1>4
  <2> QED
    BY <1>3, <2>1
<1>5. CASE ~Whole(rvalid) /\ asked = <<>>
  <2>1. ~rvalid /\ returned = 0
    BY <1>1, <1>5 DEF Step, DataBooks
  <2> QED
    BY <1>2, <1>3, <1>5, <2>1
<1>6. CASE ~Whole(rvalid) /\ asked # <<>>
  <2>1. One(Whole(rvalid)) = 0 /\ One(arready) \in {0, 1}
    BY <1>6 DEF One
  <2>2. Len(asked) \in Nat \ {0} /\ asked[1] \in Burst /\ Head(asked) = asked[1]
    BY <1>1, <1>6, Returned
  <2>3. asked' # <<>> /\ asked'[1] = asked[1 + 0]
    <3>1. Len(asked') >= 1 /\ 1 \in 1 .. Len(asked) - 0
      BY <1>2, <2>1, <2>2
    <3> QED
      BY <1>2, <2>1, <3>1 DEF Shifted
  <2>4. returned \in Nat /\ returned <= asked[1].len /\ asked[1].len \in Nat
    BY <1>1, <1>6, <2>2, Widths DEF Around, DataBooks, Burst
  <2>5. rvalid => returned # asked[1].len
    BY <1>6, <2>2 DEF Whole
  <2> QED
    BY <1>2, <1>6, <2>3, <2>4, <2>5
<1> QED
  BY <1>4, <1>5, <1>6

\* The address that is offered, or would be next.
LEMMA AddressKept ==
  ASSUME IInv, ~areset, Active, ~done, NEW ctrl, NEW takes, NEW arready, NEW rvalid,
         Step(ctrl, takes, arready, rvalid), ~ctrl.start
  PROVE  AddressBooks'
<1>1. Registers /\ Around /\ AddressBooks /\ ~start
  BY DEF IInv, Active
<1>2. /\ arvalid_r' <=> /\ ~areset
                        /\ \/ ~ar_idle /\ ~ar_to_r_cntr.is_zero /\ ~arvalid_r
                           \/ arvalid_r /\ ~arready
      /\ ar_idle' <=> areset \/ (~start /\ ((ar_transaction_cntr.is_zero /\ arready) \/ ar_idle))
      /\ addr' = IF start THEN addr_offset_r
                 ELSE IF arready THEN addr + BurstBytes ELSE addr
      /\ final_burst_len' = LastLen
  BY <1>1, FlagsEdge
<1>3. UNCHANGED <<addr_offset_r, num_transactions, LastLen>>
  BY <1>1, MeasuresKept
<1>4. final_burst_len' = LastLen'
  BY <1>2, <1>3
<1>5. arvalid_r' => ~ar_idle'
  <2>1. (arvalid_r => ~ar_idle) /\ (arready => arvalid_r)
    BY <1>1 DEF AddressBooks, Step
  <2> QED
    BY <1>1, <1>2, <2>1, Zenon
<1>6. ASSUME ~ar_idle'
      PROVE  addr' = (BurstOf(ToAsk).addr)'
  <2>1. ~ar_idle /\ addr = BurstOf(ToAsk).addr
    BY <1>1, <1>2, <1>6 DEF AddressBooks
  <2>2. ToAsk' = ToAsk - One(arready) /\ ToAsk \in Nat
    BY ToGoKept
  <2>3. addr' = BurstOf(ToAsk').addr
    <3>1. CASE ~arready
      <4>1. ToAsk' = ToAsk
        BY <2>2, <3>1 DEF One
      <4> QED
        BY <1>1, <1>2, <2>1, <3>1, <4>1
    <3>2. CASE arready
      <4> DEFINE k == num_transactions + 1 - ToAsk
      <4>1. /\ addr' = addr + BurstBytes /\ addr = addr_offset_r + k * BurstBytes
            /\ ToAsk' = ToAsk - 1
        BY <1>1, <1>2, <2>1, <2>2, <3>2 DEF One, BurstOf
      <4>2. /\ BurstBytes \in Nat /\ k \in Int /\ num_transactions \in Nat
            /\ addr_offset_r \in Nat
        BY <1>1, <2>2, Lengths, Widths DEF Registers
      <4>3. num_transactions + 1 - (ToAsk - 1) = k + 1
        BY <2>2, <4>2
      <4>4. BurstOf(ToAsk - 1).addr = addr_offset_r + (k + 1) * BurstBytes
        BY <4>3 DEF BurstOf
      <4> HIDE DEF k
      <4>5. (k + 1) * BurstBytes = k * BurstBytes + BurstBytes /\ k * BurstBytes \in Int
        BY <4>2
      <4> QED
        BY <4>1, <4>2, <4>4, <4>5
    <3> QED
      BY <3>1, <3>2
  <2> QED
    BY <1>3, <2>3 DEF BurstOf
<1> QED
  BY <1>4, <1>5, <1>6 DEF AddressBooks

\* A transfer goes on until done has told the user.
LEMMA ActiveEdge ==
  ASSUME IInv, ~areset, Active, NEW ctrl, NEW takes, NEW arready, NEW rvalid,
         Step(ctrl, takes, arready, rvalid)
  PROVE  Active' \/ Quiet'
<1>1. Registers /\ Around /\ AddressBooks /\ DataBooks
  BY DEF IInv, Active
<1>2. ~ctrl.start
  BY Controls DEF Step, Active
<1>3. Stream
  BY DEF IInv
<1>4. ~start_d1' /\ ~start' /\ status' = IF done THEN "done" ELSE "busy"
  <2>1. ~start_d1' /\ ~start'
    BY <1>1, <1>2, FlagsEdge DEF Active
  <2>2. status' = IF done THEN "done" ELSE status
    BY <1>1, <1>2, <1>3, UserEdge
  <2> QED
    BY <2>1, <2>2 DEF Active
<1>5. CASE done
  <2>1. ToReturn = 0 /\ ToCome = 0
    BY <1>5 DEF ToReturn, ToCome
  <2>2. ToAsk = 0 /\ Len(asked) = 0
    <3>1. ToAsk \in Nat
      BY <1>1, Widths DEF ToAsk, Registers, Sound, Counters
    <3> QED
      BY <1>1, <2>1, <3>1 DEF DataBooks
  <2>3. ar_idle
    <3> SUFFICES ASSUME ~ar_idle PROVE FALSE
      OBVIOUS
    <3>1. ToAsk = ar_transaction_cntr.count + 1 /\ ar_transaction_cntr.count \in Nat
      BY <1>1, Widths DEF ToAsk, Registers, Sound, Counters
    <3> QED
      BY <2>2, <3>1
  <2>4. ~arvalid_r /\ asked = <<>> /\ returned = 0
    BY <1>1, <2>2, <2>3 DEF AddressBooks, DataBooks, Around
  <2>5. ~rvalid /\ ~arready /\ ~Whole(rvalid)
    BY <2>4 DEF Step, Whole
  <2>6. /\ One(rvalid) = 0 /\ One(arready) = 0 /\ One(Whole(rvalid)) = 0
    BY <2>5 DEF One
  <2>7. ~done' /\ ~arvalid_r' /\ ar_idle'
    BY <1>1, <2>3, <2>4, <2>5, FlagsEdge DEF Active
  <2>8. asked' = <<>> /\ returned' = 0
    <3>1. /\ asked' \in Seq(Burst)
          /\ Len(asked') = Len(asked) - One(Whole(rvalid)) + One(arready)
          /\ returned' = returned
      BY <1>1, <2>5, BusEdge
    <3> QED
      BY <2>2, <2>4, <2>6, <3>1
  <2>9. Len(expected') = Len(fifo')
    <3>1. Len(expected) = Len(fifo) + 0 /\ Len(fifo) \in Nat
      BY <1>1, <2>1 DEF DataBooks, Awaits, Around
    <3>2. /\ Len(fifo') = Len(fifo) - One(takes) + One(rvalid)
          /\ One(takes) \in {0, 1}
      BY Moves
    <3>3. Len(expected') = Len(expected) - One(takes)
      BY <1>1, <1>2, <1>3, UserEdge
    <3> QED
      BY <2>6, <3>1, <3>2, <3>3
  <2> QED
    BY <1>4, <1>5, <2>7, <2>8, <2>9 DEF Quiet, Idle
<1>6. CASE ~done
  <2>1. /\ ToAsk' = ToAsk - One(arready) /\ ToReturn' = ToReturn - One(Whole(rvalid))
        /\ ToAsk \in Nat /\ ToReturn \in Nat /\ One(arready) <= ToAsk
        /\ One(Whole(rvalid)) <= ToReturn
        /\ One(Whole(rvalid)) \in {0, 1} /\ One(arready) \in {0, 1}
    BY <1>6, ToGoKept
  <2>2. /\ Len(asked') = ToReturn' - ToAsk'
        /\ \A i \in 1 .. Len(asked') : asked'[i] = BurstOf(ToReturn' - i + 1)
    BY <1>2, <1>6, AskedKept
  <2>3. UNCHANGED <<addr_offset_r, num_transactions, LastLen>>
    BY <1>1, <1>2, MeasuresKept
  <2>4. \A i \in 1 .. Len(asked') : asked'[i] = (BurstOf(ToReturn - i + 1))'
    BY <2>2, <2>3 DEF BurstOf
  <2>5. ToAsk' <= ToReturn' /\ ToReturn' <= num_transactions' + 1
    <3>1. Len(asked') \in Nat
      BY <1>1, BusEdge
    <3>2. ToReturn <= num_transactions + 1 /\ num_transactions \in Nat
      BY <1>1, Lengths DEF DataBooks
    <3>3. ToAsk' <= ToReturn'
      BY <2>1, <2>2, <3>1
    <3> QED
      BY <2>1, <2>3, <3>2, <3>3
  <2>6. IF asked' = <<>> THEN returned' = 0 ELSE returned' <= asked'[1].len
    BY <1>6, ReturnedKept
  <2>7. Awaits(ToCome)'
    <3>1. Awaits(ToCome) /\ ToCome \in Nat
      BY <1>1, Lengths DEF DataBooks, Awaits
    <3>2. One(rvalid) <= ToCome
      <4>1. CASE rvalid
        <5>1. ToCome \in 1 .. Total /\ Total \in Nat
          BY <1>1, <4>1, NextBeat, Lengths DEF Step
        <5> QED
          BY <4>1, <5>1 DEF One
      <4>2. CASE ~rvalid
        BY <3>1, <4>2 DEF One
      <4> QED
        BY <4>1, <4>2
    <3>3. PICK next : next = ToCome - One(rvalid)
      OBVIOUS
    <3>4. Awaits(next)'
      BY <1>2, <3>1, <3>2, <3>3, AwaitsKept
    <3>5. ToCome' = next
      BY <1>2, <1>6, <3>3, ToComeKept
    <3> QED
      BY <3>4, <3>5 DEF Awaits
  <2>8. DataBooks'
    BY <2>2, <2>4, <2>5, <2>6, <2>7 DEF DataBooks
  <2> QED
    BY <1>2, <1>4, <1>6, <2>8, AddressKept DEF Active
<1> QED
  BY <1>5, <1>6

\* A reset empties everything, and the registers that it does not reach have
\* followed before it ends.
LEMMA ResetEdge ==
  ASSUME IInv, areset, NEW ctrl, NEW takes, NEW arready, NEW rvalid,
         Step(ctrl, takes, arready, rvalid)
  PROVE  IInv'
<1>1. Registers /\ Around /\ Phase
  BY DEF IInv
<1>2. ~rvalid /\ ~ctrl.start /\ ~Whole(rvalid)
  BY Controls DEF Step, Whole
<1>3. Reset /\ reset_left' = reset_left - 1
  BY Parts
<1>4. /\ status' # "busy" /\ status' \in {"idle", "busy", "done", "abandoned"}
      /\ size' \in Nat /\ expected' = <<>> /\ asked' = <<>> /\ returned' = 0
  BY <1>1, <1>3 DEF Reset, Around
<1>5. /\ ~arvalid_r' /\ ar_idle' /\ ~done' /\ ~start_d1' /\ start' = start_d1
  BY <1>1, <1>2, FlagsEdge
<1>6. fifo' = <<>> /\ ar_to_r_cntr'.count = C_MAX_OUTSTANDING
  BY CountersReset DEF Loaded
<1>7. Registers'
  BY <1>1, RegistersKept
<1>8. /\ reset_left \in 1 .. ResetEdges /\ ResetEdges \in Nat /\ ResetEdges > 1
  BY <1>1, Widths DEF areset, Around
<1>9. Around'
  <2>1. fifo' \in Seq(Entries(ReadBeat)) /\ expected' \in Seq(ReadBeat) /\ asked' \in Seq(Burst)
    BY <1>4, <1>6
  <2>2. returned' \in 0 .. LP_AXI_BURST_LEN - 1 /\ reset_left' \in 0 .. ResetEdges
    BY <1>3, <1>4, <1>8, Widths
  <2> QED
    BY <1>4, <2>1, <2>2 DEF Around
<1>10. Len(fifo') = 0 /\ Len(expected') = 0 /\ Len(asked') = 0
  BY <1>4, <1>6
<1>11. Waits' /\ Stream'
  BY <1>10 DEF Waits, Stream
<1>12. Vacancy'
  <2>1. PICK ends : ends = [i \in 0 .. 0 |-> 0]
    OBVIOUS
  <2>2. ends \in [0 .. 0 -> Nat] /\ ends[0] = 0 /\ 0 \in 0 .. 0
    BY <2>1
  <2>3. Ending(ends)'
    BY <1>10, <2>2 DEF Ending
  <2>4. ends[0] + Len(asked') + ar_to_r_cntr'.count = C_MAX_OUTSTANDING
    BY <1>6, <1>10, <2>2, Widths
  <2>5. \A i \in 0 .. Len(fifo') : Len(fifo') - i <= LP_AXI_BURST_LEN * ends[i] + returned'
    <3>1. LP_AXI_BURST_LEN * 0 = 0
      BY Widths
    <3> QED
      BY <1>4, <1>10, <2>2, <3>1
  <2> QED
    BY <1>5, <2>3, <2>4, <2>5 DEF Vacancy
<1>13. Idle' /\ Len(expected') = Len(fifo')
  BY <1>4, <1>5, <1>10 DEF Idle
<1>14. Phase'
  <2>1. CASE reset_left = ResetEdges
    <3>1. reset_left' \in 1 .. ResetEdges - 1
      BY <1>3, <1>8, <2>1
    <3> QED
      BY <1>4, <1>5, <1>13, <3>1 DEF Phase, Resetting
  <2>2. CASE reset_left # ResetEdges
    <3>1. ~start'
      BY <1>1, <1>5, <1>8, <2>2 DEF Phase, Resetting
    <3>2. CASE reset_left = 1
      <4>1. reset_left' = 0
        BY <1>3, <3>2
      <4> QED
        BY <1>4, <1>5, <1>13, <3>1, <4>1 DEF Phase, Quiet
    <3>3. CASE reset_left # 1
      <4>1. reset_left' \in 1 .. ResetEdges - 1
        BY <1>3, <1>8, <3>3
      <4> QED
        BY <1>4, <1>5, <1>13, <4>1 DEF Phase, Resetting
    <3> QED
      BY <3>2, <3>3
  <2> QED
    BY <2>1, <2>2
<1> QED
  BY <1>7, <1>9, <1>11, <1>12, <1>14 DEF IInv

-----------------------------------------------------------------------------
(***************************************************************************)
(* The theorems.                                                           *)
(***************************************************************************)
\* After configuration nothing is under way.
LEMMA InitIInv == Init => IInv
<1> SUFFICES ASSUME Init PROVE IInv
  OBVIOUS
<1>1. /\ 0 \in 0 .. 2^LP_TRANSACTION_CNTR_WIDTH - 1
      /\ C_MAX_OUTSTANDING \in 0 .. 2^LP_OUTSTANDING_CNTR_WIDTH - 1
  BY Widths
<1>2. /\ Sound(ar_transaction_cntr, LP_TRANSACTION_CNTR_WIDTH)
      /\ Sound(r_transaction_cntr, LP_TRANSACTION_CNTR_WIDTH)
      /\ Sound(ar_to_r_cntr, LP_OUTSTANDING_CNTR_WIDTH)
      /\ ar_to_r_cntr.count = C_MAX_OUTSTANDING
  BY <1>1, CounterLoads DEF Init, ReadMasterInit
<1>3. Registers
  <2>1. num_transactions = 0 /\ total_len_r = 0
    <3>1. LP_AXI_BURST_LEN \in Nat \ {0} /\ total_len_r = 0
      BY Widths DEF Init, ReadMasterInit
    <3> QED
      BY <3>1 DEF num_transactions
  <2>2. num_transactions < 2^LP_TRANSACTION_CNTR_WIDTH
    BY <2>1, Widths
  <2>3. /\ {done, start_d1, start, ar_idle, arvalid_r} \subseteq BOOLEAN
        /\ addr_offset_r \in Nat /\ addr \in Nat
    BY DEF Init, ReadMasterInit
  <2>4. final_burst_len \in 0 .. LP_AXI_BURST_LEN - 1
    BY Widths DEF Init, ReadMasterInit
  <2> QED
    BY <1>2, <2>1, <2>2, <2>3, <2>4 DEF Registers
<1>4. /\ fifo = <<>> /\ expected = <<>> /\ asked = <<>> /\ returned = 0 /\ size = 0
      /\ reset_left = 0 /\ status = "idle" /\ ar_idle /\ ~arvalid_r /\ ~done
      /\ ~start_d1 /\ ~start
  BY DEF Init, ReadMasterInit
<1>5. Around
  <2>1. fifo \in Seq(Entries(ReadBeat)) /\ expected \in Seq(ReadBeat) /\ asked \in Seq(Burst)
    BY <1>4
  <2>2. returned \in 0 .. LP_AXI_BURST_LEN - 1 /\ reset_left \in 0 .. ResetEdges
    BY <1>4, Widths
  <2> QED
    BY <1>4, <2>1, <2>2 DEF Around
<1>6. Len(fifo) = 0 /\ Len(expected) = 0 /\ Len(asked) = 0
  BY <1>4
<1>7. Waits /\ Stream
  BY <1>6 DEF Waits, Stream
<1>8. Vacancy
  <2>1. PICK ends : ends = [i \in 0 .. 0 |-> 0]
    OBVIOUS
  <2>2. ends \in [0 .. 0 -> Nat] /\ ends[0] = 0 /\ 0 \in 0 .. 0
    BY <2>1
  <2>3. Ending(ends)
    BY <1>6, <2>2 DEF Ending
  <2>4. ends[0] + Len(asked) + ar_to_r_cntr.count = C_MAX_OUTSTANDING
    BY <1>2, <1>6, <2>2, Widths
  <2>5. \A i \in 0 .. Len(fifo) : Len(fifo) - i <= LP_AXI_BURST_LEN * ends[i] + returned
    <3>1. LP_AXI_BURST_LEN * 0 = 0
      BY Widths
    <3> QED
      BY <1>4, <1>6, <2>2, <3>1
  <2> QED
    BY <1>4, <2>3, <2>4, <2>5 DEF Vacancy
<1>9. Phase
  BY <1>4, <1>6 DEF Phase, Quiet, Idle
<1> QED
  BY <1>3, <1>5, <1>7, <1>8, <1>9 DEF IInv

\* Each edge is one with its choices named.
LEMMA NextSteps ==
  ASSUME Next
  PROVE  \E takes, arready, rvalid \in BOOLEAN, ctrl \in Ctrls :
           Step(ctrl, takes, arready, rvalid)
<1>1. PICK takes \in BOOLEAN, arready \in BOOLEAN, rvalid \in BOOLEAN :
        Clk(takes, arready, rvalid)
  BY DEF Next
<1>2. PICK ctrl \in IF areset THEN {NoCtrl} ELSE Ctrls :
        Edge(ctrl, takes, Inputs(arready, rvalid))
  BY <1>1 DEF Clk, Inputs, Given
<1>3. Step(ctrl, takes, arready, rvalid) /\ ctrl \in Ctrls
  BY <1>1, <1>2 DEF Clk, Step, Ctrls
<1> QED
  BY <1>3

\* Each edge keeps the invariant.
LEMMA NextIInv == IInv /\ [Next]_vars => IInv'
<1> SUFFICES ASSUME IInv, [Next]_vars PROVE IInv'
  OBVIOUS
<1>1. CASE Next
  <2>1. PICK takes \in BOOLEAN, arready \in BOOLEAN, rvalid \in BOOLEAN, ctrl \in Ctrls :
          Step(ctrl, takes, arready, rvalid)
    BY <1>1, NextSteps
  <2>2. Registers /\ Around /\ Stream /\ Phase
    BY DEF IInv
  <2>3. CASE areset
    BY <2>1, <2>3, ResetEdge
  <2>4. CASE ~areset
    <3>1. Registers' /\ Around' /\ Waits' /\ Stream' /\ Vacancy'
      BY <2>1, <2>2, <2>4, RegistersKept, AroundKept, StreamKept, VacancyKept
    <3>2. Quiet \/ Starting \/ Active
      BY <2>2, <2>4 DEF Phase, Resetting, areset
    <3>3. Quiet' \/ Starting' \/ Active'
      BY <2>1, <2>4, <3>2, QuietEdge, StartingEdge, ActiveEdge
    <3>4. reset_left' \in {0, ResetEdges}
      BY <2>1, <2>2, <2>4, UserEdge
    <3> QED
      BY <3>1, <3>3, <3>4 DEF IInv, Phase
  <2> QED
    BY <2>3, <2>4
<1>2. CASE UNCHANGED vars
  BY <1>2 DEF vars, master_vars, user_vars, IInv, Registers, Around, Waits, Stream, Vacancy,
     Ending, Phase, Quiet, Starting, Active, Resetting, Idle, AddressBooks, DataBooks, Awaits,
     BurstOf, BeatOf, Total, LastLen, ToAsk, ToReturn, ToCome, num_transactions
<1> QED
  BY <1>1, <1>2

\* Every transfer's books are right: which bursts the bus has still to return,
\* which beats the user has still to take, and how much room is left.
THEOREM BooksAreKept == Spec => []IInv
BY InitIInv, NextIInv, PTL DEF Spec

\* The registers and the counters stay in their ranges.
THEOREM TypesHold == Spec => []TypeOK
<1>1. IInv => TypeOK
  <2> SUFFICES ASSUME IInv PROVE TypeOK
    OBVIOUS
  <2>1. Registers /\ Around /\ Waits
    BY DEF IInv
  <2>2. /\ {total_len_r, addr_offset_r, addr, returned} \subseteq Nat
        /\ final_burst_len \in 0 .. LP_AXI_BURST_LEN - 1
        /\ {done, start_d1, start, ar_idle, arvalid_r} \subseteq BOOLEAN
        /\ status \in {"idle", "busy", "done", "abandoned"}
    BY <2>1 DEF Registers, Around
  <2>3. /\ {ar_transaction_cntr, r_transaction_cntr} \subseteq Counters(LP_TRANSACTION_CNTR_WIDTH)
        /\ ar_to_r_cntr \in Counters(LP_OUTSTANDING_CNTR_WIDTH)
    BY <2>1 DEF Registers, Sound
  <2>4. \A b \in ToSet(fifo) : b.wait \in Nat /\ \E d \in FifoDelays : b.wait <= d
    <3> SUFFICES ASSUME NEW b \in ToSet(fifo)
                 PROVE  b.wait \in Nat /\ \E d \in FifoDelays : b.wait <= d
      OBVIOUS
    <3>1. fifo \in Seq(Entries(ReadBeat))
      BY <2>1 DEF Around
    <3>2. PICK i \in 1 .. Len(fifo) : b = fifo[i]
      BY <3>1 DEF ToSet
    <3>3. fifo[i].wait \in Nat
      BY <3>1, EntryFields
    <3>4. \E d \in FifoDelays : fifo[i].wait <= d
      BY <2>1 DEF Waits
    <3> QED
      BY <3>2, <3>3, <3>4
  <2>5. returned > 0 => asked # <<>> /\ returned <= Head(asked).len
    <3> SUFFICES ASSUME returned > 0 PROVE asked # <<>> /\ returned <= Head(asked).len
      OBVIOUS
    <3>1. asked # <<>>
      BY DEF IInv, Phase, Quiet, Starting, Resetting, Idle, Active, DataBooks
    <3> QED
      BY <2>1, <3>1, UnderWay, Returned
  <2> QED
    BY <2>2, <2>3, <2>4, <2>5 DEF TypeOK
<1> QED
  BY <1>1, BooksAreKept, PTL

\* The FIFO has room for every beat that the bus may still return, though
\* rready never refuses one and the last beats of an earlier transfer may
\* still be in it (source comment on lines 302 to 304).
THEOREM RoomIsKept == Spec => []RoomForWhatIsAsked
<1>1. IInv => RoomForWhatIsAsked
  BY Room DEF RoomForWhatIsAsked
<1> QED
  BY <1>1, BooksAreKept, PTL

\* AXI's rule for addresses (vdf_axi_read_master.sv:257): what is offered stays
\* as it is until it is accepted, and is accepted as it was offered.
THEOREM OffersAreHeld == Spec => OffersHold
<1> DEFINE Holds ==
      ~areset /\ arvalid_r =>
        \/ arvalid_r' /\ addr' = addr /\ m_axi_arlen' = m_axi_arlen
        \/ asked' # <<>> /\ Last(asked') = [addr |-> addr, len |-> m_axi_arlen]
<1>1. IInv /\ [Next]_vars => [Holds]_vars
  <2> SUFFICES ASSUME IInv, Next, ~areset, arvalid_r
               PROVE  \/ arvalid_r' /\ addr' = addr /\ m_axi_arlen' = m_axi_arlen
                      \/ asked' # <<>> /\ Last(asked') = [addr |-> addr, len |-> m_axi_arlen]
    OBVIOUS
  <2>1. PICK takes \in BOOLEAN, arready \in BOOLEAN, rvalid \in BOOLEAN, ctrl \in Ctrls :
          Step(ctrl, takes, arready, rvalid)
    BY NextSteps
  <2>2. Registers /\ Around
    BY DEF IInv
  <2>3. ~start /\ ~start_d1 /\ final_burst_len = LastLen
    BY DEF IInv, Phase, Quiet, Starting, Active, Resetting, Idle, AddressBooks
  <2>4. CASE arready
    <3>1. /\ asked' \in Seq(Burst) /\ Len(asked) - One(Whole(rvalid)) \in Nat
          /\ Len(asked') = Len(asked) - One(Whole(rvalid)) + One(arready)
          /\ asked'[Len(asked) - One(Whole(rvalid)) + 1] = [addr |-> addr, len |-> m_axi_arlen]
      BY <2>1, <2>2, <2>4, BusEdge
    <3>2. One(arready) = 1
      BY <2>4 DEF One
    <3>3. asked' # <<>> /\ Len(asked') = Len(asked) - One(Whole(rvalid)) + 1
      BY <3>1, <3>2
    <3> QED
      BY <3>1, <3>3 DEF Last
  <2>5. CASE ~arready
    <3>1. arvalid_r' /\ addr' = addr /\ ~start' /\ final_burst_len' = final_burst_len
      BY <2>1, <2>2, <2>3, <2>5, FlagsEdge
    <3>2. ar_transaction_cntr' = ar_transaction_cntr
      BY <2>1, <2>2, <2>3, <2>5, CountersEdge DEF Turned
    <3> QED
      BY <2>3, <3>1, <3>2 DEF m_axi_arlen
  <2> QED
    BY <2>4, <2>5
<1> QED
  BY <1>1, BooksAreKept, PTL DEF Spec, OffersHold

-----------------------------------------------------------------------------
(***************************************************************************)
(* What the read master promises its user.                                 *)
(***************************************************************************)
\* A FIFO that holds the first of the beats that are expected.
LEMMA Prefixed ==
  ASSUME NEW D, NEW f \in Seq(Entries(D)), NEW e \in Seq(D),
         Len(f) <= Len(e), \A i \in 1 .. Len(f) : f[i].beat = e[i]
  PROVE  IsPrefix([i \in DOMAIN f |-> f[i].beat], e)
<1>1. PICK b : b = [i \in DOMAIN f |-> f[i].beat]
  OBVIOUS
<1>2. DOMAIN f = 1 .. Len(f) /\ Len(f) \in Nat /\ Len(e) \in Nat
  OBVIOUS
<1>3. \A i \in 1 .. Len(f) : b[i] = e[i] /\ b[i] \in D /\ e[i] \in D
  BY <1>1, <1>2
<1>4. b \in Seq(D) /\ Len(b) = Len(f)
  <2>1. b \in [1 .. Len(f) -> D]
    BY <1>1, <1>2, <1>3
  <2> QED
    BY <1>2, <2>1
<1> DEFINE head == SubSeq(e, 1, Len(b))
<1>5. head \in Seq(D) /\ Len(head) = Len(b) /\ \A i \in 1 .. Len(b) : head[i] = e[i]
  <2>1. \A i \in 1 .. Len(b) : e[i] \in D
    BY <1>3, <1>4
  <2> QED
    BY <1>2, <1>4, <2>1
<1> HIDE DEF head
<1>6. b = head
  BY <1>3, <1>4, <1>5, SeqEqual
<1>7. SubSeq(b, 1, Len(b)) = b
  BY <1>4, SubSeqFull
<1> QED
  BY <1>1, <1>2, <1>4, <1>6, <1>7 DEF IsPrefix, head

\* What has arrived is what is no longer to come.
LEMMA ArrivedIs ==
  IInv => Arrived = Beats(size) - (Len(expected) - Len(fifo))
<1> SUFFICES ASSUME IInv PROVE Arrived = Beats(size) - (Len(expected) - Len(fifo))
  OBVIOUS
<1>1. /\ fifo \in Seq(Entries(ReadBeat)) /\ expected \in Seq(ReadBeat)
      /\ Len(fifo) <= Len(expected) /\ \A i \in 1 .. Len(fifo) : fifo[i].beat = expected[i]
  BY DEF IInv, Around, Stream
<1>2. IsPrefix([i \in DOMAIN fifo |-> fifo[i].beat], expected)
  BY <1>1, Prefixed
<1> QED
  BY <1>2 DEF Arrived

\* Each step of the read master is one that its promise allows.
LEMMA TransferStep ==
  ASSUME IInv, IInv', Next,
         Arrived = Beats(size) - (Len(expected) - Len(fifo)),
         Arrived' = Beats(size') - (Len(expected') - Len(fifo'))
  PROVE  [Transfer!TransferNext]_(Transfer!transfer_vars)
<1> USE DEF Transfer!TransferNext, Transfer!transfer_vars
<1>1. PICK takes \in BOOLEAN, arready \in BOOLEAN, rvalid \in BOOLEAN, ctrl \in Ctrls :
        Step(ctrl, takes, arready, rvalid)
  BY NextSteps
<1>2. Registers /\ Around /\ Stream /\ Phase
  BY DEF IInv
<1>3. Len(expected) \in Nat /\ Len(fifo) \in Nat
  BY <1>2 DEF Around
<1>4. status # "busy" => Len(expected) = Len(fifo) /\ ~done /\ ~start_d1 /\ asked = <<>>
  BY <1>2 DEF Phase, Quiet, Starting, Active, Resetting, Idle
<1>5. CASE areset
  <2>1. Reset
    BY <1>1, <1>5, Parts
  <2>2. Len(expected') = 0 /\ Len(fifo') = 0
    BY <1>1, <1>5, <2>1, CountersReset DEF Reset
  <2>3. CASE status = "busy"
    <3>1. status' = "abandoned" /\ size' = 0
      BY <2>1, <2>3 DEF Reset
    <3>2. Beats(size') = 0 /\ Arrived' = 0
      BY <2>2, <3>1, NoBeats
    <3> QED
      BY <2>3, <3>1, <3>2 DEF Transfer!Abandon
  <2>4. CASE status # "busy"
    <3>1. status' = status /\ size' = size
      BY <2>1, <2>4 DEF Reset
    <3>2. Arrived' = Beats(size) - (0 - 0) /\ Arrived = Beats(size) - (Len(fifo) - Len(fifo))
      BY <1>4, <2>2, <2>4, <3>1
    <3>3. Len(fifo) - Len(fifo) = 0 /\ 0 - 0 = 0
      BY <1>3
    <3> QED
      BY <3>1, <3>2, <3>3
  <2> QED
    BY <2>3, <2>4
<1>6. CASE ~areset /\ ctrl.start
  <2>1. status # "busy" /\ ctrl.size \in Sizes
    BY <1>1, <1>6, Controls DEF Step
  <2>2. status' = "busy" /\ size' = ctrl.size /\ start_d1'
    BY <1>1, <1>2, <1>6, UserEdge, FlagsEdge
  <2>3. Starting'
    BY <2>2 DEF IInv, Phase, Quiet, Active, Resetting
  <2>4. Len(expected') = Len(fifo') + Beats(size') /\ Beats(size') \in Nat /\ Len(fifo') \in Nat
    <3>1. Beats(size') \in Nat
      BY <2>1, <2>2, LastBeatFits
    <3>2. Len(fifo') \in Nat
      BY DEF IInv, Around
    <3> QED
      BY <2>3, <3>1, <3>2 DEF Starting, Awaits
  <2>5. Arrived' = 0
    BY <2>4
  <2> QED
    BY <2>1, <2>2, <2>5 DEF Transfer!Ask
<1>7. CASE ~areset /\ ~ctrl.start
  <2>1. /\ status' = IF done THEN "done" ELSE status
        /\ size' = size /\ Len(expected') = Len(expected) - One(takes)
    BY <1>1, <1>2, <1>7, UserEdge
  <2>2. /\ One(takes) \in {0, 1} /\ One(rvalid) \in {0, 1}
        /\ Len(fifo') = Len(fifo) - One(takes) + One(rvalid)
    BY <1>1, <1>7, Moves
  <2>3. rvalid => ToCome >= 1 /\ Len(expected) - Len(fifo) >= 1 /\ status = "busy" /\ Active
    <3> SUFFICES ASSUME rvalid
                 PROVE  ToCome >= 1 /\ Len(expected) - Len(fifo) >= 1 /\ status = "busy" /\ Active
      OBVIOUS
    <3>1. asked # <<>>
      BY <1>1 DEF Step
    <3>2. Active /\ ToCome \in 1 .. Total /\ Len(expected) = Len(fifo) + ToCome /\ Total \in Nat
      BY <1>2, <3>1, NextBeat, UnderWay, Lengths
    <3> QED
      BY <1>3, <3>2 DEF Active
  <2>4. Len(expected') - Len(fifo') = Len(expected) - Len(fifo) - One(rvalid)
    BY <1>3, <2>1, <2>2
  <2>5. CASE done
    <3>1. status = "busy" /\ Active
      BY <1>2, <2>5 DEF Phase, Quiet, Starting, Active, Resetting, Idle
    <3>2. ToCome = 0
      BY <2>5 DEF ToCome, ToReturn
    <3>3. One(rvalid) = 0
      BY <2>3, <3>2 DEF One
    <3>4. Beats(size) \in Nat /\ Len(expected) = Len(fifo) + 0
      BY <1>2, <3>1, <3>2, Lengths DEF Active, DataBooks, Awaits
    <3>5. Len(expected) - Len(fifo) = 0 /\ Len(expected') - Len(fifo') = 0
      BY <1>3, <2>4, <3>3, <3>4
    <3>6. Arrived = Beats(size) /\ Arrived' = Beats(size)
      BY <2>1, <3>4, <3>5
    <3> QED
      BY <2>1, <2>5, <3>1, <3>6 DEF Transfer!Finish
  <2>6. CASE ~done /\ rvalid
    <3>1. One(rvalid) = 1
      BY <2>6 DEF One
    <3>2. Beats(size) \in Nat
      BY <1>2, <2>3, <2>6, Lengths DEF Active, DataBooks, Awaits
    <3>3. PICK left : left = Len(expected) - Len(fifo)
      OBVIOUS
    <3>4. left \in Int
      BY <1>3, <3>3
    <3>5. Arrived = Beats(size) - left /\ Arrived' = Beats(size) - (left - 1) /\ left >= 1
      BY <2>1, <2>3, <2>4, <2>6, <3>1, <3>3, <3>4
    <3>6. Arrived' \in Arrived + 1 .. Beats(size)
      BY <3>2, <3>5, <3>4
    <3> QED
      BY <2>1, <2>3, <2>6, <3>6 DEF Transfer!Move
  <2>7. CASE ~done /\ ~rvalid
    <3>1. One(rvalid) = 0
      BY <2>7 DEF One
    <3>2. Len(expected') - Len(fifo') = Len(expected) - Len(fifo)
      BY <1>3, <2>4, <3>1
    <3> QED
      BY <2>1, <2>7, <3>2
  <2> QED
    BY <2>5, <2>6, <2>7
<1> QED
  BY <1>5, <1>6, <1>7

\* Every beat of the aligned region is read once and arrives in order, with
\* tlast at the end of each burst; done comes once, when all have arrived; and
\* a transfer that is started on it does not disturb what is still to stream.
THEOREM TransfersAreWhole == Spec => TransfersAll
<1>1. Init => Transfer!TransferInit
  <2> SUFFICES ASSUME Init PROVE Transfer!TransferInit
    OBVIOUS
  <2>1. IInv
    BY InitIInv
  <2>2. /\ status = "idle" /\ size = 0 /\ fifo = <<>> /\ expected = <<>>
    BY DEF Init, ReadMasterInit
  <2>3. Beats(size) = 0 /\ Len(expected) = 0 /\ Len(fifo) = 0
    BY <2>2, NoBeats
  <2>4. Arrived = 0
    BY <2>1, <2>3, ArrivedIs
  <2> QED
    BY <2>2, <2>3, <2>4 DEF Transfer!TransferInit
<1>2. /\ IInv /\ IInv' /\ [Next]_vars
      /\ Arrived = Beats(size) - (Len(expected) - Len(fifo))
      /\ (Arrived = Beats(size) - (Len(expected) - Len(fifo)))'
      => [Transfer!TransferNext]_(Transfer!transfer_vars)
  <2>1. UNCHANGED vars => UNCHANGED Transfer!transfer_vars
    BY DEF vars, master_vars, user_vars, Transfer!transfer_vars, Arrived
  <2> QED
    BY <2>1, TransferStep
<1> QED
  BY <1>1, <1>2, ArrivedIs, BooksAreKept, PTL DEF Spec, TransfersAll, Transfer!TransferSpec
=============================================================================
