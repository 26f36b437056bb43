----------------------- MODULE AxiWriteSystem_proofs -----------------------
(***************************************************************************)
(* For any widths, sizes, addresses and pace of the user and of the bus:   *)
(* no address is offered without its data on the way, no more than         *)
(* C_MAX_OUTSTANDING bursts are unanswered, the two channels agree on each *)
(* burst's length, what is offered is held, and every transfer's bytes are *)
(* written once, done coming after the last answer.                        *)
(*                                                                         *)
(* The first two rest on counters that wrap and on a pulse that is to come *)
(* once for each burst.  The invariant keeps the books of a transfer: how  *)
(* many bursts have begun, have an address, are complete and are answered, *)
(* and what each counter and flag says of these.  A second one, for the    *)
(* rest, says what the channels carry by its number.                       *)
(***************************************************************************)
EXTENDS AxiWriteSystem, AxiParts_proofs, FiniteSetTheorems

\* Arithmetic that the provers do not know.
ASSUME PowersOfTwo ==
  \A w \in {LP_LOG_BURST_LEN, LP_TRANSACTION_CNTR_WIDTH, LP_LOG_MAX_W_TO_AW,
            LP_OUTSTANDING_CNTR_WIDTH} : 2^w \in Nat /\ (w > 0 => 2^w >= 2)

\* The width of the limit's counter is clog2(C_MAX_OUTSTANDING + 1).
ASSUME WidthAssumption == 2^LP_OUTSTANDING_CNTR_WIDTH <= 2 * C_MAX_OUTSTANDING

\* A full burst has more than one beat: each begins with an edge that is not
\* its last.  The registers that a reset does not reach follow it in two edges.
ASSUME BurstAssumption == LP_LOG_BURST_LEN > 0
ASSUME ResetAssumption == ResetEdges > 1

\* The counters of bursts hold every transfer's.
LastBeat(size) ==
  IF size % LP_DW_BYTES > 0 THEN size \div LP_DW_BYTES ELSE (size \div LP_DW_BYTES) - 1
ASSUME SizesFit ==
  \A size \in Sizes : LastBeat(size) \div LP_AXI_BURST_LEN < 2^LP_TRANSACTION_CNTR_WIDTH

-----------------------------------------------------------------------------
WriteBeat == [id : Nat, n : Nat]

Registers ==
  /\ {done, ctrl_start_d1, start, w_running, wfirst, wfirst_d1, wfirst_pulse, awvalid_r}
       \subseteq BOOLEAN
  /\ total_len_r \in Nat /\ num_transactions < 2^LP_TRANSACTION_CNTR_WIDTH
  /\ final_burst_len \in 0 .. LP_AXI_BURST_LEN - 1
  /\ fifo \in Seq(Entries(WriteBeat))
  /\ Sound(burst_cntr, LP_LOG_BURST_LEN)
  /\ Sound(w_transaction_cntr, LP_TRANSACTION_CNTR_WIDTH)
  /\ Sound(b_transaction_cntr, LP_TRANSACTION_CNTR_WIDTH)
  /\ Sound(w_to_aw_cntr, LP_LOG_MAX_W_TO_AW)
  /\ Sound(aw_to_b_cntr, LP_OUTSTANDING_CNTR_WIDTH)

IsSequence(s) == s \in Seq({s[i] : i \in DOMAIN s})

Around ==
  /\ transfer \in [id : Nat, size : Nat, offset : Nat] /\ sent \in Nat
  /\ reset_left \in 0 .. ResetEdges
  /\ IsSequence(addresses) /\ IsSequence(bursts) /\ IsSequence(current)
  /\ answered \in Nat

\* Nothing is under way in the master, and the bus owes no answer.
Fresh ==
  /\ ~w_running /\ wfirst /\ ~awvalid_r
  /\ burst_cntr.count = LP_AXI_BURST_LEN - 1
  /\ w_to_aw_cntr.count = 0 /\ aw_to_b_cntr.count = C_MAX_OUTSTANDING
  /\ Len(addresses) = answered
NoPulse == ~wfirst_d1 /\ ~wfirst_pulse

-----------------------------------------------------------------------------
\* The books of a transfer.
Bursts    == num_transactions + 1
\* Bursts begun, as far as a pulse of wfirst has told.
Begun     == Len(bursts) + (IF w_running /\ (~wfirst \/ wfirst_d1) THEN 1 ELSE 0)
\* Those counted whose address the bus has not.
Unsent    == Begun - (IF wfirst_pulse THEN 1 ELSE 0) - Len(addresses)
Unanswered == Len(addresses) - answered
Limit     == 2^LP_OUTSTANDING_CNTR_WIDTH - C_MAX_OUTSTANDING

DataBooks ==
  /\ w_running => /\ Len(bursts) < Bursts
                  /\ w_transaction_cntr.count = num_transactions - Len(bursts)
  /\ ~w_running => Len(bursts) = Bursts /\ wfirst
  /\ wfirst <=> current = <<>>
  /\ wfirst /\ (w_running => w_transaction_cntr.count > 0)
       => burst_cntr.count = LP_AXI_BURST_LEN - 1
  /\ w_running /\ wfirst /\ wfirst_d1 => DataValid(fifo)

AddressBooks ==
  /\ Unsent >= 0 /\ (awvalid_r => Unsent >= 1)
  /\ \E wraps \in Nat : Unsent = wraps * 2^LP_LOG_MAX_W_TO_AW + w_to_aw_cntr.count

LimitBooks ==
  /\ Unanswered \in 0 .. Limit /\ (awvalid_r => Unanswered < Limit)
  /\ aw_to_b_cntr.count = IF Unanswered = Limit THEN 0 ELSE C_MAX_OUTSTANDING + Unanswered

ResponseBooks ==
  /\ answered <= Len(bursts) /\ answered <= Bursts
  /\ done <=> answered = Bursts
  /\ done => ~wfirst_d1
  /\ ~done => b_transaction_cntr.count = num_transactions - answered

-----------------------------------------------------------------------------
\* The phases.
Quiet == status # "busy" /\ ~ctrl_start_d1 /\ ~start /\ Fresh /\ NoPulse

Asked ==
  /\ status = "busy" /\ (ctrl_start_d1 <=> ~start) /\ Fresh /\ NoPulse /\ ~done
  /\ bursts = <<>> /\ current = <<>> /\ answered = 0

Active ==
  /\ status = "busy" /\ ~ctrl_start_d1 /\ ~start
  /\ DataBooks /\ AddressBooks /\ LimitBooks /\ ResponseBooks

\* From the second edge of a reset on.
Resetting ==
  /\ reset_left \in 1 .. ResetEdges - 1
  /\ status # "busy" /\ ~ctrl_start_d1 /\ Fresh

Phase ==
  \/ (Quiet \/ Asked \/ Active) /\ reset_left \in {0, ResetEdges}
  \/ Resetting

IInv == Registers /\ Around /\ Phase

-----------------------------------------------------------------------------
\* What the channels carry: a transfer's beats and bursts by their numbers.
Total   == total_len_r + 1
LastLen == total_len_r % LP_AXI_BURST_LEN
LastBytes(size) == IF size % LP_DW_BYTES = 0 THEN LP_DW_BYTES ELSE size % LP_DW_BYTES

BurstLen(i)  == IF i < Bursts THEN LP_AXI_BURST_LEN ELSE LastLen + 1
AddressOf(i) == [addr |-> addr_offset_r + (i - 1) * BurstBytes, len |-> BurstLen(i) - 1]
WordOf(n) ==
  [data |-> Beat(n), bytes |-> IF n = Total THEN byte_remainder_r + 1 ELSE LP_DW_BYTES]

\* Beats that the bus has.
Gone == IF Len(bursts) = Bursts THEN Total ELSE Len(bursts) * LP_AXI_BURST_LEN + Len(current)

Ranges ==
  /\ addr_offset_r \in Nat /\ addr \in Nat
  /\ byte_remainder_r \in 0 .. LP_DW_BYTES - 1 /\ final_strb \in 1 .. LP_DW_BYTES
  /\ Len(fifo) <= LP_FIFO_DEPTH
  /\ Sound(aw_transaction_cntr, LP_TRANSACTION_CNTR_WIDTH)
  /\ status \in {"idle", "busy", "done", "abandoned"} /\ (done => status = "busy")
  /\ answered <= Len(addresses) /\ answered <= Len(bursts)

\* The registers hold what was asked for.
Agreed ==
  status \in {"busy", "done"} =>
    /\ Beats(transfer.size) = Total
    /\ addr_offset_r = transfer.offset - (transfer.offset % BurstBytes)
    /\ byte_remainder_r + 1 = LastBytes(transfer.size)

AddressesCarried == \A i \in 1 .. Len(addresses) : addresses[i] = AddressOf(i)
BurstsCarried ==
  \A i \in 1 .. Len(bursts) :
    /\ IsSequence(bursts[i]) /\ Len(bursts[i]) = BurstLen(i)
    /\ \A j \in 1 .. BurstLen(i) : bursts[i][j] = WordOf((i - 1) * LP_AXI_BURST_LEN + j)
CurrentCarried ==
  /\ status # "busy" => current = <<>>
  /\ \A j \in 1 .. Len(current) : current[j] = WordOf(Len(bursts) * LP_AXI_BURST_LEN + j)

\* The FIFO holds what the user has given and the bus has not.
Stored ==
  /\ status # "busy" => fifo = <<>>
  /\ status = "busy" =>
       /\ sent <= Total /\ sent = Gone + Len(fifo)
       /\ \A k \in 1 .. Len(fifo) : fifo[k].beat = Beat(Gone + k)

\* What is offered next on either channel.
Lasts == status = "busy" /\ ~ctrl_start_d1 =>
           final_burst_len = LastLen /\ final_strb = byte_remainder_r + 1
NextAddress ==
  status = "busy" /\ ~ctrl_start_d1 /\ ~start =>
    /\ addr = addr_offset_r + Len(addresses) * BurstBytes
    /\ Len(addresses) < Bursts
         => aw_transaction_cntr.count = num_transactions - Len(addresses)
NextWord ==
  status = "busy" /\ ~ctrl_start_d1 /\ ~start /\ w_running =>
    Len(current) + burst_cntr.count + 1 = BurstLen(Len(bursts) + 1)

CInv == /\ Ranges /\ Agreed /\ AddressesCarried /\ BurstsCarried /\ CurrentCarried
        /\ Stored /\ Lasts /\ NextAddress /\ NextWord

-----------------------------------------------------------------------------
(***************************************************************************)
(* Sequences of which only the length matters.                             *)
(***************************************************************************)
\* A sequence of anything.
LEMMA Appended ==
  ASSUME NEW s, IsSequence(s), NEW e
  PROVE  /\ IsSequence(Append(s, e)) /\ Append(s, e) # <<>>
         /\ Len(s) \in Nat /\ Len(Append(s, e)) = Len(s) + 1
<1> DEFINE S == {s[i] : i \in DOMAIN s}
           t == Append(s, e)
<1>1. s \in Seq(S)
  BY DEF IsSequence
<1> HIDE DEF S
<1>2. s \in Seq(S \cup {e})
  BY <1>1
<1>3. t \in Seq(S \cup {e}) /\ Len(t) = Len(s) + 1 /\ Len(s) \in Nat
  BY <1>2
<1> HIDE DEF t
<1>4. t \in [1 .. Len(t) -> S \cup {e}] /\ Len(t) \in Nat /\ DOMAIN t = 1 .. Len(t)
  BY <1>3
<1>5. t \in [1 .. Len(t) -> {t[i] : i \in DOMAIN t}]
  BY <1>4
<1>6. IsSequence(t)
  BY <1>4, <1>5 DEF IsSequence
<1>7. t # <<>>
  BY <1>3
<1> QED
  BY <1>3, <1>6, <1>7 DEF t

\* Where what is appended goes.
LEMMA AppendedAt ==
  ASSUME NEW s, IsSequence(s), NEW e
  PROVE  /\ DOMAIN s = 1 .. Len(s) /\ DOMAIN Append(s, e) = 1 .. Len(s) + 1
         /\ \A i \in 1 .. Len(s) : Append(s, e)[i] = s[i]
         /\ Append(s, e)[Len(s) + 1] = e
<1> DEFINE S == {s[i] : i \in DOMAIN s}
<1>1. s \in Seq(S)
  BY DEF IsSequence
<1> HIDE DEF S
<1>2. s \in Seq(S \cup {e})
  BY <1>1
<1> QED
  BY <1>2

\* The empty sequence is one.
LEMMA EmptyIsSequence == IsSequence(<<>>) /\ Len(<<>>) = 0
BY DEF IsSequence

-----------------------------------------------------------------------------
(***************************************************************************)
(* An edge, seen from the inputs.                                          *)
(***************************************************************************)
Step(ctrl, gives, awready, wready, bvalid) ==
  /\ ctrl \in IF areset THEN {NoCtrl} ELSE Ctrls
  /\ gives => status = "busy" /\ ~areset /\ sent < Beats(transfer.size) /\ s_axis_tready
  /\ awready => awvalid_r
  /\ wready => m_axi_wvalid
  /\ bvalid => ~areset /\ answered < Len(addresses) /\ answered < Len(bursts)
  /\ Edge(ctrl, gives, [awready |-> awready, wready |-> wready, bvalid |-> bvalid])

\* What the assumptions say of the constants.
LEMMA Widths ==
  /\ LP_AXI_BURST_LEN \in Nat /\ LP_AXI_BURST_LEN >= 2
  /\ 2^LP_TRANSACTION_CNTR_WIDTH \in Nat /\ 2^LP_TRANSACTION_CNTR_WIDTH >= 2
  /\ 2^LP_LOG_MAX_W_TO_AW \in Nat /\ 2^LP_LOG_MAX_W_TO_AW >= 2
  /\ 2^LP_OUTSTANDING_CNTR_WIDTH \in Nat /\ 2^LP_OUTSTANDING_CNTR_WIDTH >= 2
  /\ C_MAX_OUTSTANDING \in Nat \ {0} /\ Limit \in 1 .. C_MAX_OUTSTANDING
  /\ LP_DW_BYTES \in Nat \ {0}
  /\ ResetEdges \in Nat /\ ResetEdges > 1
<1>1. \A w \in {LP_LOG_BURST_LEN, LP_TRANSACTION_CNTR_WIDTH, LP_LOG_MAX_W_TO_AW,
                LP_OUTSTANDING_CNTR_WIDTH} : w > 0
  BY MasterAssumption, BurstAssumption
<1>2. \A w \in {LP_LOG_BURST_LEN, LP_TRANSACTION_CNTR_WIDTH, LP_LOG_MAX_W_TO_AW,
                LP_OUTSTANDING_CNTR_WIDTH} : 2^w \in Nat /\ 2^w >= 2
  BY <1>1, PowersOfTwo
<1>3. C_MAX_OUTSTANDING \in Nat \ {0} /\ LP_DW_BYTES \in Nat \ {0}
      /\ C_MAX_OUTSTANDING < 2^LP_OUTSTANDING_CNTR_WIDTH
  BY MasterAssumption
<1>4. ResetEdges \in Nat /\ ResetEdges > 1
  BY UserAssumption, ResetAssumption
<1>5. /\ LP_AXI_BURST_LEN \in Nat /\ LP_AXI_BURST_LEN >= 2
      /\ 2^LP_TRANSACTION_CNTR_WIDTH \in Nat /\ 2^LP_TRANSACTION_CNTR_WIDTH >= 2
      /\ 2^LP_LOG_MAX_W_TO_AW \in Nat /\ 2^LP_LOG_MAX_W_TO_AW >= 2
      /\ 2^LP_OUTSTANDING_CNTR_WIDTH \in Nat /\ 2^LP_OUTSTANDING_CNTR_WIDTH >= 2
  BY <1>2, Zenon DEF LP_AXI_BURST_LEN
<1>6. Limit \in 1 .. C_MAX_OUTSTANDING
  BY <1>3, <1>5, WidthAssumption DEF Limit
<1> QED
  BY <1>3, <1>4, <1>5, <1>6

\* The last beat's number, its bytes and the last burst's number, of a transfer
\* that may be asked for.
LEMMA LastBeatFits ==
  ASSUME NEW size \in Sizes
  PROVE  /\ LastBeat(size) \in Nat /\ Beats(size) = LastBeat(size) + 1
         /\ LastBeat(size) \div LP_AXI_BURST_LEN < 2^LP_TRANSACTION_CNTR_WIDTH
         /\ (((size % LP_DW_BYTES) + LP_DW_BYTES - 1) % LP_DW_BYTES) + 1 = LastBytes(size)
<1> DEFINE D == LP_DW_BYTES
           q == size \div D
           r == size % D
<1>1. size \in Nat /\ size >= 1 /\ D \in Nat \ {0}
  BY UserAssumption, Widths
<1>2. size = D * q + r /\ q \in Nat /\ r \in 0 .. D - 1
  BY <1>1
<1> HIDE DEF q, r, D
<1>3. D * q = q * D /\ (q + 1) * D = q * D + D /\ q * D \in Nat
  BY <1>1, <1>2
<1>4. CASE r > 0
  <2>1. /\ size + D - 1 = (q + 1) * D + (r - 1) /\ r - 1 \in 0 .. D - 1
        /\ r + D - 1 = 1 * D + (r - 1)
    BY <1>1, <1>2, <1>3, <1>4
  <2>2. (size + D - 1) \div D = q + 1
    BY <1>1, <1>2, <2>1, Division
  <2>3. (r + D - 1) % D = r - 1
    BY <1>1, <2>1, Division
  <2>4. LastBytes(size) = r
    BY <1>4 DEF LastBytes, r, D
  <2>5. ((r + D - 1) % D) + 1 = LastBytes(size)
    BY <1>2, <2>3, <2>4
  <2> QED
    BY <1>2, <1>4, <2>2, <2>5, SizesFit DEF LastBeat, Beats, q, r, D
<1>5. CASE r = 0
  <2>1. q # 0
    BY <1>1, <1>2, <1>3, <1>5
  <2>2. size + D - 1 = q * D + (D - 1) /\ D - 1 \in 0 .. D - 1 /\ r + D - 1 = 0 * D + (D - 1)
    BY <1>1, <1>2, <1>3, <1>5
  <2>3. (size + D - 1) \div D = q
    BY <1>1, <1>2, <2>2, Division
  <2>4. (r + D - 1) % D = D - 1
    BY <1>1, <2>2, Division
  <2>5. LastBytes(size) = D
    BY <1>5 DEF LastBytes, r, D
  <2>6. ((r + D - 1) % D) + 1 = LastBytes(size)
    BY <1>1, <2>4, <2>5
  <2>7. LastBeat(size) = q - 1 /\ Beats(size) = q
    BY <1>5, <2>3 DEF LastBeat, Beats, q, r, D
  <2> QED
    BY <1>2, <2>1, <2>6, <2>7, SizesFit DEF r, D
<1> QED
  BY <1>2, <1>4, <1>5

\* A control input is a start only for a user that has nothing under way.
LEMMA Controls ==
  ASSUME NEW ctrl, ctrl \in IF areset THEN {NoCtrl} ELSE Ctrls
  PROVE  /\ ctrl.start \in BOOLEAN
         /\ ctrl.start => ~areset /\ status # "busy"
                        /\ ctrl.size \in Sizes /\ ctrl.offset \in Offsets
<1>1. CASE ctrl = NoCtrl
  BY <1>1 DEF NoCtrl
<1>2. CASE ctrl # NoCtrl
  <2>1. ~areset /\ status # "busy" /\ ctrl \in [start : {TRUE}, size : Sizes, offset : Offsets]
    BY <1>2 DEF Ctrls
  <2> QED
    BY <2>1
<1> QED
  BY <1>1, <1>2

\* The flags after an edge.
LEMMA FlagsEdge ==
  ASSUME Registers, NEW ctrl, NEW gives \in BOOLEAN, NEW awready \in BOOLEAN,
         NEW wready \in BOOLEAN, NEW bvalid \in BOOLEAN,
         Step(ctrl, gives, awready, wready, bvalid)
  PROVE  /\ ctrl_start_d1' = ctrl.start /\ start' = ctrl_start_d1
         /\ w_running' <=> ~areset /\ (start \/ (w_running /\ ~(final_beat /\ wready)))
         /\ wfirst' <=> areset \/ (wready /\ m_axi_wlast) \/ (~wready /\ wfirst)
         /\ wfirst_d1' <=> m_axi_wvalid /\ wfirst
         /\ wfirst_pulse' <=> m_axi_wvalid /\ wfirst /\ ~wfirst_d1
         /\ awvalid_r' <=> /\ ~areset
                           /\ \/ ~w_to_aw_cntr.is_zero /\ ~awvalid_r /\ ~aw_to_b_cntr.is_zero
                              \/ awvalid_r /\ ~awready
         /\ done' <=> bvalid /\ b_transaction_cntr.is_zero
         /\ {done, ctrl_start_d1, start, w_running, wfirst, wfirst_d1, wfirst_pulse,
             awvalid_r}' \subseteq BOOLEAN
<1> DEFINE bus == [awready |-> awready, wready |-> wready, bvalid |-> bvalid]
<1>1. bus.awready = awready /\ bus.wready = wready /\ bus.bvalid = bvalid
  OBVIOUS
<1>2. WriteMasterClk(areset, ctrl, [tvalid |-> gives, tdata |-> Beat(sent + 1)], bus)
  BY DEF Step, Edge
<1> HIDE DEF bus
<1>3. wready => m_axi_wvalid
  BY DEF Step
<1>4. /\ Request(ctrl.start, ctrl.size, ctrl.offset)
      /\ Data(areset, m_axi_wvalid /\ bus.wready)
      /\ Address(areset, bus.awready, bus.bvalid) /\ Response(areset, bus.bvalid)
  BY <1>2 DEF WriteMasterClk
<1>5. ctrl_start_d1' = ctrl.start /\ start' = ctrl_start_d1 /\ ctrl.start \in BOOLEAN
  BY <1>4, Controls DEF Request, Step
<1>6. /\ w_running' <=> ~areset /\ (start \/ (w_running /\ ~(final_beat /\ wready)))
      /\ w_running' \in BOOLEAN
  BY <1>1, <1>3, <1>4, Zenon DEF Data
<1>7. /\ wfirst' <=> areset \/ (wready /\ m_axi_wlast) \/ (~wready /\ wfirst)
      /\ wfirst' \in BOOLEAN
  BY <1>1, <1>3, <1>4, Zenon DEF Data
<1>8. /\ wfirst_d1' <=> m_axi_wvalid /\ wfirst
      /\ wfirst_pulse' <=> m_axi_wvalid /\ wfirst /\ ~wfirst_d1
      /\ wfirst_d1' \in BOOLEAN /\ wfirst_pulse' \in BOOLEAN
  BY <1>4, Zenon DEF Data
<1>9. /\ awvalid_r' <=> /\ ~areset
                        /\ \/ ~w_to_aw_cntr.is_zero /\ ~awvalid_r /\ ~aw_to_b_cntr.is_zero
                           \/ awvalid_r /\ ~awready
      /\ awvalid_r' \in BOOLEAN
  BY <1>1, <1>4, Zenon DEF Address, AwValid
<1>10. (done' <=> bvalid /\ b_transaction_cntr.is_zero) /\ done' \in BOOLEAN
  BY <1>1, <1>4, Zenon DEF Response, ResponseDone
<1>11. start' \in BOOLEAN /\ ctrl_start_d1' \in BOOLEAN
  BY <1>5 DEF Registers
<1> QED
  BY <1>5, <1>6, <1>7, <1>8, <1>9, <1>10, <1>11

\* The counters after an edge that is not one of a reset.
LEMMA CountersEdge ==
  ASSUME Registers, ~areset, NEW ctrl, NEW gives \in BOOLEAN, NEW awready \in BOOLEAN,
         NEW wready \in BOOLEAN, NEW bvalid \in BOOLEAN,
         Step(ctrl, gives, awready, wready, bvalid)
  PROVE  /\ start => /\ w_transaction_cntr' = Loaded(num_transactions)
                     /\ b_transaction_cntr' = Loaded(num_transactions)
         /\ ~start => /\ Turned(w_transaction_cntr, w_transaction_cntr',
                                LP_TRANSACTION_CNTR_WIDTH, FALSE, wready /\ m_axi_wlast)
                      /\ Turned(b_transaction_cntr, b_transaction_cntr',
                                LP_TRANSACTION_CNTR_WIDTH, FALSE, bvalid)
         /\ Turned(w_to_aw_cntr, w_to_aw_cntr', LP_LOG_MAX_W_TO_AW, wfirst_pulse, awready)
         /\ Turned(aw_to_b_cntr, aw_to_b_cntr', LP_OUTSTANDING_CNTR_WIDTH, awready, bvalid)
         /\ LET reload == \/ wready /\ m_axi_wlast /\ w_transaction_cntr.count = 1
                          \/ start /\ single_transaction
            IN  /\ reload => burst_cntr' = Loaded(final_burst_len)
                /\ ~reload => Turned(burst_cntr, burst_cntr', LP_LOG_BURST_LEN, FALSE, wready)
<1> DEFINE bus == [awready |-> awready, wready |-> wready, bvalid |-> bvalid]
           wxfer == m_axi_wvalid /\ bus.wready
           awxfer == awvalid_r /\ bus.awready
           lastxfer == wxfer /\ m_axi_wlast
<1>1. bus.awready = awready /\ bus.wready = wready /\ bus.bvalid = bvalid
  OBVIOUS
<1>2. WriteMasterClk(areset, ctrl, [tvalid |-> gives, tdata |-> Beat(sent + 1)], bus)
  BY DEF Step, Edge
<1> HIDE DEF bus
<1>3. (wready => m_axi_wvalid) /\ (awready => awvalid_r)
  BY DEF Step
<1>4. /\ Data(areset, wxfer)
      /\ Address(areset, bus.awready, bus.bvalid) /\ Response(areset, bus.bvalid)
  BY <1>2 DEF WriteMasterClk
<1>5. /\ wxfer \in BOOLEAN /\ (wxfer <=> wready)
      /\ awxfer \in BOOLEAN /\ (awxfer <=> awready)
      /\ lastxfer \in BOOLEAN /\ (lastxfer <=> wready /\ m_axi_wlast)
  BY <1>1, <1>3, Zenon
<1>6. /\ w_transaction_cntr' = ToGo(w_transaction_cntr, areset, lastxfer)
      /\ b_transaction_cntr' = ToGo(b_transaction_cntr, areset, bvalid)
      /\ burst_cntr' = BurstCounter(wxfer)
      /\ w_to_aw_cntr' = Stepped(w_to_aw_cntr, LP_LOG_MAX_W_TO_AW, wfirst_pulse, awxfer)
      /\ aw_to_b_cntr' = Stepped(aw_to_b_cntr, LP_OUTSTANDING_CNTR_WIDTH, awxfer, bvalid)
  BY <1>1, <1>4 DEF Data, Address, Response
<1> HIDE DEF wxfer, awxfer, lastxfer
<1> USE DEF Registers
<1>7. start => /\ w_transaction_cntr' = Loaded(num_transactions)
               /\ b_transaction_cntr' = Loaded(num_transactions)
  BY <1>6 DEF ToGo
<1>8. ~start => /\ Turned(w_transaction_cntr, w_transaction_cntr',
                          LP_TRANSACTION_CNTR_WIDTH, FALSE, lastxfer)
                /\ Turned(b_transaction_cntr, b_transaction_cntr',
                          LP_TRANSACTION_CNTR_WIDTH, FALSE, bvalid)
  <2> SUFFICES ASSUME ~start
               PROVE  /\ Turned(w_transaction_cntr, w_transaction_cntr',
                                LP_TRANSACTION_CNTR_WIDTH, FALSE, lastxfer)
                      /\ Turned(b_transaction_cntr, b_transaction_cntr',
                                LP_TRANSACTION_CNTR_WIDTH, FALSE, bvalid)
    OBVIOUS
  <2>1. /\ w_transaction_cntr' =
             Stepped(w_transaction_cntr, LP_TRANSACTION_CNTR_WIDTH, FALSE, lastxfer)
        /\ b_transaction_cntr' =
             Stepped(b_transaction_cntr, LP_TRANSACTION_CNTR_WIDTH, FALSE, bvalid)
    BY <1>6 DEF ToGo
  <2> QED
    BY <1>5, <2>1, CounterSteps, Widths
<1>9. Turned(w_to_aw_cntr, w_to_aw_cntr', LP_LOG_MAX_W_TO_AW, wfirst_pulse, awxfer)
  BY <1>5, <1>6, CounterSteps, Widths
<1>10. Turned(aw_to_b_cntr, aw_to_b_cntr', LP_OUTSTANDING_CNTR_WIDTH, awxfer, bvalid)
  BY <1>5, <1>6, CounterSteps, Widths
<1>11. \/ wxfer /\ m_axi_wlast /\ w_transaction_cntr.count = 1
       \/ start /\ single_transaction
       \/ Turned(burst_cntr, burst_cntr', LP_LOG_BURST_LEN, FALSE, wxfer)
  <2> SUFFICES ASSUME ~(wxfer /\ m_axi_wlast /\ w_transaction_cntr.count = 1),
                      ~(start /\ single_transaction)
               PROVE  Turned(burst_cntr, burst_cntr', LP_LOG_BURST_LEN, FALSE, wxfer)
    OBVIOUS
  <2>1. burst_cntr' = Stepped(burst_cntr, LP_LOG_BURST_LEN, FALSE, wxfer)
    BY <1>6 DEF BurstCounter
  <2> QED
    BY <1>5, <2>1, CounterSteps, Widths DEF LP_AXI_BURST_LEN
<1>12. \/ wxfer /\ m_axi_wlast /\ w_transaction_cntr.count = 1
       \/ start /\ single_transaction
       => burst_cntr' = Loaded(final_burst_len)
  BY <1>6 DEF BurstCounter
<1> QED
  BY <1>5, <1>7, <1>8, <1>9, <1>10, <1>11, <1>12 DEF Turned

\* The counters after an edge of a reset.
LEMMA CountersReset ==
  ASSUME areset, NEW ctrl, NEW gives \in BOOLEAN, NEW awready \in BOOLEAN,
         NEW wready \in BOOLEAN, NEW bvalid \in BOOLEAN,
         Step(ctrl, gives, awready, wready, bvalid)
  PROVE  /\ w_transaction_cntr' = Loaded(0) /\ b_transaction_cntr' = Loaded(0)
         /\ burst_cntr' = Loaded(LP_AXI_BURST_LEN - 1)
         /\ w_to_aw_cntr' = Loaded(0) /\ aw_to_b_cntr' = Loaded(C_MAX_OUTSTANDING)
<1> DEFINE bus == [awready |-> awready, wready |-> wready, bvalid |-> bvalid]
<1>1. WriteMasterClk(areset, ctrl, [tvalid |-> gives, tdata |-> Beat(sent + 1)], bus)
  BY DEF Step, Edge
<1> HIDE DEF bus
<1>2. /\ Data(areset, m_axi_wvalid /\ bus.wready)
      /\ Address(areset, bus.awready, bus.bvalid) /\ Response(areset, bus.bvalid)
  BY <1>1 DEF WriteMasterClk
<1> QED
  BY <1>2 DEF Data, Address, Response, ToGo

\* The user and the bus after an edge that is not one of a reset.
LEMMA UserEdge ==
  ASSUME Around, ~areset, NEW ctrl, NEW gives \in BOOLEAN, NEW awready \in BOOLEAN,
         NEW wready \in BOOLEAN, NEW bvalid \in BOOLEAN,
         Step(ctrl, gives, awready, wready, bvalid)
  PROVE  /\ Around' /\ reset_left' \in {0, ResetEdges}
         /\ ctrl.start => /\ status' = "busy"
                          /\ addresses' = <<>> /\ bursts' = <<>> /\ current' = <<>>
                          /\ answered' = 0
         /\ ~ctrl.start =>
              /\ status' = IF done THEN "done" ELSE status
              /\ UNCHANGED total_len_r
              /\ Len(addresses)' = Len(addresses) + (IF awready THEN 1 ELSE 0)
              /\ Len(bursts)' = Len(bursts) + (IF wready /\ m_axi_wlast THEN 1 ELSE 0)
              /\ wready => (m_axi_wlast <=> current' = <<>>)
              /\ ~wready => bursts' = bursts /\ current' = current
              /\ answered' = answered + (IF bvalid THEN 1 ELSE 0)
<1> DEFINE bus == [awready |-> awready, wready |-> wready, bvalid |-> bvalid]
<1>1. bus.awready = awready /\ bus.wready = wready /\ bus.bvalid = bvalid
  OBVIOUS
<1>2. /\ WriteMasterClk(areset, ctrl, [tvalid |-> gives, tdata |-> Beat(sent + 1)], bus)
      /\ User(ctrl, gives) /\ Bus(ctrl, bus)
      /\ \/ UNCHANGED reset_left
         \/ reset_left' = ResetEdges
  BY DEF Step, Edge
<1> HIDE DEF bus
<1>3. ~ctrl.start => UNCHANGED total_len_r
  BY <1>2 DEF WriteMasterClk, Request
<1>4. reset_left' \in {0, ResetEdges} /\ reset_left' \in 0 .. ResetEdges
  BY <1>2, Widths DEF areset, Around
<1>5. CASE ctrl.start
  <2>1. /\ status' = "busy" /\ sent' = 0
        /\ transfer' = [id |-> transfer.id + 1, size |-> ctrl.size, offset |-> ctrl.offset]
        /\ addresses' = <<>> /\ bursts' = <<>> /\ current' = <<>> /\ answered' = 0
    BY <1>2, <1>5 DEF User, Bus
  <2>2. ctrl.size \in Nat /\ ctrl.offset \in Nat
    BY <1>5, Controls, UserAssumption DEF Step
  <2>3. transfer' \in [id : Nat, size : Nat, offset : Nat]
    BY <2>1, <2>2 DEF Around
  <2>4. Around'
    BY <1>4, <2>1, <2>3, EmptyIsSequence DEF Around
  <2> QED
    BY <1>4, <1>5, <2>1, <2>4
<1>6. CASE ~ctrl.start
  <2>1. /\ status' = IF done THEN "done" ELSE status
        /\ sent' \in Nat /\ transfer' = transfer
    BY <1>2, <1>6 DEF User, Around
  <2>2. /\ IsSequence(addresses)'
        /\ Len(addresses)' = Len(addresses) + (IF awready THEN 1 ELSE 0)
    <3>1. CASE awready
      BY <1>1, <1>2, <1>6, <3>1, Appended DEF Bus, Around
    <3>2. CASE ~awready
      <4>1. addresses' = addresses
        BY <1>1, <1>2, <1>6, <3>2 DEF Bus
      <4> QED
        BY <3>2, <4>1, Appended DEF Around
    <3> QED
      BY <3>1, <3>2
  <2>3. /\ IsSequence(bursts)' /\ IsSequence(current)'
        /\ Len(bursts)' = Len(bursts) + (IF wready /\ m_axi_wlast THEN 1 ELSE 0)
        /\ wready => (m_axi_wlast <=> current' = <<>>)
        /\ ~wready => bursts' = bursts /\ current' = current
    <3> DEFINE burst == Append(current, [data |-> m_axi_wdata, bytes |-> m_axi_wstrb])
    <3>1. CASE wready /\ m_axi_wlast
      <4>1. bursts' = Append(bursts, burst) /\ current' = <<>>
        BY <1>1, <1>2, <1>6, <3>1 DEF Bus
      <4> HIDE DEF burst
      <4> QED
        BY <3>1, <4>1, Appended, EmptyIsSequence DEF Around
    <3>2. CASE wready /\ ~m_axi_wlast
      <4>1. bursts' = bursts /\ current' = burst
        BY <1>1, <1>2, <1>6, <3>2 DEF Bus
      <4>2. IsSequence(burst) /\ burst # <<>>
        BY Appended DEF Around
      <4> HIDE DEF burst
      <4> QED
        BY <3>2, <4>1, <4>2, Appended DEF Around
    <3>3. CASE ~wready
      <4>1. bursts' = bursts /\ current' = current
        BY <1>1, <1>2, <1>6, <3>3 DEF Bus
      <4> QED
        BY <3>3, <4>1, Appended DEF Around
    <3> QED
      BY <3>1, <3>2, <3>3
  <2>4. answered' = answered + (IF bvalid THEN 1 ELSE 0) /\ answered' \in Nat
    BY <1>1, <1>2, <1>6 DEF Bus, Around
  <2>5. Around'
    BY <1>4, <2>1, <2>2, <2>3, <2>4 DEF Around
  <2> QED
    BY <1>3, <1>4, <1>6, <2>1, <2>2, <2>3, <2>4, <2>5
<1> QED
  BY <1>5, <1>6

\* The user and the bus after an edge of a reset.
LEMMA UserReset ==
  ASSUME Around, areset, NEW ctrl, NEW gives \in BOOLEAN, NEW awready \in BOOLEAN,
         NEW wready \in BOOLEAN, NEW bvalid \in BOOLEAN,
         Step(ctrl, gives, awready, wready, bvalid)
  PROVE  /\ Around' /\ reset_left' = reset_left - 1 /\ status' # "busy"
         /\ ~ctrl.start /\ UNCHANGED total_len_r
         /\ status = "busy" => Len(addresses)' = answered'
         /\ status # "busy" => Len(addresses)' = Len(addresses) /\ answered' = answered
<1> DEFINE bus == [awready |-> awready, wready |-> wready, bvalid |-> bvalid]
<1>1. /\ WriteMasterClk(areset, ctrl, [tvalid |-> gives, tdata |-> Beat(sent + 1)], bus)
      /\ reset_left' = reset_left - 1 /\ Reset /\ UNCHANGED sent
      /\ ctrl = NoCtrl
  BY DEF Step, Edge
<1> HIDE DEF bus
<1>2. ~ctrl.start
  BY <1>1 DEF NoCtrl
<1>3. UNCHANGED total_len_r
  BY <1>1, <1>2 DEF WriteMasterClk, Request
<1>4. reset_left' \in 0 .. ResetEdges
  BY <1>1, Widths DEF Around, areset
<1>5. CASE status = "busy"
  <2>1. /\ status' = "abandoned" /\ transfer' = [transfer EXCEPT !.size = 0]
        /\ addresses' = <<>> /\ bursts' = <<>> /\ current' = <<>> /\ answered' = 0
    BY <1>1, <1>5 DEF Reset
  <2>2. transfer' \in [id : Nat, size : Nat, offset : Nat]
    BY <2>1 DEF Around
  <2> QED
    BY <1>1, <1>2, <1>3, <1>4, <1>5, <2>1, <2>2, EmptyIsSequence DEF Around
<1>6. CASE status # "busy"
  BY <1>1, <1>2, <1>3, <1>4, <1>6 DEF Reset, Around
<1> QED
  BY <1>5, <1>6

\* The FIFO after an edge that is not one of a reset.
LEMMA FifoEdge ==
  ASSUME Registers, Around, ~areset, NEW ctrl, NEW gives \in BOOLEAN, NEW awready \in BOOLEAN,
         NEW wready \in BOOLEAN, NEW bvalid \in BOOLEAN,
         Step(ctrl, gives, awready, wready, bvalid)
  PROVE  /\ fifo' \in Seq(Entries(WriteBeat))
         /\ Passed(fifo, fifo', wready, gives, Beat(sent + 1))
<1> DEFINE bus == [awready |-> awready, wready |-> wready, bvalid |-> bvalid]
<1>1. bus.wready = wready
  OBVIOUS
<1>2. WriteMasterClk(areset, ctrl, [tvalid |-> gives, tdata |-> Beat(sent + 1)], bus)
  BY DEF Step, Edge
<1> HIDE DEF bus
<1>3. fifo' \in AfterEdge(fifo, areset, wready /\ w_running, gives, Beat(sent + 1))
  BY <1>1, <1>2 DEF WriteMasterClk
<1>4. (wready /\ w_running) = wready
  BY DEF Step, m_axi_wvalid, Registers
<1>5. Beat(sent + 1) \in WriteBeat
  BY DEF Around, Beat, WriteBeat
<1>6. areset \in BOOLEAN
  BY DEF areset
<1> QED
  BY <1>3, <1>4, <1>5, <1>6, FifoPasses DEF Registers

\* The beat that is offered is offered until the bus takes it.
LEMMA FirstBeatStays ==
  ASSUME Registers, Around, ~areset, NEW ctrl, NEW gives \in BOOLEAN, NEW awready \in BOOLEAN,
         NEW wready \in BOOLEAN, NEW bvalid \in BOOLEAN,
         Step(ctrl, gives, awready, wready, bvalid),
         ~wready, DataValid(fifo)
  PROVE  DataValid(fifo') /\ Dout(fifo') = Dout(fifo)
<1>1. wready = FALSE
  OBVIOUS
<1>2. /\ fifo' \in Seq(Entries(WriteBeat)) /\ fifo \in Seq(Entries(WriteBeat))
      /\ Passed(fifo, fifo', FALSE, gives, Beat(sent + 1))
  BY <1>1, FifoEdge DEF Registers
<1> QED
  BY <1>2, HeadStays

\* Each register stays in its range.
LEMMA RegistersKept ==
  ASSUME Registers, Around, NEW ctrl, NEW gives \in BOOLEAN, NEW awready \in BOOLEAN,
         NEW wready \in BOOLEAN, NEW bvalid \in BOOLEAN,
         Step(ctrl, gives, awready, wready, bvalid)
  PROVE  Registers'
<1> DEFINE bus == [awready |-> awready, wready |-> wready, bvalid |-> bvalid]
<1>1. bus.wready = wready
  OBVIOUS
<1>2. WriteMasterClk(areset, ctrl, [tvalid |-> gives, tdata |-> Beat(sent + 1)], bus)
  BY DEF Step, Edge
<1> HIDE DEF bus
<1>3. /\ Request(ctrl.start, ctrl.size, ctrl.offset)
      /\ fifo' \in AfterEdge(fifo, areset, wready /\ w_running, gives, Beat(sent + 1))
  BY <1>1, <1>2 DEF WriteMasterClk
<1>4. total_len_r' \in Nat /\ num_transactions' < 2^LP_TRANSACTION_CNTR_WIDTH
  <2>1. CASE ctrl.start
    <3>1. total_len_r' = LastBeat(ctrl.size)
      BY <1>3, <2>1 DEF Request, LastBeat
    <3>2. ctrl.size \in Sizes
      BY <2>1, Controls DEF Step
    <3> QED
      BY <3>1, <3>2, LastBeatFits DEF num_transactions
  <2>2. CASE ~ctrl.start
    <3>1. total_len_r' = total_len_r
      BY <1>3, <2>2 DEF Request
    <3> QED
      BY <3>1 DEF num_transactions, Registers
  <2> QED
    BY <2>1, <2>2
<1>5. final_burst_len' \in 0 .. LP_AXI_BURST_LEN - 1
  <2>1. final_burst_len' = total_len_r % LP_AXI_BURST_LEN
    BY <1>3 DEF Request
  <2> QED
    BY <2>1, Widths DEF Registers
<1>6. fifo' \in Seq(Entries(WriteBeat))
  <2> DEFINE rd == wready /\ w_running
  <2>1. Beat(sent + 1) \in WriteBeat
    BY DEF Around, Beat, WriteBeat
  <2>2. /\ rd \in BOOLEAN /\ areset \in BOOLEAN
        /\ fifo' \in AfterEdge(fifo, areset, rd, gives, Beat(sent + 1))
    BY <1>3 DEF areset
  <2> HIDE DEF rd
  <2>3. CASE areset
    BY <2>2, <2>3 DEF AfterEdge
  <2>4. CASE ~areset
    BY <2>1, <2>2, <2>4, FifoPasses DEF Registers
  <2> QED
    BY <2>3, <2>4
<1>7. num_transactions \in 0 .. 2^LP_TRANSACTION_CNTR_WIDTH - 1
  BY Widths DEF Registers, num_transactions
<1>8. CASE areset
  <2>1. LP_AXI_BURST_LEN - 1 \in 0 .. 2^LP_LOG_BURST_LEN - 1
    BY Widths DEF LP_AXI_BURST_LEN
  <2>2. C_MAX_OUTSTANDING \in 0 .. 2^LP_OUTSTANDING_CNTR_WIDTH - 1
    BY Widths DEF Limit
  <2>3. 0 \in 0 .. 2^LP_TRANSACTION_CNTR_WIDTH - 1 /\ 0 \in 0 .. 2^LP_LOG_MAX_W_TO_AW - 1
    BY Widths
  <2>4. /\ Sound(w_transaction_cntr, LP_TRANSACTION_CNTR_WIDTH)'
        /\ Sound(b_transaction_cntr, LP_TRANSACTION_CNTR_WIDTH)'
        /\ Sound(w_to_aw_cntr, LP_LOG_MAX_W_TO_AW)'
    BY <1>8, <2>3, CountersReset, CounterLoads
  <2>5. Sound(burst_cntr, LP_LOG_BURST_LEN)' /\ Sound(aw_to_b_cntr, LP_OUTSTANDING_CNTR_WIDTH)'
    BY <1>8, <2>1, <2>2, CountersReset, CounterLoads
  <2> QED
    BY <1>4, <1>5, <1>6, <2>4, <2>5, FlagsEdge DEF Registers
<1>9. CASE ~areset
  <2>1. Sound(w_transaction_cntr, LP_TRANSACTION_CNTR_WIDTH)'
        /\ Sound(b_transaction_cntr, LP_TRANSACTION_CNTR_WIDTH)'
    <3>1. CASE start
      BY <1>7, <1>9, <3>1, CountersEdge, CounterLoads
    <3>2. CASE ~start
      BY <1>9, <3>2, CountersEdge DEF Turned
    <3> QED
      BY <3>1, <3>2
  <2>2. Sound(w_to_aw_cntr, LP_LOG_MAX_W_TO_AW)'
        /\ Sound(aw_to_b_cntr, LP_OUTSTANDING_CNTR_WIDTH)'
    BY <1>9, CountersEdge DEF Turned
  <2>3. Sound(burst_cntr, LP_LOG_BURST_LEN)'
    <3>1. final_burst_len \in 0 .. 2^LP_LOG_BURST_LEN - 1
      BY DEF Registers, LP_AXI_BURST_LEN
    <3>2. \/ burst_cntr' = Loaded(final_burst_len)
          \/ Turned(burst_cntr, burst_cntr', LP_LOG_BURST_LEN, FALSE, wready)
      BY <1>9, CountersEdge
    <3> QED
      BY <3>1, <3>2, CounterLoads DEF Turned
  <2> QED
    BY <1>4, <1>5, <1>6, <2>1, <2>2, <2>3, FlagsEdge DEF Registers
<1> QED
  BY <1>8, <1>9

-----------------------------------------------------------------------------
(***************************************************************************)
(* From phase to phase.                                                    *)
(***************************************************************************)
\* Nothing comes of nothing: while nothing is under way the bus does nothing,
\* and a start makes the data run and no more.
LEMMA FreshEdge ==
  ASSUME Registers, Around, ~areset, Fresh, NoPulse, NEW ctrl, NEW gives \in BOOLEAN,
         NEW awready \in BOOLEAN, NEW wready \in BOOLEAN, NEW bvalid \in BOOLEAN,
         Step(ctrl, gives, awready, wready, bvalid)
  PROVE  /\ ~awready /\ ~wready /\ ~bvalid
         /\ wfirst' /\ ~awvalid_r' /\ ~done' /\ NoPulse' /\ (w_running' <=> start)
         /\ w_to_aw_cntr'.count = 0 /\ aw_to_b_cntr'.count = C_MAX_OUTSTANDING
         /\ ~(start /\ single_transaction) => burst_cntr'.count = LP_AXI_BURST_LEN - 1
<1>1. Len(addresses) \in Nat /\ answered \in Nat
  BY Appended DEF Around
<1>2. ~awready /\ ~wready /\ ~bvalid
  BY <1>1 DEF Step, Fresh, m_axi_wvalid
<1>3. ~m_axi_wvalid
  BY DEF m_axi_wvalid, Fresh
<1>4. w_to_aw_cntr.is_zero
  BY DEF Registers, Sound, Fresh
<1>5. wfirst' /\ ~awvalid_r' /\ ~done' /\ NoPulse' /\ (w_running' <=> start)
  BY <1>2, <1>3, <1>4, FlagsEdge DEF Fresh, NoPulse
<1>6. w_to_aw_cntr' = w_to_aw_cntr /\ aw_to_b_cntr' = aw_to_b_cntr
  BY <1>2, CountersEdge DEF Turned, NoPulse
<1>7. ~(start /\ single_transaction) => burst_cntr' = burst_cntr
  BY <1>2, CountersEdge DEF Turned
<1> QED
  BY <1>2, <1>5, <1>6, <1>7 DEF Fresh

\* Quiet until the user asks.
LEMMA QuietEdge ==
  ASSUME Registers, Around, ~areset, Quiet, NEW ctrl, NEW gives \in BOOLEAN,
         NEW awready \in BOOLEAN, NEW wready \in BOOLEAN, NEW bvalid \in BOOLEAN,
         Step(ctrl, gives, awready, wready, bvalid)
  PROVE  Quiet' \/ Asked'
<1>1. Fresh /\ NoPulse /\ ~start /\ ~ctrl_start_d1 /\ status # "busy"
  BY DEF Quiet
<1>2. /\ ~awready /\ ~wready /\ ~bvalid
      /\ wfirst' /\ ~awvalid_r' /\ ~done' /\ NoPulse' /\ ~w_running'
      /\ w_to_aw_cntr'.count = 0 /\ aw_to_b_cntr'.count = C_MAX_OUTSTANDING
      /\ burst_cntr'.count = LP_AXI_BURST_LEN - 1
  BY <1>1, FreshEdge
<1>3. Len(addresses) \in Nat /\ answered \in Nat
  BY Appended DEF Around
<1>4. ctrl_start_d1' = ctrl.start /\ ~start' /\ ctrl.start \in BOOLEAN
  BY <1>1, FlagsEdge, Controls DEF Step
<1>5. CASE ctrl.start
  <2>1. /\ status' = "busy" /\ Len(addresses)' = answered'
        /\ bursts' = <<>> /\ current' = <<>> /\ answered' = 0
    BY <1>5, UserEdge, EmptyIsSequence
  <2>2. Fresh'
    BY <1>2, <2>1 DEF Fresh
  <2> QED
    BY <1>2, <1>4, <1>5, <2>1, <2>2 DEF Asked
<1>6. CASE ~ctrl.start
  <2>1. status' # "busy"
    BY <1>1, <1>6, UserEdge DEF Fresh
  <2>2. Len(addresses)' = answered'
    BY <1>1, <1>2, <1>3, <1>6, UserEdge DEF Fresh
  <2>3. Fresh'
    BY <1>2, <2>2 DEF Fresh
  <2> QED
    BY <1>2, <1>4, <1>6, <2>1, <2>3 DEF Quiet
<1> QED
  BY <1>5, <1>6

\* The request is on its way to the counters; when they are loaded the books
\* are opened, all of them at nothing.
LEMMA AskedEdge ==
  ASSUME Registers, Around, ~areset, Asked, NEW ctrl, NEW gives \in BOOLEAN,
         NEW awready \in BOOLEAN, NEW wready \in BOOLEAN, NEW bvalid \in BOOLEAN,
         Step(ctrl, gives, awready, wready, bvalid)
  PROVE  Asked' \/ Active'
<1>1. /\ Fresh /\ NoPulse /\ (ctrl_start_d1 <=> ~start) /\ status = "busy"
      /\ bursts = <<>> /\ current = <<>> /\ answered = 0 /\ ~done
  BY DEF Asked
<1>2. /\ ~awready /\ ~wready /\ ~bvalid
      /\ wfirst' /\ ~awvalid_r' /\ ~done' /\ NoPulse' /\ (w_running' <=> start)
      /\ w_to_aw_cntr'.count = 0 /\ aw_to_b_cntr'.count = C_MAX_OUTSTANDING
      /\ ~(start /\ single_transaction) => burst_cntr'.count = LP_AXI_BURST_LEN - 1
  BY <1>1, FreshEdge
<1>3. Len(addresses) \in Nat /\ answered \in Nat
  BY Appended DEF Around
<1>4. ~ctrl.start /\ ctrl_start_d1' = FALSE /\ start' = ctrl_start_d1
  BY <1>1, FlagsEdge, Controls DEF Step
<1>5. /\ status' = "busy" /\ UNCHANGED total_len_r
      /\ bursts' = <<>> /\ current' = <<>> /\ answered' = 0 /\ Len(addresses)' = 0
  BY <1>1, <1>2, <1>3, <1>4, UserEdge DEF Fresh
<1>6. CASE ~start
  <2>1. Fresh'
    BY <1>2, <1>5, <1>6 DEF Fresh
  <2> QED
    BY <1>1, <1>2, <1>4, <1>5, <1>6, <2>1 DEF Asked
<1>7. CASE start
  <2>1. num_transactions' = num_transactions /\ num_transactions \in Nat
        /\ num_transactions \in 0 .. 2^LP_TRANSACTION_CNTR_WIDTH - 1
    BY <1>5, Widths DEF Registers, num_transactions
  <2>2. /\ w_transaction_cntr'.count = num_transactions
        /\ b_transaction_cntr'.count = num_transactions
    BY <1>7, <2>1, CountersEdge, CounterLoads
  <2>3. Len(bursts)' = 0
    BY <1>5, EmptyIsSequence
  <2>4. DataBooks'
    <3>1. w_transaction_cntr'.count > 0 => burst_cntr'.count = LP_AXI_BURST_LEN - 1
      BY <1>2, <2>1, <2>2 DEF single_transaction
    <3> QED
      BY <1>2, <1>5, <1>7, <2>1, <2>2, <2>3, <3>1 DEF DataBooks, Bursts, NoPulse
  <2>5. AddressBooks'
    <3>1. Unsent' = 0
      BY <1>2, <1>5, <2>3 DEF Unsent, Begun, NoPulse
    <3>2. Unsent' = 0 * 2^LP_LOG_MAX_W_TO_AW + w_to_aw_cntr'.count
      BY <1>2, <3>1, Widths
    <3> QED
      BY <1>2, <3>1, <3>2 DEF AddressBooks
  <2>6. LimitBooks'
    <3>1. Unanswered' = 0
      BY <1>5 DEF Unanswered
    <3> QED
      BY <1>2, <3>1, Widths DEF LimitBooks, Limit
  <2>7. ResponseBooks'
    BY <1>2, <1>5, <2>1, <2>2, <2>3 DEF ResponseBooks, Bursts, NoPulse
  <2> QED
    BY <1>1, <1>4, <1>5, <1>7, <2>4, <2>5, <2>6, <2>7 DEF Active
<1> QED
  BY <1>6, <1>7

\* The data of a transfer: each burst is counted once, on the edge after it
\* is first offered.
LEMMA DataEdge ==
  ASSUME Registers, Around, ~areset, Active, NEW ctrl, NEW gives \in BOOLEAN,
         NEW awready \in BOOLEAN, NEW wready \in BOOLEAN, NEW bvalid \in BOOLEAN,
         Step(ctrl, gives, awready, wready, bvalid)
  PROVE  /\ DataBooks'
         /\ Begun' = Begun + (IF wfirst_pulse' THEN 1 ELSE 0)
<1> DEFINE B == Len(bursts)
<1>1. /\ status = "busy" /\ ~ctrl_start_d1 /\ ~start /\ DataBooks
      /\ ~ctrl.start /\ UNCHANGED total_len_r
  BY Controls, UserEdge DEF Active, Step
<1>2. /\ num_transactions \in Nat /\ num_transactions' = num_transactions
      /\ B \in Nat
  BY <1>1, Widths, Appended DEF Registers, Around, num_transactions
<1>3. /\ (wready => m_axi_wvalid) /\ (m_axi_wvalid <=> DataValid(fifo) /\ w_running)
  BY DEF Step, m_axi_wvalid
<1>4. /\ m_axi_wlast <=> burst_cntr.count = 0
      /\ final_beat <=> m_axi_wlast /\ w_transaction_cntr.count = 0
      /\ burst_cntr.count \in Nat /\ w_transaction_cntr.count \in Nat
  BY DEF Registers, Sound, Counters, m_axi_wlast, final_beat
<1>5. /\ w_running' <=> w_running /\ ~(final_beat /\ wready)
      /\ wfirst' <=> (wready /\ m_axi_wlast) \/ (~wready /\ wfirst)
      /\ wfirst_d1' <=> m_axi_wvalid /\ wfirst
      /\ wfirst_pulse' <=> m_axi_wvalid /\ wfirst /\ ~wfirst_d1
  BY <1>1, FlagsEdge
<1>6. /\ Len(bursts)' = B + (IF wready /\ m_axi_wlast THEN 1 ELSE 0)
      /\ wready => (m_axi_wlast <=> current' = <<>>)
      /\ ~wready => current' = current
  BY <1>1, UserEdge
<1>7. /\ ~(wready /\ m_axi_wlast) => w_transaction_cntr' = w_transaction_cntr
      /\ wready /\ m_axi_wlast /\ w_transaction_cntr.count > 0
           => w_transaction_cntr'.count = w_transaction_cntr.count - 1
  BY <1>1, CountersEdge DEF Turned
<1>8. /\ ~wready => burst_cntr' = burst_cntr
      /\ wready /\ m_axi_wlast /\ w_transaction_cntr.count # 1
           => burst_cntr'.count = LP_AXI_BURST_LEN - 1
  BY <1>1, <1>4, CountersEdge DEF Turned, LP_AXI_BURST_LEN
<1>9. Begun' = Len(bursts)' + (IF w_running' /\ (~wfirst' \/ wfirst_d1') THEN 1 ELSE 0)
  BY DEF Begun
<1>10. CASE ~w_running
  <2>1. /\ ~m_axi_wvalid /\ ~wready /\ ~w_running' /\ wfirst' /\ wfirst
        /\ B = Bursts /\ Len(bursts)' = B
        /\ burst_cntr' = burst_cntr
        /\ current' = current
    BY <1>1, <1>2, <1>3, <1>5, <1>6, <1>8, <1>10 DEF DataBooks
  <2>2. DataBooks'
    BY <1>1, <1>2, <1>10, <2>1 DEF DataBooks, Bursts
  <2> QED
    BY <1>2, <1>5, <1>9, <1>10, <2>1, <2>2 DEF Begun
<1>11. CASE w_running /\ ~wready
  <2>1. DataValid(fifo) => DataValid(fifo)'
    <3> HIDE DEF B
    <3> QED
      BY <1>11, FirstBeatStays
  <2>2. /\ w_running' /\ (wfirst' <=> wfirst) /\ Len(bursts)' = B
        /\ w_transaction_cntr' = w_transaction_cntr /\ burst_cntr' = burst_cntr
        /\ current' = current
    BY <1>2, <1>5, <1>6, <1>7, <1>8, <1>11
  <2>3. DataBooks'
    BY <1>1, <1>2, <1>3, <1>5, <1>11, <2>1, <2>2 DEF DataBooks, Bursts
  <2>4. Begun = B + (IF ~wfirst \/ wfirst_d1 THEN 1 ELSE 0)
    BY <1>11 DEF Begun
  <2>5. Begun' = B + (IF ~wfirst \/ wfirst_d1' THEN 1 ELSE 0)
    BY <1>9, <2>2
  <2>6. wfirst /\ wfirst_d1 => m_axi_wvalid
    BY <1>1, <1>3, <1>11 DEF DataBooks
  <2>7. Begun' = Begun + (IF wfirst_pulse' THEN 1 ELSE 0)
    <3>1. CASE wfirst /\ m_axi_wvalid /\ ~wfirst_d1
      BY <1>2, <1>5, <2>4, <2>5, <3>1
    <3>2. CASE ~(wfirst /\ m_axi_wvalid /\ ~wfirst_d1)
      <4>1. ~wfirst_pulse'
        BY <1>5, <3>2
      <4>2. (~wfirst \/ wfirst_d1') <=> (~wfirst \/ wfirst_d1)
        BY <1>5, <2>6, <3>2
      <4> QED
        BY <1>2, <2>4, <2>5, <4>1, <4>2
    <3> QED
      BY <3>1, <3>2
  <2> QED
    BY <2>3, <2>7
<1>12. CASE w_running /\ wready /\ ~m_axi_wlast
  <2>1. /\ m_axi_wvalid /\ w_running' /\ ~wfirst' /\ Len(bursts)' = B
        /\ w_transaction_cntr' = w_transaction_cntr
        /\ current' # <<>>
    BY <1>2, <1>3, <1>4, <1>5, <1>6, <1>7, <1>12
  <2>2. DataBooks'
    BY <1>1, <1>2, <1>12, <2>1 DEF DataBooks, Bursts
  <2>3. Begun = B + (IF ~wfirst \/ wfirst_d1 THEN 1 ELSE 0)
    BY <1>12 DEF Begun
  <2>4. Begun' = B + 1
    BY <1>2, <1>9, <2>1
  <2>5. Begun' = Begun + (IF wfirst_pulse' THEN 1 ELSE 0)
    <3>1. CASE wfirst /\ ~wfirst_d1
      BY <1>2, <1>5, <2>1, <2>3, <2>4, <3>1
    <3>2. CASE ~(wfirst /\ ~wfirst_d1)
      <4>1. ~wfirst_pulse' /\ (~wfirst \/ wfirst_d1)
        BY <1>5, <3>2
      <4> QED
        BY <1>2, <2>3, <2>4, <4>1
    <3> QED
      BY <3>1, <3>2
  <2> QED
    BY <2>2, <2>5
<1>13. CASE w_running /\ wready /\ m_axi_wlast /\ w_transaction_cntr.count > 0
  <2>1. ~wfirst
    BY <1>1, <1>4, <1>13, Widths DEF DataBooks
  <2>2. /\ w_running' /\ wfirst' /\ ~wfirst_d1' /\ ~wfirst_pulse' /\ Len(bursts)' = B + 1
        /\ w_transaction_cntr'.count = w_transaction_cntr.count - 1
        /\ current' = <<>>
    BY <1>2, <1>4, <1>5, <1>6, <1>7, <1>13, <2>1
  <2>3. w_transaction_cntr'.count > 0 => burst_cntr'.count = LP_AXI_BURST_LEN - 1
    BY <1>4, <1>8, <1>13, <2>2
  <2>4. DataBooks'
    BY <1>1, <1>2, <1>4, <1>13, <2>2, <2>3 DEF DataBooks, Bursts
  <2> QED
    BY <1>2, <1>9, <1>13, <2>1, <2>2, <2>4 DEF Begun
<1>14. CASE w_running /\ wready /\ m_axi_wlast /\ w_transaction_cntr.count = 0
  <2>1. /\ m_axi_wvalid /\ ~w_running' /\ wfirst' /\ Len(bursts)' = B + 1
        /\ burst_cntr'.count = LP_AXI_BURST_LEN - 1
        /\ current' = <<>>
    BY <1>2, <1>3, <1>4, <1>5, <1>6, <1>8, <1>14
  <2>2. B = num_transactions
    BY <1>1, <1>2, <1>14 DEF DataBooks, Bursts
  <2>3. DataBooks'
    BY <1>2, <2>1, <2>2 DEF DataBooks, Bursts
  <2>4. Begun = B + (IF ~wfirst \/ wfirst_d1 THEN 1 ELSE 0)
    BY <1>14 DEF Begun
  <2>5. Begun' = B + 1
    BY <1>2, <1>9, <2>1
  <2>6. Begun' = Begun + (IF wfirst_pulse' THEN 1 ELSE 0)
    <3>1. CASE wfirst /\ ~wfirst_d1
      BY <1>2, <1>5, <2>1, <2>4, <2>5, <3>1
    <3>2. CASE ~(wfirst /\ ~wfirst_d1)
      <4>1. ~wfirst_pulse' /\ (~wfirst \/ wfirst_d1)
        BY <1>5, <3>2
      <4> QED
        BY <1>2, <2>4, <2>5, <4>1
    <3> QED
      BY <3>1, <3>2
  <2> QED
    BY <2>3, <2>6
<1> QED
  BY <1>4, <1>10, <1>11, <1>12, <1>13, <1>14

\* The addresses of a transfer: one for each burst counted, however often the
\* counter of those without goes round.
LEMMA AddressEdge ==
  ASSUME Registers, Around, ~areset, Active, NEW ctrl, NEW gives \in BOOLEAN,
         NEW awready \in BOOLEAN, NEW wready \in BOOLEAN, NEW bvalid \in BOOLEAN,
         Step(ctrl, gives, awready, wready, bvalid)
  PROVE  AddressBooks'
<1> DEFINE M == 2^LP_LOG_MAX_W_TO_AW
           c == w_to_aw_cntr.count
           pulse == IF wfirst_pulse THEN 1 ELSE 0
           xfer == IF awready THEN 1 ELSE 0
<1>1. ~ctrl.start /\ AddressBooks
  BY Controls DEF Active, Step
<1>2. Len(addresses) \in Nat /\ Len(bursts) \in Nat
  BY Appended DEF Around
<1>3. M \in Nat /\ M >= 2 /\ c \in 0 .. M - 1 /\ (w_to_aw_cntr.is_zero <=> c = 0)
  BY Widths DEF Registers, Sound, Counters
<1>4. Begun \in Nat
  BY <1>2 DEF Begun
<1>5. Unsent \in Int /\ pulse \in {0, 1} /\ xfer \in {0, 1}
  BY <1>2, <1>4 DEF Unsent
<1>6. Unsent' = Unsent + pulse - xfer
  <2>1. Begun' = Begun + (IF wfirst_pulse' THEN 1 ELSE 0)
    BY DataEdge
  <2>2. Len(addresses)' = Len(addresses) + xfer
    BY <1>1, UserEdge
  <2>3. Unsent' = Begun' - (IF wfirst_pulse' THEN 1 ELSE 0) - Len(addresses)'
    BY DEF Unsent
  <2>4. Unsent = Begun - pulse - Len(addresses)
    BY DEF Unsent
  <2> HIDE DEF pulse, xfer
  <2>5. CASE wfirst_pulse'
    BY <1>2, <1>4, <1>5, <2>1, <2>2, <2>3, <2>4, <2>5
  <2>6. CASE ~wfirst_pulse'
    BY <1>2, <1>4, <1>5, <2>1, <2>2, <2>3, <2>4, <2>6
  <2> QED
    BY <2>5, <2>6
<1>7. PICK wraps \in Nat : Unsent = wraps * M + c
  BY <1>1 DEF AddressBooks
<1>8. wraps * M \in Nat
  BY <1>3, <1>7
<1>9. /\ Unsent >= 0 /\ (awvalid_r => Unsent >= 1) /\ (awready => awvalid_r)
  BY <1>1 DEF AddressBooks, Step
<1>10. Unsent' >= 0 /\ (awvalid_r' => Unsent' >= 1)
  <2>1. CASE awvalid_r /\ ~awready
    BY <1>5, <1>6, <1>9, <2>1
  <2>2. CASE ~(awvalid_r /\ ~awready)
    <3>1. Unsent' >= 0
      BY <1>5, <1>6, <1>9
    <3>2. awvalid_r' => ~w_to_aw_cntr.is_zero /\ ~awvalid_r
      BY <2>2, FlagsEdge
    <3>3. awvalid_r' => c >= 1 /\ ~awready
      BY <1>3, <1>9, <3>2
    <3>4. awvalid_r' => Unsent >= 1
      BY <1>3, <1>7, <1>8, <3>3
    <3> QED
      BY <1>5, <1>6, <3>1, <3>3, <3>4
  <2> QED
    BY <2>1, <2>2
<1>11. \E w \in Nat : Unsent' = w * M + w_to_aw_cntr'.count
  <2>1. Turned(w_to_aw_cntr, w_to_aw_cntr', LP_LOG_MAX_W_TO_AW, wfirst_pulse, awready)
    BY CountersEdge
  <2>2. CASE wfirst_pulse <=> awready
    <3>1. w_to_aw_cntr' = w_to_aw_cntr /\ pulse = xfer
      BY <2>1, <2>2 DEF Turned
    <3> HIDE DEF pulse, xfer, M
    <3>2. Unsent' = wraps * M + w_to_aw_cntr'.count
      BY <1>3, <1>5, <1>6, <1>7, <3>1
    <3> QED
      BY <3>2
  <2>3. CASE wfirst_pulse /\ ~awready
    <3>1. Unsent' = wraps * M + c + 1
      BY <1>3, <1>5, <1>6, <1>7, <1>8, <2>3
    <3>2. CASE c < M - 1
      <4>1. w_to_aw_cntr'.count = c + 1
        BY <2>1, <2>3, <3>2 DEF Turned
      <4> HIDE DEF M
      <4>2. Unsent' = wraps * M + w_to_aw_cntr'.count
        BY <1>3, <1>8, <3>1, <4>1
      <4> QED
        BY <4>2
    <3>3. CASE c = M - 1
      <4>1. w_to_aw_cntr'.count = 0
        BY <2>1, <2>3, <3>3 DEF Turned
      <4> HIDE DEF M
      <4>2. (wraps + 1) * M = wraps * M + M
        BY <1>3
      <4>3. Unsent' = (wraps + 1) * M + w_to_aw_cntr'.count
        BY <1>3, <1>8, <3>1, <3>3, <4>1, <4>2
      <4> QED
        BY <4>3
    <3> QED
      BY <1>3, <3>2, <3>3
  <2>4. CASE ~wfirst_pulse /\ awready
    <3>1. Unsent' = wraps * M + c - 1 /\ Unsent >= 1
      BY <1>3, <1>5, <1>6, <1>7, <1>8, <1>9, <2>4
    <3>2. CASE c > 0
      <4>1. w_to_aw_cntr'.count = c - 1
        BY <2>1, <2>4, <3>2 DEF Turned
      <4> HIDE DEF M
      <4>2. Unsent' = wraps * M + w_to_aw_cntr'.count
        BY <1>3, <1>8, <3>1, <4>1
      <4> QED
        BY <4>2
    <3>3. CASE c = 0
      <4>1. w_to_aw_cntr'.count = M - 1
        BY <2>1, <2>4, <3>3 DEF Turned
      <4> HIDE DEF M
      <4>2. wraps # 0
        BY <1>3, <1>7, <3>1, <3>3
      <4>3. wraps - 1 \in Nat /\ (wraps - 1) * M = wraps * M - M
        BY <1>3, <4>2
      <4>4. Unsent' = (wraps - 1) * M + w_to_aw_cntr'.count
        BY <1>3, <1>8, <3>1, <3>3, <4>1, <4>3
      <4> QED
        BY <4>3, <4>4
    <3> QED
      BY <1>3, <3>2, <3>3
  <2> QED
    BY <2>2, <2>3, <2>4
<1> QED
  BY <1>10, <1>11 DEF AddressBooks

\* The limit: the counter starts at C_MAX_OUTSTANDING and wraps when as many
\* more are unanswered as are left of its range.
LEMMA LimitEdge ==
  ASSUME Registers, Around, ~areset, Active, NEW ctrl, NEW gives \in BOOLEAN,
         NEW awready \in BOOLEAN, NEW wready \in BOOLEAN, NEW bvalid \in BOOLEAN,
         Step(ctrl, gives, awready, wready, bvalid)
  PROVE  LimitBooks'
<1> DEFINE c == aw_to_b_cntr.count
           W == 2^LP_OUTSTANDING_CNTR_WIDTH
           xfer == IF awready THEN 1 ELSE 0
           answer == IF bvalid THEN 1 ELSE 0
<1>1. ~ctrl.start /\ LimitBooks
  BY Controls DEF Active, Step
<1>2. Len(addresses) \in Nat /\ answered \in Nat
  BY Appended DEF Around
<1>3. /\ C_MAX_OUTSTANDING \in Nat \ {0} /\ Limit \in Nat \ {0}
      /\ W = C_MAX_OUTSTANDING + Limit
      /\ c \in 0 .. W - 1 /\ (aw_to_b_cntr.is_zero <=> c = 0)
  BY Widths DEF Registers, Sound, Counters, Limit
<1>4. Unanswered' = Unanswered + xfer - answer
  <2>1. Len(addresses)' = Len(addresses) + xfer /\ answered' = answered + answer
    BY <1>1, UserEdge
  <2> QED
    BY <1>2, <2>1 DEF Unanswered
<1>5. /\ Unanswered \in 0 .. Limit /\ (awvalid_r => Unanswered < Limit)
      /\ c = IF Unanswered = Limit THEN 0 ELSE C_MAX_OUTSTANDING + Unanswered
  BY <1>1 DEF LimitBooks
<1>6. (awready => awvalid_r) /\ (bvalid => Unanswered >= 1)
  BY <1>2 DEF Step, Unanswered
<1>7. Unanswered' \in 0 .. Limit
  BY <1>3, <1>4, <1>5, <1>6
<1>8. awvalid_r' => Unanswered' < Limit
  <2>1. CASE awready
    <3>1. ~awvalid_r'
      BY <1>6, <2>1, FlagsEdge
    <3> QED
      BY <3>1
  <2>2. CASE ~awready
    <3>1. awvalid_r' => awvalid_r \/ ~aw_to_b_cntr.is_zero
      BY FlagsEdge
    <3>2. awvalid_r' => Unanswered < Limit
      BY <1>3, <1>5, <3>1
    <3> QED
      BY <1>3, <1>4, <1>5, <2>2, <3>2
  <2> QED
    BY <2>1, <2>2
<1>9. aw_to_b_cntr'.count =
        IF Unanswered' = Limit THEN 0 ELSE C_MAX_OUTSTANDING + Unanswered'
  <2>1. Turned(aw_to_b_cntr, aw_to_b_cntr', LP_OUTSTANDING_CNTR_WIDTH, awready, bvalid)
    BY CountersEdge
  <2>2. CASE awready <=> bvalid
    <3>1. aw_to_b_cntr' = aw_to_b_cntr
      BY <2>1, <2>2 DEF Turned
    <3>2. Unanswered' = Unanswered
      BY <1>4, <1>5, <2>2
    <3> QED
      BY <1>5, <3>1, <3>2
  <2>3. CASE awready /\ ~bvalid
    <3>1. /\ c < W - 1 => aw_to_b_cntr'.count = c + 1
          /\ c = W - 1 => aw_to_b_cntr'.count = 0
      BY <2>1, <2>3 DEF Turned
    <3> HIDE DEF W
    <3> QED
      BY <1>3, <1>4, <1>5, <1>6, <2>3, <3>1
  <2>4. CASE ~awready /\ bvalid
    <3>1. /\ c > 0 => aw_to_b_cntr'.count = c - 1
          /\ c = 0 => aw_to_b_cntr'.count = W - 1
      BY <2>1, <2>4 DEF Turned
    <3> HIDE DEF W
    <3> QED
      BY <1>3, <1>4, <1>5, <1>6, <2>4, <3>1
  <2> QED
    BY <2>2, <2>3, <2>4
<1> QED
  BY <1>7, <1>8, <1>9 DEF LimitBooks

\* The answers: done with the last one.
LEMMA ResponseEdge ==
  ASSUME Registers, Around, ~areset, Active, ~done, NEW ctrl, NEW gives \in BOOLEAN,
         NEW awready \in BOOLEAN, NEW wready \in BOOLEAN, NEW bvalid \in BOOLEAN,
         Step(ctrl, gives, awready, wready, bvalid)
  PROVE  ResponseBooks'
<1> DEFINE B == Len(bursts)
           N == num_transactions
           c == b_transaction_cntr.count
<1>1. /\ ~start /\ DataBooks /\ ResponseBooks
      /\ ~ctrl.start /\ UNCHANGED total_len_r
  BY Controls, UserEdge DEF Active, Step
<1>2. N \in Nat /\ N' = N /\ B \in Nat /\ answered \in Nat
  BY <1>1, Widths, Appended DEF Registers, Around, num_transactions
<1>3. B <= N + 1 /\ answered <= B /\ answered < N + 1 /\ c = N - answered
  BY <1>1, <1>2 DEF DataBooks, ResponseBooks, Bursts
<1>4. b_transaction_cntr.is_zero <=> c = 0
  BY DEF Registers, Sound
<1>5. answered' = answered + (IF bvalid THEN 1 ELSE 0) /\ Len(bursts)' >= B
  BY <1>1, <1>2, UserEdge
<1>6. bvalid => answered < B
  BY DEF Step
<1>7. Len(bursts)' \in Nat
  BY UserEdge, Appended DEF Around
<1>8. answered' <= Len(bursts)' /\ answered' <= Bursts'
  BY <1>2, <1>3, <1>5, <1>6, <1>7 DEF Bursts
<1>9. (done' <=> answered' = Bursts')
      /\ (done' => bvalid /\ answered = N)
  <2>1. done' <=> bvalid /\ b_transaction_cntr.is_zero
    BY FlagsEdge
  <2>2. done' <=> bvalid /\ c = 0
    BY <1>4, <2>1, Zenon
  <2> QED
    BY <1>2, <1>3, <1>5, <2>2 DEF Bursts
<1>10. done' => ~wfirst_d1'
  <2>1. done' => ~w_running
    BY <1>1, <1>2, <1>6, <1>9 DEF DataBooks, Bursts
  <2> QED
    BY <2>1, FlagsEdge DEF m_axi_wvalid
<1>11. ~done' => b_transaction_cntr'.count = num_transactions' - answered'
  <2>1. Turned(b_transaction_cntr, b_transaction_cntr', LP_TRANSACTION_CNTR_WIDTH, FALSE, bvalid)
    BY <1>1, CountersEdge
  <2>2. CASE bvalid
    <3>1. ~done' => c > 0
      BY <1>2, <1>3, <1>5, <1>9, <2>2 DEF Bursts
    <3> QED
      BY <1>2, <1>3, <1>5, <2>1, <2>2, <3>1 DEF Turned
  <2>3. CASE ~bvalid
    BY <1>2, <1>3, <1>5, <2>1, <2>3 DEF Turned
  <2> QED
    BY <2>2, <2>3
<1> QED
  BY <1>8, <1>9, <1>10, <1>11 DEF ResponseBooks

\* With done all is accounted for: as many bursts, addresses and answers, no
\* pulse, nothing offered.
LEMMA Finished ==
  ASSUME Registers, Around, Active, done
  PROVE  /\ Fresh /\ NoPulse /\ Len(bursts) = Bursts /\ answered = Bursts
         /\ current = <<>>
<1> DEFINE B == Len(bursts)
           A == Len(addresses)
           c == w_to_aw_cntr.count
           M == 2^LP_LOG_MAX_W_TO_AW
<1>1. DataBooks /\ AddressBooks /\ LimitBooks /\ ResponseBooks
  BY DEF Active
<1>2. A \in Nat /\ B \in Nat /\ answered \in Nat /\ num_transactions \in Nat
  BY Widths, Appended DEF Registers, Around, num_transactions
<1>3. /\ answered = Bursts /\ answered <= B /\ ~wfirst_d1
      /\ Bursts = num_transactions + 1
  BY <1>1 DEF ResponseBooks, Bursts
<1>4. ~w_running /\ B = Bursts /\ wfirst /\ current = <<>>
      /\ burst_cntr.count = LP_AXI_BURST_LEN - 1
  BY <1>1, <1>2, <1>3 DEF DataBooks
<1>5. A >= Bursts
  BY <1>1, <1>2, <1>3, Widths DEF LimitBooks, Unanswered
<1>6. Begun = B
  BY <1>2, <1>4 DEF Begun
<1>7. Unsent >= 0 /\ (awvalid_r => Unsent >= 1)
  BY <1>1 DEF AddressBooks
<1>8. ~wfirst_pulse /\ A = Bursts /\ Unsent = 0
  <2>1. CASE wfirst_pulse
    BY <1>2, <1>3, <1>4, <1>5, <1>6, <1>7, <2>1 DEF Unsent
  <2>2. CASE ~wfirst_pulse
    BY <1>2, <1>3, <1>4, <1>5, <1>6, <1>7, <2>2 DEF Unsent
  <2> QED
    BY <2>1, <2>2
<1>9. c = 0
  <2>1. c \in 0 .. M - 1 /\ M \in Nat /\ M >= 2
    BY Widths DEF Registers, Sound, Counters
  <2>2. PICK wraps \in Nat : Unsent = wraps * M + c
    BY <1>1 DEF AddressBooks
  <2>3. wraps * M \in Nat
    BY <2>1, <2>2
  <2> QED
    BY <1>8, <2>1, <2>2, <2>3
<1>10. Unanswered = 0 /\ aw_to_b_cntr.count = C_MAX_OUTSTANDING
  <2>1. Unanswered = 0
    BY <1>2, <1>3, <1>8 DEF Unanswered
  <2> QED
    BY <1>1, <2>1, Widths DEF LimitBooks
<1>11. Fresh /\ NoPulse
  BY <1>2, <1>3, <1>4, <1>7, <1>8, <1>9, <1>10 DEF Fresh, NoPulse
<1> QED
  BY <1>3, <1>4, <1>11

\* A transfer under way, until done.
LEMMA ActiveEdge ==
  ASSUME Registers, Around, ~areset, Active, NEW ctrl, NEW gives \in BOOLEAN,
         NEW awready \in BOOLEAN, NEW wready \in BOOLEAN, NEW bvalid \in BOOLEAN,
         Step(ctrl, gives, awready, wready, bvalid)
  PROVE  Active' \/ Quiet'
<1>1. /\ status = "busy" /\ ~ctrl_start_d1 /\ ~start
      /\ DataBooks /\ AddressBooks /\ LimitBooks /\ ResponseBooks
  BY DEF Active
<1>2. ~ctrl.start /\ ~ctrl_start_d1' /\ ~start'
  BY <1>1, FlagsEdge, Controls DEF Step
<1>3. CASE ~done
  <2>1. status' = "busy"
    BY <1>1, <1>2, <1>3, UserEdge
  <2> QED
    BY <1>2, <1>3, <2>1, DataEdge, AddressEdge, LimitEdge, ResponseEdge DEF Active
<1>4. CASE done
  <2>1. Fresh /\ NoPulse
    BY <1>4, Finished
  <2>2. /\ ~awready /\ ~wready /\ ~bvalid
        /\ wfirst' /\ ~awvalid_r' /\ NoPulse' /\ (w_running' <=> start)
        /\ w_to_aw_cntr'.count = 0 /\ aw_to_b_cntr'.count = C_MAX_OUTSTANDING
        /\ ~(start /\ single_transaction) => burst_cntr'.count = LP_AXI_BURST_LEN - 1
    BY <2>1, FreshEdge
  <2>3. status' = "done" /\ Len(addresses)' = answered'
    <3>1. Len(addresses) \in Nat /\ answered \in Nat
      BY Appended DEF Around
    <3> QED
      BY <1>2, <1>4, <2>1, <2>2, <3>1, UserEdge DEF Fresh
  <2>4. Fresh'
    BY <1>1, <2>2, <2>3 DEF Fresh
  <2> QED
    BY <1>2, <2>2, <2>3, <2>4 DEF Quiet
<1> QED
  BY <1>3, <1>4

\* An edge of a reset, whatever was under way.
LEMMA ResetEdge ==
  ASSUME IInv, areset, NEW ctrl, NEW gives \in BOOLEAN,
         NEW awready \in BOOLEAN, NEW wready \in BOOLEAN, NEW bvalid \in BOOLEAN,
         Step(ctrl, gives, awready, wready, bvalid)
  PROVE  Phase'
<1>1. Registers /\ Around /\ Phase
  BY DEF IInv
<1>2. /\ reset_left \in 1 .. ResetEdges /\ ResetEdges \in Nat /\ ResetEdges > 1
      /\ reset_left' = reset_left - 1 /\ status' # "busy" /\ ~ctrl.start
  BY <1>1, UserReset, Widths DEF areset, Around
<1>3. /\ ~w_running' /\ wfirst' /\ ~awvalid_r' /\ ~ctrl_start_d1' /\ start' = ctrl_start_d1
      /\ wfirst_d1' <=> m_axi_wvalid /\ wfirst
      /\ wfirst_pulse' <=> m_axi_wvalid /\ wfirst /\ ~wfirst_d1
  BY <1>1, <1>2, FlagsEdge
<1>4. /\ burst_cntr'.count = LP_AXI_BURST_LEN - 1
      /\ w_to_aw_cntr'.count = 0 /\ aw_to_b_cntr'.count = C_MAX_OUTSTANDING
  BY CountersReset DEF Loaded
<1>5. status # "busy" => Len(addresses) = answered
  BY <1>1 DEF Phase, Quiet, Asked, Active, Resetting, Fresh
<1>6. Len(addresses)' = answered'
  BY <1>1, <1>5, UserReset
<1>7. Fresh'
  BY <1>3, <1>4, <1>6 DEF Fresh
<1>8. CASE reset_left = ResetEdges
  <2>1. reset_left' \in 1 .. ResetEdges - 1
    BY <1>2, <1>8
  <2> QED
    BY <1>2, <1>3, <1>7, <2>1 DEF Phase, Resetting
<1>9. CASE reset_left # ResetEdges
  <2>1. Resetting
    BY <1>1, <1>2, <1>9 DEF Phase
  <2>2. NoPulse' /\ ~start'
    BY <1>3, <2>1 DEF Resetting, Fresh, NoPulse, m_axi_wvalid
  <2>3. CASE reset_left = 1
    BY <1>2, <1>3, <1>7, <2>2, <2>3 DEF Phase, Quiet
  <2>4. CASE reset_left # 1
    <3>1. reset_left' \in 1 .. ResetEdges - 1
      BY <1>2, <2>4
    <3> QED
      BY <1>2, <1>3, <1>7, <3>1 DEF Phase, Resetting
  <2> QED
    BY <2>3, <2>4
<1> QED
  BY <1>8, <1>9

-----------------------------------------------------------------------------
(***************************************************************************)
(* The theorems.                                                           *)
(***************************************************************************)
\* After configuration nothing is under way.
LEMMA InitIInv == Init => IInv
<1> SUFFICES ASSUME Init PROVE IInv
  OBVIOUS
<1> USE DEF Init, WriteMasterInit
<1>1. LP_AXI_BURST_LEN - 1 \in 0 .. 2^LP_LOG_BURST_LEN - 1
  BY Widths DEF LP_AXI_BURST_LEN
<1>2. C_MAX_OUTSTANDING \in 0 .. 2^LP_OUTSTANDING_CNTR_WIDTH - 1
  BY Widths DEF Limit
<1>3. 0 \in 0 .. 2^LP_TRANSACTION_CNTR_WIDTH - 1 /\ 0 \in 0 .. 2^LP_LOG_MAX_W_TO_AW - 1
  BY Widths
<1>4. /\ Sound(w_transaction_cntr, LP_TRANSACTION_CNTR_WIDTH)
      /\ Sound(b_transaction_cntr, LP_TRANSACTION_CNTR_WIDTH)
      /\ Sound(w_to_aw_cntr, LP_LOG_MAX_W_TO_AW) /\ w_to_aw_cntr.count = 0
  BY <1>3, CounterLoads
<1>5. /\ Sound(burst_cntr, LP_LOG_BURST_LEN)
      /\ burst_cntr.count = LP_AXI_BURST_LEN - 1
  BY <1>1, CounterLoads
<1>6. /\ Sound(aw_to_b_cntr, LP_OUTSTANDING_CNTR_WIDTH)
      /\ aw_to_b_cntr.count = C_MAX_OUTSTANDING
  BY <1>2, CounterLoads
<1>7. num_transactions = 0
  BY Widths DEF num_transactions
<1>8. Registers
  <2>1. fifo \in Seq(Entries(WriteBeat)) /\ final_burst_len \in 0 .. LP_AXI_BURST_LEN - 1
    BY Widths
  <2>2. num_transactions < 2^LP_TRANSACTION_CNTR_WIDTH /\ total_len_r \in Nat
    BY <1>7, Widths
  <2>3. {done, ctrl_start_d1, start, w_running, wfirst, wfirst_d1, wfirst_pulse, awvalid_r}
          \subseteq BOOLEAN
    OBVIOUS
  <2> QED
    BY <1>4, <1>5, <1>6, <2>1, <2>2, <2>3, Zenon DEF Registers
<1>9. Around
  BY EmptyIsSequence, Widths DEF Around
<1>10. Fresh /\ NoPulse
  BY <1>4, <1>5, <1>6, EmptyIsSequence DEF Fresh, NoPulse
<1>11. Phase
  BY <1>10, Widths DEF Phase, Quiet
<1> QED
  BY <1>8, <1>9, <1>11 DEF IInv

\* Each edge keeps the invariant.
LEMMA NextIInv == IInv /\ [Next]_vars => IInv'
<1> SUFFICES ASSUME IInv, [Next]_vars PROVE IInv'
  OBVIOUS
<1>1. CASE Next
  <2>1. PICK gives \in BOOLEAN, awready \in BOOLEAN, wready \in BOOLEAN, bvalid \in BOOLEAN :
          Clk(gives, awready, wready, bvalid)
    BY <1>1 DEF Next
  <2>2. PICK ctrl : Step(ctrl, gives, awready, wready, bvalid)
    BY <2>1 DEF Clk, Step
  <2>3. Registers /\ Around /\ Phase
    BY DEF IInv
  <2>4. Registers'
    BY <2>2, <2>3, RegistersKept
  <2>5. CASE areset
    BY <2>2, <2>3, <2>4, <2>5, UserReset, ResetEdge DEF IInv
  <2>6. CASE ~areset
    <3>1. Around' /\ reset_left' \in {0, ResetEdges}
      BY <2>2, <2>3, <2>6, UserEdge
    <3>2. Quiet \/ Asked \/ Active
      BY <2>3, <2>6 DEF Phase, Resetting, areset
    <3>3. Quiet' \/ Asked' \/ Active'
      BY <2>2, <2>3, <2>6, <3>2, QuietEdge, AskedEdge, ActiveEdge
    <3> QED
      BY <2>4, <3>1, <3>3 DEF IInv, Phase
  <2> QED
    BY <2>5, <2>6
<1>2. CASE UNCHANGED vars
  BY <1>2 DEF vars, master_vars, user_vars, IInv, Registers, Around, Phase, Quiet, Asked,
     Active, Resetting, Fresh, NoPulse, DataBooks, AddressBooks, LimitBooks, ResponseBooks,
     Bursts, Begun, Unsent, Unanswered, num_transactions
<1> QED
  BY <1>1, <1>2

\* Every transfer's books are right, and between transfers nothing is left over
\* (vdf_axi_write_master.sv): with done all of its bursts have been answered.
THEOREM BooksAreKept == Spec => []IInv
BY InitIInv, NextIInv, PTL DEF Spec

\* No address is offered whose data is not on the way (source comment on
\* lines 384 to 386), however the bus stalls and the counters wrap.
THEOREM AddressAfterData == Spec => []AddressFollowsData
<1>1. IInv => AddressFollowsData
  <2> SUFFICES ASSUME IInv, awvalid_r
               PROVE  Len(addresses) < Len(bursts)
                                         + (IF current # <<>> \/ m_axi_wvalid THEN 1 ELSE 0)
    BY DEF AddressFollowsData
  <2>1. Active
    BY DEF IInv, Phase, Quiet, Asked, Resetting, Fresh
  <2>2. Len(addresses) \in Nat /\ Len(bursts) \in Nat
    BY Appended DEF IInv, Around
  <2>3. Unsent >= 1
    BY <2>1 DEF Active, AddressBooks
  <2>4. w_running /\ (~wfirst \/ wfirst_d1) => current # <<>> \/ m_axi_wvalid
    BY <2>1 DEF Active, DataBooks, m_axi_wvalid
  <2>5. Len(addresses) < Begun
    <3>1. CASE wfirst_pulse
      BY <2>2, <2>3, <3>1 DEF Unsent, Begun
    <3>2. CASE ~wfirst_pulse
      BY <2>2, <2>3, <3>2 DEF Unsent, Begun
    <3> QED
      BY <3>1, <3>2
  <2>6. CASE w_running /\ (~wfirst \/ wfirst_d1)
    BY <2>2, <2>4, <2>5, <2>6 DEF Begun
  <2>7. CASE ~(w_running /\ (~wfirst \/ wfirst_d1))
    BY <2>2, <2>5, <2>7 DEF Begun
  <2> QED
    BY <2>6, <2>7
<1> QED
  BY <1>1, BooksAreKept, PTL

\* No more than C_MAX_OUTSTANDING bursts have an address and no answer, though
\* the counter that limits them counts up and stalls when it has wrapped.
THEOREM LimitHolds == Spec => []OutstandingLimit
<1>1. IInv => OutstandingLimit
  <2> SUFFICES ASSUME IInv PROVE OutstandingLimit
    OBVIOUS
  <2>1. Len(addresses) \in Nat /\ answered \in Nat
    BY Appended DEF IInv, Around
  <2>2. CASE Active
    BY <2>1, <2>2, Widths DEF Active, LimitBooks, Unanswered, OutstandingLimit
  <2>3. CASE ~Active
    <3>1. Len(addresses) = answered
      BY <2>3 DEF IInv, Phase, Quiet, Asked, Resetting, Fresh
    <3> QED
      BY <2>1, <3>1, Widths DEF OutstandingLimit
  <2> QED
    BY <2>2, <2>3
<1> QED
  BY <1>1, BooksAreKept, PTL

-----------------------------------------------------------------------------
(***************************************************************************)
(* What the channels carry: an edge.                                       *)
(***************************************************************************)
\* The lengths of a transfer that the counters hold.
LEMMA Lengths ==
  ASSUME Registers
  PROVE  /\ Total \in Nat \ {0} /\ LastLen \in 0 .. LP_AXI_BURST_LEN - 1
         /\ num_transactions \in 0 .. 2^LP_TRANSACTION_CNTR_WIDTH - 1
         /\ Bursts = num_transactions + 1 /\ num_transactions * LP_AXI_BURST_LEN \in Nat
         /\ Total = num_transactions * LP_AXI_BURST_LEN + LastLen + 1
<1>1. total_len_r \in Nat /\ LP_AXI_BURST_LEN \in Nat \ {0}
  BY Widths DEF Registers
<1>2. /\ total_len_r = LP_AXI_BURST_LEN * num_transactions + LastLen
      /\ LastLen \in 0 .. LP_AXI_BURST_LEN - 1 /\ num_transactions \in Nat
  BY <1>1 DEF num_transactions, LastLen
<1>3. LP_AXI_BURST_LEN * num_transactions = num_transactions * LP_AXI_BURST_LEN
      /\ num_transactions * LP_AXI_BURST_LEN \in Nat
  BY <1>1, <1>2
<1> QED
  BY <1>1, <1>2, <1>3, Widths DEF Total, Registers, Bursts

\* The registers of the request and of the addresses after an edge.
LEMMA RequestEdge ==
  ASSUME Registers, Sound(aw_transaction_cntr, LP_TRANSACTION_CNTR_WIDTH),
         NEW ctrl, NEW gives \in BOOLEAN, NEW awready \in BOOLEAN,
         NEW wready \in BOOLEAN, NEW bvalid \in BOOLEAN,
         Step(ctrl, gives, awready, wready, bvalid)
  PROVE  /\ final_burst_len' = LastLen /\ final_strb' = byte_remainder_r + 1
         /\ ~ctrl.start => UNCHANGED <<total_len_r, addr_offset_r, byte_remainder_r>>
         /\ ctrl.start =>
              /\ total_len_r' = LastBeat(ctrl.size)
              /\ addr_offset_r' = ctrl.offset - (ctrl.offset % BurstBytes)
              /\ byte_remainder_r' = ((ctrl.size % LP_DW_BYTES) + LP_DW_BYTES - 1) % LP_DW_BYTES
         /\ addr' = IF start THEN addr_offset_r
                    ELSE IF awready THEN addr + BurstBytes ELSE addr
         /\ areset => aw_transaction_cntr' = Loaded(0)
         /\ ~areset /\ start => aw_transaction_cntr' = Loaded(num_transactions)
         /\ ~areset /\ ~start => Turned(aw_transaction_cntr, aw_transaction_cntr',
                                       LP_TRANSACTION_CNTR_WIDTH, FALSE, awready)
<1> DEFINE bus == [awready |-> awready, wready |-> wready, bvalid |-> bvalid]
           awxfer == awvalid_r /\ bus.awready
<1>1. bus.awready = awready
  OBVIOUS
<1>2. WriteMasterClk(areset, ctrl, [tvalid |-> gives, tdata |-> Beat(sent + 1)], bus)
  BY DEF Step, Edge
<1> HIDE DEF bus
<1>3. Request(ctrl.start, ctrl.size, ctrl.offset) /\ Address(areset, bus.awready, bus.bvalid)
  BY <1>2 DEF WriteMasterClk
<1>4. awxfer \in BOOLEAN /\ (awxfer <=> awready)
  BY <1>1 DEF Step, Registers
<1>5. /\ aw_transaction_cntr' = ToGo(aw_transaction_cntr, areset, awxfer)
      /\ addr' = IF start THEN addr_offset_r
                 ELSE IF awxfer THEN addr + BurstBytes ELSE addr
  BY <1>3 DEF Address
<1> HIDE DEF awxfer
<1>6. /\ final_burst_len' = LastLen /\ final_strb' = byte_remainder_r + 1
      /\ ~ctrl.start => UNCHANGED <<total_len_r, addr_offset_r, byte_remainder_r>>
      /\ ctrl.start =>
           /\ total_len_r' = LastBeat(ctrl.size)
           /\ addr_offset_r' = ctrl.offset - (ctrl.offset % BurstBytes)
           /\ byte_remainder_r' = ((ctrl.size % LP_DW_BYTES) + LP_DW_BYTES - 1) % LP_DW_BYTES
  BY <1>3 DEF Request, LastLen, LastBeat
<1>7. /\ areset => aw_transaction_cntr' = Loaded(0)
      /\ ~areset /\ start => aw_transaction_cntr' = Loaded(num_transactions)
  BY <1>5 DEF ToGo
<1>8. ~areset /\ ~start => Turned(aw_transaction_cntr, aw_transaction_cntr',
                                 LP_TRANSACTION_CNTR_WIDTH, FALSE, awready)
  <2> SUFFICES ASSUME ~areset, ~start
               PROVE  Turned(aw_transaction_cntr, aw_transaction_cntr',
                             LP_TRANSACTION_CNTR_WIDTH, FALSE, awready)
    OBVIOUS
  <2>1. aw_transaction_cntr' =
          Stepped(aw_transaction_cntr, LP_TRANSACTION_CNTR_WIDTH, FALSE, awxfer)
    BY <1>5 DEF ToGo
  <2>2. awxfer = awready
    BY <1>4
  <2> QED
    BY <2>1, <2>2, CounterSteps, Widths
<1>9. addr' = IF start THEN addr_offset_r
              ELSE IF awready THEN addr + BurstBytes ELSE addr
  BY <1>4, <1>5
<1> QED
  BY <1>6, <1>7, <1>8, <1>9

\* The word on the data channel.
Word == [data |-> m_axi_wdata, bytes |-> m_axi_wstrb]

\* What the bus takes, and the user gives, on an edge with no start.
LEMMA BusEdge ==
  ASSUME ~areset, NEW ctrl, NEW gives \in BOOLEAN, NEW awready \in BOOLEAN,
         NEW wready \in BOOLEAN, NEW bvalid \in BOOLEAN,
         Step(ctrl, gives, awready, wready, bvalid), ~ctrl.start
  PROVE  /\ transfer' = transfer /\ sent' = IF gives THEN sent + 1 ELSE sent
         /\ awready => addresses' = Append(addresses, [addr |-> addr, len |-> m_axi_awlen])
         /\ ~awready => addresses' = addresses
         /\ wready /\ m_axi_wlast =>
              bursts' = Append(bursts, Append(current, Word)) /\ current' = <<>>
         /\ wready /\ ~m_axi_wlast => bursts' = bursts /\ current' = Append(current, Word)
         /\ ~wready => bursts' = bursts /\ current' = current
         /\ answered' = IF bvalid THEN answered + 1 ELSE answered
<1> DEFINE bus == [awready |-> awready, wready |-> wready, bvalid |-> bvalid]
<1>1. bus.awready = awready /\ bus.wready = wready /\ bus.bvalid = bvalid
  OBVIOUS
<1>2. User(ctrl, gives) /\ Bus(ctrl, bus)
  BY DEF Step, Edge
<1> HIDE DEF bus
<1>3. /\ addresses' = IF awready THEN Append(addresses, [addr |-> addr, len |-> m_axi_awlen])
                                 ELSE addresses
      /\ IF wready
         THEN IF m_axi_wlast
              THEN bursts' = Append(bursts, Append(current, Word)) /\ current' = <<>>
              ELSE current' = Append(current, Word) /\ UNCHANGED bursts
         ELSE UNCHANGED <<bursts, current>>
      /\ answered' = IF bvalid THEN answered + 1 ELSE answered
  BY <1>1, <1>2 DEF Bus, Word
<1>4. transfer' = transfer /\ sent' = IF gives THEN sent + 1 ELSE sent
  BY <1>2 DEF User
<1> QED
  BY <1>3, <1>4

\* A start, and a reset.
LEMMA BreakEdge ==
  ASSUME NEW ctrl, NEW gives \in BOOLEAN, NEW awready \in BOOLEAN,
         NEW wready \in BOOLEAN, NEW bvalid \in BOOLEAN,
         Step(ctrl, gives, awready, wready, bvalid)
  PROVE  /\ ~areset /\ ctrl.start =>
              /\ status' = "busy" /\ sent' = 0
              /\ transfer' = [id |-> transfer.id + 1, size |-> ctrl.size, offset |-> ctrl.offset]
              /\ addresses' = <<>> /\ bursts' = <<>> /\ current' = <<>> /\ answered' = 0
         /\ areset => fifo' = <<>> /\ ~ctrl.start
         /\ areset /\ status = "busy" =>
              /\ status' = "abandoned" /\ transfer' = [transfer EXCEPT !.size = 0]
              /\ addresses' = <<>> /\ bursts' = <<>> /\ current' = <<>> /\ answered' = 0
         /\ areset /\ status # "busy" =>
              UNCHANGED <<status, transfer, addresses, bursts, current, answered>>
<1> DEFINE bus == [awready |-> awready, wready |-> wready, bvalid |-> bvalid]
<1>1. /\ ~areset => User(ctrl, gives) /\ Bus(ctrl, bus)
      /\ areset => Reset
      /\ WriteMasterClk(areset, ctrl, [tvalid |-> gives, tdata |-> Beat(sent + 1)], bus)
  BY DEF Step, Edge
<1> HIDE DEF bus
<1>2. areset => fifo' = <<>>
  BY <1>1 DEF WriteMasterClk, AfterEdge
<1>3. areset => ~ctrl.start
  BY Controls DEF Step
<1>4. areset /\ status = "busy" =>
        /\ status' = "abandoned" /\ transfer' = [transfer EXCEPT !.size = 0]
        /\ addresses' = <<>> /\ bursts' = <<>> /\ current' = <<>> /\ answered' = 0
  BY <1>1 DEF Reset
<1>5. areset /\ status # "busy" =>
        UNCHANGED <<status, transfer, addresses, bursts, current, answered>>
  BY <1>1 DEF Reset
<1>6. ~areset /\ ctrl.start =>
        /\ status' = "busy" /\ sent' = 0
        /\ transfer' = [id |-> transfer.id + 1, size |-> ctrl.size, offset |-> ctrl.offset]
        /\ addresses' = <<>> /\ bursts' = <<>> /\ current' = <<>> /\ answered' = 0
  BY <1>1 DEF User, Bus
<1> QED
  BY <1>2, <1>3, <1>4, <1>5, <1>6

\* What is left of a number, and of it without that.
LEMMA Aligned ==
  ASSUME NEW m \in Nat \ {0}, NEW n \in Nat
  PROVE  n % m \in 0 .. m - 1 /\ n - (n % m) \in Nat
<1>1. n = m * (n \div m) + (n % m) /\ n % m \in 0 .. m - 1 /\ n \div m \in Nat
  OBVIOUS
<1>2. m * (n \div m) \in Nat
  BY <1>1
<1> QED
  BY <1>1, <1>2

\* Without a reset one of three phases it is.
LEMMA Phases ==
  ASSUME IInv, ~areset
  PROVE  Registers /\ Around /\ (Quiet \/ Asked \/ Active)
BY DEF IInv, Phase, Resetting, areset

\* The bus does nothing but for a transfer under way.
LEMMA Still ==
  ASSUME IInv, ~areset, NEW ctrl, NEW gives \in BOOLEAN, NEW awready \in BOOLEAN,
         NEW wready \in BOOLEAN, NEW bvalid \in BOOLEAN,
         Step(ctrl, gives, awready, wready, bvalid), ~Active \/ done
  PROVE  ~awready /\ ~wready /\ ~bvalid
<1>1. Registers /\ Around /\ (Quiet \/ Asked \/ Active)
  BY Phases
<1>2. Fresh /\ NoPulse
  BY <1>1, Finished DEF Quiet, Asked
<1> QED
  BY <1>1, <1>2, FreshEdge

\* Each register stays in its range: those that the counts do not depend on.
LEMMA RangesKept ==
  ASSUME IInv, Ranges, NEW ctrl, NEW gives \in BOOLEAN, NEW awready \in BOOLEAN,
         NEW wready \in BOOLEAN, NEW bvalid \in BOOLEAN,
         Step(ctrl, gives, awready, wready, bvalid)
  PROVE  Ranges'
<1>1. Registers /\ Around
  BY DEF IInv
<1>2. BurstBytes \in Nat \ {0} /\ LP_DW_BYTES \in Nat \ {0}
  BY Widths DEF BurstBytes
<1>3. /\ final_strb' = byte_remainder_r + 1
     /\ addr' = IF start THEN addr_offset_r ELSE IF awready THEN addr + BurstBytes ELSE addr
  BY <1>1, RequestEdge DEF Ranges
<1>4. {addr_offset_r, addr} \subseteq Nat /\ byte_remainder_r \in 0 .. LP_DW_BYTES - 1
  BY DEF Ranges
<1>5. addr_offset_r' \in Nat /\ byte_remainder_r' \in 0 .. LP_DW_BYTES - 1
  <2>1. CASE ctrl.start
    <3>1. ctrl.offset \in Nat /\ ctrl.size \in Nat
      BY <2>1, Controls, UserAssumption DEF Step
    <3>2. /\ addr_offset_r' = ctrl.offset - (ctrl.offset % BurstBytes)
          /\ byte_remainder_r' = ((ctrl.size % LP_DW_BYTES) + LP_DW_BYTES - 1) % LP_DW_BYTES
      BY <1>1, <2>1, RequestEdge DEF Ranges
    <3>3. addr_offset_r' \in Nat
      BY <1>2, <3>1, <3>2, Aligned
    <3>4. (ctrl.size % LP_DW_BYTES) + LP_DW_BYTES - 1 \in Nat
      BY <1>2, <3>1
    <3> QED
      BY <1>2, <3>2, <3>3, <3>4, Aligned
  <2>2. CASE ~ctrl.start
    BY <1>1, <2>2, RequestEdge DEF Ranges
  <2> QED
    BY <2>1, <2>2
<1>6. addr' \in Nat
  BY <1>2, <1>3, <1>4
<1>7. final_strb' \in 1 .. LP_DW_BYTES
  BY <1>2, <1>3, <1>4
<1>8. Len(fifo') <= LP_FIFO_DEPTH
  <2>1. LP_FIFO_DEPTH \in Nat
    BY FifoAssumption
  <2>2. CASE areset
    <3>1. fifo' = <<>>
      BY <2>2, BreakEdge
    <3> QED
      BY <2>1, <3>1
  <2>3. CASE ~areset
    <3>1. Passed(fifo, fifo', wready, gives, Beat(sent + 1)) /\ Len(fifo) \in Nat
      BY <1>1, <2>3, FifoEdge DEF Registers
    <3>2. Len(fifo) <= LP_FIFO_DEPTH
      BY DEF Ranges
    <3>3. CASE Full(fifo)
      BY <2>1, <3>1, <3>2, <3>3 DEF Passed
    <3>4. CASE ~Full(fifo)
      BY <2>1, <3>1, <3>2, <3>4 DEF Passed, Full
    <3> QED
      BY <3>3, <3>4
  <2> QED
    BY <2>2, <2>3
<1>9. Sound(aw_transaction_cntr, LP_TRANSACTION_CNTR_WIDTH)'
  <2>1. num_transactions \in 0 .. 2^LP_TRANSACTION_CNTR_WIDTH - 1
    BY <1>1, Lengths
  <2>2. 0 \in 0 .. 2^LP_TRANSACTION_CNTR_WIDTH - 1
    BY Widths
  <2>3. \/ aw_transaction_cntr' = Loaded(0)
        \/ aw_transaction_cntr' = Loaded(num_transactions)
        \/ Turned(aw_transaction_cntr, aw_transaction_cntr',
                  LP_TRANSACTION_CNTR_WIDTH, FALSE, awready)
    BY <1>1, RequestEdge DEF Ranges
  <2> QED
    BY <2>1, <2>2, <2>3, CounterLoads DEF Turned
<1>10. status' \in {"idle", "busy", "done", "abandoned"}
  <2>1. CASE areset
    BY <2>1, BreakEdge DEF Ranges
  <2>2. CASE ~areset
    BY <1>1, <2>2, UserEdge DEF Ranges
  <2> QED
    BY <2>1, <2>2
<1>11. answered' <= Len(addresses') /\ answered' <= Len(bursts')
  <2>1. answered <= Len(addresses) /\ answered <= Len(bursts)
    BY DEF Ranges
  <2>2. Len(addresses) \in Nat /\ Len(bursts) \in Nat /\ answered \in Nat
    BY <1>1, Appended DEF Around
  <2>3. CASE addresses' = <<>> /\ bursts' = <<>> /\ answered' = 0
    BY <2>3, EmptyIsSequence
  <2>4. CASE UNCHANGED <<addresses, bursts, answered>>
    BY <2>1, <2>4
  <2>5. CASE areset
    BY <2>5, <2>3, <2>4, BreakEdge
  <2>6. CASE ~areset /\ ctrl.start
    BY <2>6, <2>3, BreakEdge
  <2>7. CASE ~areset /\ ~ctrl.start
    <3>1. /\ Len(addresses') >= Len(addresses) /\ Len(addresses') \in Nat
          /\ Len(bursts') >= Len(bursts) /\ Len(bursts') \in Nat
          /\ answered' = IF bvalid THEN answered + 1 ELSE answered
      BY <1>1, <2>2, <2>7, UserEdge, BusEdge
    <3>2. bvalid => answered < Len(addresses) /\ answered < Len(bursts)
      BY DEF Step
    <3> QED
      BY <2>1, <2>2, <3>1, <3>2
  <2> QED
    BY <2>5, <2>6, <2>7
<1>12. done' => status' = "busy"
  <2> SUFFICES ASSUME done' PROVE status' = "busy"
    OBVIOUS
  <2>1. bvalid /\ ~areset
    BY <1>1, FlagsEdge DEF Step
  <2>2. Active /\ ~done
    BY <2>1, Still
  <2>3. ~ctrl.start /\ status = "busy"
    BY <2>2, Controls DEF Step, Active
  <2> QED
    BY <1>1, <2>1, <2>2, <2>3, UserEdge
<1> QED
  BY <1>5, <1>6, <1>7, <1>8, <1>9, <1>10, <1>11, <1>12 DEF Ranges

\* The registers keep what the user asked for.
LEMMA AgreedKept ==
  ASSUME IInv, Ranges, Agreed, NEW ctrl, NEW gives \in BOOLEAN, NEW awready \in BOOLEAN,
         NEW wready \in BOOLEAN, NEW bvalid \in BOOLEAN,
         Step(ctrl, gives, awready, wready, bvalid)
  PROVE  Agreed'
<1>1. Registers /\ Around
  BY DEF IInv
<1>2. CASE areset
  <2>1. CASE status = "busy"
    BY <1>2, <2>1, BreakEdge DEF Agreed
  <2>2. CASE status # "busy"
    BY <1>1, <1>2, <2>2, BreakEdge, RequestEdge DEF Agreed, Ranges, Total, Beats, LastBytes
  <2> QED
    BY <2>1, <2>2
<1>3. CASE ~areset /\ ctrl.start
  <2>1. ctrl.size \in Sizes
    BY <1>3, Controls DEF Step
  <2>2. transfer'.size = ctrl.size /\ transfer'.offset = ctrl.offset
    BY <1>3, BreakEdge
  <2>3. /\ total_len_r' = LastBeat(ctrl.size)
        /\ addr_offset_r' = ctrl.offset - (ctrl.offset % BurstBytes)
        /\ byte_remainder_r' = ((ctrl.size % LP_DW_BYTES) + LP_DW_BYTES - 1) % LP_DW_BYTES
    BY <1>1, <1>3, RequestEdge DEF Ranges
  <2>4. Total' = Beats(ctrl.size)
    BY <2>1, <2>3, LastBeatFits DEF Total
  <2>5. byte_remainder_r' + 1 = LastBytes(ctrl.size)
    BY <2>1, <2>3, LastBeatFits
  <2>6. Beats(transfer.size)' = Beats(ctrl.size) /\ LastBytes(transfer.size)' = LastBytes(ctrl.size)
    BY <2>2 DEF Beats, LastBytes
  <2> QED
    BY <2>2, <2>3, <2>4, <2>5, <2>6 DEF Agreed
<1>4. CASE ~areset /\ ~ctrl.start
  <2>1. /\ UNCHANGED <<total_len_r, addr_offset_r, byte_remainder_r>>
        /\ transfer' = transfer /\ status' = IF done THEN "done" ELSE status
    BY <1>1, <1>4, RequestEdge, BusEdge, UserEdge DEF Ranges
  <2>2. done => status \in {"busy", "done"}
    BY DEF Ranges
  <2> QED
    BY <2>1, <2>2 DEF Agreed, Total, Beats, LastBytes
<1> QED
  BY <1>2, <1>3, <1>4

\* The bus takes the beats and the addresses of a transfer under way only, and
\* no more of either than there are.
LEMMA Moves ==
  ASSUME IInv, ~areset, NEW ctrl, NEW gives \in BOOLEAN, NEW awready \in BOOLEAN,
         NEW wready \in BOOLEAN, NEW bvalid \in BOOLEAN,
         Step(ctrl, gives, awready, wready, bvalid)
  PROVE  /\ awready \/ wready \/ bvalid => Active /\ ~done /\ ~ctrl.start
         /\ awready => Len(addresses) < Bursts
         /\ wready => /\ w_running /\ DataValid(fifo) /\ Len(bursts) < Bursts
                      /\ w_transaction_cntr.count = num_transactions - Len(bursts)
<1>1. Registers /\ Around
  BY DEF IInv
<1>2. awready \/ wready \/ bvalid => Active /\ ~done
  BY Still
<1>3. awready \/ wready \/ bvalid => ~ctrl.start
  BY <1>2, Controls DEF Step, Active
<1>4. (wready => m_axi_wvalid) /\ (awready => awvalid_r)
  BY DEF Step
<1>5. wready => /\ w_running /\ DataValid(fifo) /\ Len(bursts) < Bursts
                /\ w_transaction_cntr.count = num_transactions - Len(bursts)
  BY <1>2, <1>4 DEF m_axi_wvalid, Active, DataBooks
<1>6. ASSUME awready PROVE Len(addresses) < Bursts
  <2>1. Len(addresses) \in Nat /\ Len(bursts) \in Nat /\ Bursts \in Nat
    BY <1>1, Appended, Lengths DEF Around
  <2>2. Unsent >= 1
    BY <1>2, <1>4, <1>6 DEF Active, AddressBooks
  <2>3. Begun <= Bursts /\ Begun \in Nat
    <3>1. IF w_running THEN Len(bursts) < Bursts ELSE Len(bursts) = Bursts
      BY <1>2, <1>6 DEF Active, DataBooks
    <3>2. CASE w_running /\ (~wfirst \/ wfirst_d1)
      BY <2>1, <3>1, <3>2 DEF Begun
    <3>3. CASE ~(w_running /\ (~wfirst \/ wfirst_d1))
      BY <2>1, <3>1, <3>3 DEF Begun
    <3> QED
      BY <3>2, <3>3
  <2> QED
    BY <2>1, <2>2, <2>3 DEF Unsent
<1> QED
  BY <1>2, <1>3, <1>5, <1>6

\* Two edges after the start the registers know the last burst and beat.
LEMMA LastsKept ==
  ASSUME IInv, Ranges, NEW ctrl, NEW gives \in BOOLEAN, NEW awready \in BOOLEAN,
         NEW wready \in BOOLEAN, NEW bvalid \in BOOLEAN,
         Step(ctrl, gives, awready, wready, bvalid)
  PROVE  Lasts'
<1> SUFFICES ASSUME ~ctrl_start_d1'
             PROVE  final_burst_len' = LastLen' /\ final_strb' = byte_remainder_r' + 1
  BY DEF Lasts
<1>1. Registers /\ ~ctrl.start
  BY FlagsEdge DEF IInv
<1>2. /\ final_burst_len' = LastLen /\ final_strb' = byte_remainder_r + 1
      /\ UNCHANGED <<total_len_r, addr_offset_r, byte_remainder_r>>
  BY <1>1, RequestEdge DEF Ranges
<1> QED
  BY <1>2 DEF LastLen

\* A transfer is under way after an edge: it was, or its counters are loaded.
LEMMA UnderWay ==
  ASSUME IInv, Ranges, NEW ctrl, NEW gives \in BOOLEAN, NEW awready \in BOOLEAN,
         NEW wready \in BOOLEAN, NEW bvalid \in BOOLEAN,
         Step(ctrl, gives, awready, wready, bvalid),
         status' = "busy", ~ctrl_start_d1', ~start'
  PROVE  /\ ~areset /\ ~ctrl.start /\ status = "busy" /\ ~ctrl_start_d1 /\ ~done
         /\ IF start THEN Asked ELSE Active
         /\ UNCHANGED <<total_len_r, addr_offset_r, byte_remainder_r, transfer>>
         /\ num_transactions' = num_transactions /\ Bursts' = Bursts /\ LastLen' = LastLen
<1>1. Registers /\ Around
  BY DEF IInv
<1>2. ~ctrl.start /\ ~ctrl_start_d1
  BY <1>1, FlagsEdge
<1>3. ~areset
  BY <1>1, UserReset
<1>4. status = "busy" /\ ~done
  BY <1>1, <1>2, <1>3, UserEdge
<1>5. IF start THEN Asked ELSE Active
  BY <1>2, <1>3, <1>4, Phases DEF Quiet, Asked, Active
<1>6. UNCHANGED <<total_len_r, addr_offset_r, byte_remainder_r, transfer>>
  BY <1>1, <1>2, <1>3, RequestEdge, BusEdge DEF Ranges
<1> QED
  BY <1>2, <1>3, <1>4, <1>5, <1>6 DEF num_transactions, Bursts, LastLen

\* The next address, and whether it is the last.
LEMMA NextAddressKept ==
  ASSUME IInv, Ranges, NextAddress, NEW ctrl, NEW gives \in BOOLEAN, NEW awready \in BOOLEAN,
         NEW wready \in BOOLEAN, NEW bvalid \in BOOLEAN,
         Step(ctrl, gives, awready, wready, bvalid)
  PROVE  NextAddress'
<1> SUFFICES ASSUME status' = "busy", ~ctrl_start_d1', ~start'
             PROVE  /\ addr' = addr_offset_r' + Len(addresses)' * BurstBytes
                    /\ Len(addresses)' < Bursts'
                         => aw_transaction_cntr'.count = num_transactions' - Len(addresses)'
  BY DEF NextAddress
<1> DEFINE n == Len(addresses)
           N == num_transactions
           c == aw_transaction_cntr.count
<1>1. /\ ~areset /\ ~ctrl.start /\ status = "busy" /\ ~ctrl_start_d1 /\ ~done
      /\ IF start THEN Asked ELSE Active
      /\ UNCHANGED <<total_len_r, addr_offset_r, byte_remainder_r, transfer>>
      /\ N' = N /\ Bursts' = Bursts
  BY UnderWay
<1>2. Registers /\ Around
  BY DEF IInv
<1>3. /\ n \in Nat /\ N \in Nat /\ Bursts = N + 1 /\ BurstBytes \in Nat
      /\ N \in 0 .. 2^LP_TRANSACTION_CNTR_WIDTH - 1
  BY <1>2, Appended, Lengths, Widths DEF Around, BurstBytes
<1>4. {addr_offset_r, addr} \subseteq Nat /\ c \in Nat
  BY DEF Ranges, Sound, Counters
<1>5. n' = n + (IF awready THEN 1 ELSE 0)
  BY <1>1, <1>2, UserEdge
<1>6. /\ addr' = IF start THEN addr_offset_r ELSE IF awready THEN addr + BurstBytes ELSE addr
      /\ start => aw_transaction_cntr' = Loaded(N)
      /\ ~start => Turned(aw_transaction_cntr, aw_transaction_cntr',
                          LP_TRANSACTION_CNTR_WIDTH, FALSE, awready)
  BY <1>1, <1>2, RequestEdge DEF Ranges
<1>7. CASE start
  <2>1. n = 0 /\ ~awready
    BY <1>1, <1>2, <1>7, Still DEF Asked, Fresh, Active
  <2>2. n' = 0 /\ addr' = addr_offset_r
    BY <1>5, <1>6, <1>7, <2>1
  <2>3. aw_transaction_cntr'.count = N
    BY <1>3, <1>6, <1>7, CounterLoads
  <2> QED
    BY <1>1, <1>3, <1>4, <2>2, <2>3
<1>8. CASE ~start /\ ~awready
  <2>1. /\ addr = addr_offset_r + n * BurstBytes
        /\ n < Bursts => c = N - n
    BY <1>1, <1>8 DEF NextAddress
  <2>2. aw_transaction_cntr' = aw_transaction_cntr /\ addr' = addr /\ n' = n
    BY <1>3, <1>5, <1>6, <1>8 DEF Turned
  <2> QED
    BY <1>1, <2>1, <2>2
<1>9. CASE ~start /\ awready
  <2>1. n < Bursts
    BY <1>1, <1>9, Moves
  <2>2. addr = addr_offset_r + n * BurstBytes /\ c = N - n
    BY <1>1, <1>9, <2>1 DEF NextAddress
  <2>3. addr' = addr + BurstBytes /\ n' = n + 1
    BY <1>5, <1>6, <1>9
  <2>4. (n + 1) * BurstBytes = n * BurstBytes + BurstBytes /\ n * BurstBytes \in Nat
    BY <1>3
  <2>5. c > 0 => aw_transaction_cntr'.count = c - 1
    BY <1>6, <1>9 DEF Turned
  <2> HIDE DEF n, N, c
  <2>6. addr' = addr_offset_r' + n' * BurstBytes
    BY <1>1, <1>3, <1>4, <2>2, <2>3, <2>4
  <2>7. n' < Bursts' => aw_transaction_cntr'.count = N' - n'
    BY <1>1, <1>3, <1>4, <2>2, <2>3, <2>5
  <2> QED
    BY <2>6, <2>7 DEF n, N
<1> QED
  BY <1>7, <1>8, <1>9

\* The beats to come of the burst under way.
LEMMA NextWordKept ==
  ASSUME IInv, Ranges, Lasts, NextWord,
         NEW ctrl, NEW gives \in BOOLEAN, NEW awready \in BOOLEAN,
         NEW wready \in BOOLEAN, NEW bvalid \in BOOLEAN,
         Step(ctrl, gives, awready, wready, bvalid)
  PROVE  NextWord'
<1> SUFFICES ASSUME status' = "busy", ~ctrl_start_d1', ~start', w_running'
             PROVE  Len(current)' + burst_cntr'.count + 1 = BurstLen(Len(bursts) + 1)'
  BY DEF NextWord
<1> DEFINE b == Len(bursts)
           n == Len(current)
           N == num_transactions
           c == burst_cntr.count
           w == w_transaction_cntr.count
<1>1. /\ ~areset /\ ~ctrl.start /\ status = "busy" /\ ~ctrl_start_d1 /\ ~done
      /\ IF start THEN Asked ELSE Active
      /\ N' = N /\ Bursts' = Bursts /\ LastLen' = LastLen
  BY UnderWay
<1>2. Registers /\ Around
  BY DEF IInv
<1>3. /\ b \in Nat /\ n \in Nat /\ N \in Nat /\ Bursts = N + 1
      /\ LastLen \in 0 .. LP_AXI_BURST_LEN - 1 /\ LP_AXI_BURST_LEN \in Nat
      /\ c \in Nat /\ w \in Nat
  <2>1. b \in Nat /\ n \in Nat
    BY <1>2, Appended DEF Around
  <2>2. c \in Nat /\ w \in Nat
    BY <1>2 DEF Registers, Sound, Counters
  <2> QED
    BY <1>2, <2>1, <2>2, Lengths, Widths
<1>4. BurstLen(Len(bursts) + 1)' = IF Len(bursts') < N THEN LP_AXI_BURST_LEN ELSE LastLen + 1
  <2>1. Len(bursts') \in Nat
    BY <1>1, <1>2, UserEdge, Appended DEF Around
  <2> QED
    BY <1>1, <1>3, <2>1 DEF BurstLen
<1>5. final_burst_len = LastLen /\ final_burst_len \in 0 .. 2^LP_LOG_BURST_LEN - 1
  BY <1>1, <1>2 DEF Lasts, Registers, LP_AXI_BURST_LEN
<1>6. CASE start
  <2>1. /\ ~wready /\ bursts = <<>> /\ current = <<>>
    BY <1>1, <1>2, <1>6, Still DEF Asked, Active
  <2>2. Len(bursts') = 0 /\ Len(current)' = 0
    BY <1>1, <2>1, BusEdge, EmptyIsSequence
  <2>3. CASE N = 0
    <3>1. burst_cntr' = Loaded(final_burst_len)
      BY <1>1, <1>2, <1>6, <2>3, CountersEdge DEF single_transaction
    <3>2. burst_cntr'.count = LastLen
      BY <1>5, <3>1, CounterLoads
    <3> QED
      BY <1>3, <1>4, <2>2, <2>3, <3>2
  <2>4. CASE N # 0
    <3>1. burst_cntr'.count = LP_AXI_BURST_LEN - 1
      BY <1>1, <1>2, <1>6, <2>4, FreshEdge DEF Asked, single_transaction
    <3> QED
      BY <1>3, <1>4, <2>2, <2>4, <3>1
  <2> QED
    BY <2>3, <2>4
<1>7. CASE ~start
  <2>1. /\ Active /\ w_running /\ ~(final_beat /\ wready)
    BY <1>1, <1>2, <1>7, FlagsEdge
  <2>2. n + c + 1 = IF b < N THEN LP_AXI_BURST_LEN ELSE LastLen + 1
    <3>1. n + c + 1 = BurstLen(b + 1)
      BY <1>1, <1>7, <2>1 DEF NextWord
    <3> QED
      BY <1>3, <3>1 DEF BurstLen
  <2>3. /\ m_axi_wlast <=> c = 0
        /\ final_beat <=> m_axi_wlast /\ w = 0
    BY <1>2 DEF Registers, Sound, m_axi_wlast, final_beat
  <2>4. CASE ~wready
    <3>1. bursts' = bursts /\ current' = current
      BY <1>1, <2>4, BusEdge
    <3>2. burst_cntr' = burst_cntr
      BY <1>1, <1>2, <1>7, <2>4, CountersEdge DEF Turned
    <3> QED
      BY <1>4, <2>2, <3>1, <3>2
  <2>5. CASE wready /\ ~m_axi_wlast
    <3>1. Len(bursts') = b /\ Len(current)' = n + 1
      BY <1>1, <1>2, <2>5, BusEdge, Appended DEF Around
    <3>2. burst_cntr'.count = c - 1
      <4>1. Turned(burst_cntr, burst_cntr', LP_LOG_BURST_LEN, FALSE, wready)
        BY <1>1, <1>2, <1>7, <2>5, CountersEdge
      <4>2. c > 0
        BY <1>3, <2>3, <2>5
      <4> QED
        BY <2>5, <4>1, <4>2 DEF Turned
    <3> HIDE DEF b, n, N, c
    <3> QED
      BY <1>3, <1>4, <2>2, <2>3, <2>5, <3>1, <3>2
  <2>6. CASE wready /\ m_axi_wlast
    <3>1. Len(bursts') = b + 1 /\ Len(current)' = 0
      BY <1>1, <1>2, <2>6, BusEdge, Appended, EmptyIsSequence DEF Around
    <3>2. w = N - b /\ w # 0
      BY <1>1, <2>1, <2>3, <2>6, Moves
    <3>3. CASE w = 1
      <4>1. burst_cntr' = Loaded(final_burst_len)
        BY <1>1, <1>2, <2>6, <3>3, CountersEdge
      <4>2. burst_cntr'.count = LastLen
        BY <1>5, <4>1, CounterLoads
      <4> HIDE DEF b, n, N, c, w
      <4> QED
        BY <1>3, <1>4, <3>1, <3>2, <3>3, <4>2
    <3>4. CASE w # 1
      <4>1. burst_cntr'.count = LP_AXI_BURST_LEN - 1
        BY <1>1, <1>2, <1>7, <2>3, <2>6, <3>4, CountersEdge DEF Turned, LP_AXI_BURST_LEN
      <4> HIDE DEF b, n, N, c, w
      <4> QED
        BY <1>3, <1>4, <3>1, <3>2, <3>4, <4>1
    <3> QED
      BY <3>3, <3>4
  <2> QED
    BY <2>4, <2>5, <2>6
<1> QED
  BY <1>6, <1>7

\* The word that the bus takes is the transfer's next.
LEMMA WordTaken ==
  ASSUME IInv, Ranges, Stored, Lasts, NextWord, ~areset,
         NEW ctrl, NEW gives \in BOOLEAN, NEW awready \in BOOLEAN,
         NEW wready \in BOOLEAN, NEW bvalid \in BOOLEAN,
         Step(ctrl, gives, awready, wready, bvalid), wready
  PROVE  /\ Gone = Len(bursts) * LP_AXI_BURST_LEN + Len(current) /\ Gone + 1 <= Total
         /\ Gone \in Nat /\ Word = WordOf(Gone + 1)
         /\ m_axi_wlast <=> Len(current) + 1 = BurstLen(Len(bursts) + 1)
         /\ m_axi_wlast <=> Gone + 1 = IF Len(bursts) < num_transactions
                                      THEN (Len(bursts) + 1) * LP_AXI_BURST_LEN ELSE Total
<1> DEFINE b == Len(bursts)
           n == Len(current)
           N == num_transactions
           B == LP_AXI_BURST_LEN
           c == burst_cntr.count
           w == w_transaction_cntr.count
<1>1. /\ Active /\ ~done /\ ~ctrl.start /\ w_running /\ DataValid(fifo)
      /\ b < Bursts /\ w = N - b
  BY Moves
<1>2. Registers /\ Around /\ status = "busy" /\ ~ctrl_start_d1 /\ ~start
  BY <1>1 DEF IInv, Active
<1>3. /\ N \in Nat /\ Bursts = N + 1 /\ N * B \in Nat /\ Total = N * B + LastLen + 1
      /\ LastLen \in 0 .. B - 1 /\ B \in Nat /\ B >= 2
  BY <1>2, Lengths, Widths
<1>4. b \in Nat /\ n \in Nat /\ c \in Nat
  <2>1. b \in Nat /\ n \in Nat
    BY <1>2, Appended DEF Around
  <2>2. c \in Nat
    BY <1>2 DEF Registers, Sound, Counters
  <2> QED
    BY <2>1, <2>2
<1>5. n + c + 1 = IF b < N THEN B ELSE LastLen + 1
  <2>1. n + c + 1 = BurstLen(b + 1)
    BY <1>1, <1>2 DEF NextWord
  <2> QED
    BY <1>3, <1>4, <2>1 DEF BurstLen
<1>6. /\ m_axi_wlast <=> c = 0
      /\ final_beat <=> c = 0 /\ b = N
  <2>1. /\ m_axi_wlast <=> c = 0
        /\ final_beat <=> c = 0 /\ w = 0
    BY <1>2 DEF Registers, Sound, m_axi_wlast, final_beat
  <2> QED
    BY <1>1, <1>3, <1>4, <2>1
<1>7. Gone = b * B + n
  BY <1>1 DEF Gone
<1>8. b * B \in Nat /\ (b + 1) * B = b * B + B /\ (b < N => (b + 1) * B <= N * B)
  <2>1. b * B \in Nat /\ (b + 1) * B = b * B + B
    BY <1>3, <1>4
  <2>2. ASSUME b < N PROVE (b + 1) * B <= N * B
    <3>1. PICK d \in Nat : N = (b + 1) + d
      <4>1. N - (b + 1) \in Nat /\ N = (b + 1) + (N - (b + 1))
        BY <1>3, <1>4, <2>2
      <4> QED
        BY <4>1
    <3>2. N * B = (b + 1) * B + d * B /\ d * B \in Nat /\ (b + 1) * B \in Nat
      BY <1>3, <1>4, <3>1
    <3> QED
      BY <3>2
  <2> QED
    BY <2>1, <2>2
<1>9. /\ Gone \in Nat /\ Gone + 1 <= Total
      /\ Gone + 1 = Total <=> c = 0 /\ b = N
      /\ c = 0 <=> Gone + 1 = IF b < N THEN (b + 1) * B ELSE Total
  <2> HIDE DEF b, n, N, B, c
  <2>1. CASE b < N
    BY <1>3, <1>4, <1>5, <1>7, <1>8, <2>1
  <2>2. CASE b = N
    BY <1>3, <1>4, <1>5, <1>7, <1>8, <2>2
  <2>3. b < N \/ b = N
    BY <1>1, <1>3, <1>4 DEF b, N
  <2> QED
    BY <2>1, <2>2, <2>3
<1>10. m_axi_wdata = Beat(Gone + 1)
  <2>1. fifo \in Seq(Entries(WriteBeat)) /\ fifo # <<>>
    BY <1>1, <1>2 DEF Registers, DataValid
  <2>2. 1 \in 1 .. Len(fifo)
    BY <2>1
  <2>3. fifo[1].beat = Beat(Gone + 1)
    BY <1>2, <2>2 DEF Stored
  <2> QED
    BY <2>1, <2>3 DEF m_axi_wdata, Dout
<1>11. m_axi_wstrb = IF Gone + 1 = Total THEN byte_remainder_r + 1 ELSE LP_DW_BYTES
  <2>1. final_strb = byte_remainder_r + 1
    BY <1>2 DEF Lasts
  <2> QED
    BY <1>6, <1>9, <2>1 DEF m_axi_wstrb
<1>12. Word = WordOf(Gone + 1)
  BY <1>10, <1>11 DEF Word, WordOf
<1>13. m_axi_wlast <=> Len(current) + 1 = BurstLen(Len(bursts) + 1)
  <2>1. n + c + 1 = BurstLen(b + 1)
    BY <1>1, <1>2 DEF NextWord
  <2> HIDE DEF b, n, c
  <2>2. c = 0 <=> n + 1 = BurstLen(b + 1)
    BY <1>4, <2>1
  <2> QED
    BY <1>6, <2>2 DEF b, n
<1> QED
  BY <1>6, <1>7, <1>9, <1>12, <1>13

\* The address that the bus takes is the transfer's next.
LEMMA AddressTaken ==
  ASSUME IInv, Ranges, Lasts, NextAddress, ~areset,
         NEW ctrl, NEW gives \in BOOLEAN, NEW awready \in BOOLEAN,
         NEW wready \in BOOLEAN, NEW bvalid \in BOOLEAN,
         Step(ctrl, gives, awready, wready, bvalid), awready
  PROVE  [addr |-> addr, len |-> m_axi_awlen] = AddressOf(Len(addresses) + 1)
<1> DEFINE n == Len(addresses)
           N == num_transactions
           c == aw_transaction_cntr.count
<1>1. Active /\ n < Bursts
  BY Moves
<1>2. Registers /\ Around /\ status = "busy" /\ ~ctrl_start_d1 /\ ~start
  BY <1>1 DEF IInv, Active
<1>3. /\ n \in Nat /\ N \in Nat /\ Bursts = N + 1
      /\ LastLen \in 0 .. LP_AXI_BURST_LEN - 1 /\ LP_AXI_BURST_LEN \in Nat
  BY <1>2, Appended, Lengths, Widths DEF Around
<1>4. addr = addr_offset_r + n * BurstBytes /\ c = N - n
  BY <1>1, <1>2 DEF NextAddress
<1>5. aw_transaction_cntr.is_zero <=> c = 0
  BY DEF Ranges, Sound
<1>6. m_axi_awlen = IF N = n THEN LastLen ELSE LP_AXI_BURST_LEN - 1
  BY <1>2, <1>3, <1>4, <1>5 DEF Lasts, m_axi_awlen
<1>7. BurstLen(n + 1) - 1 = IF N = n THEN LastLen ELSE LP_AXI_BURST_LEN - 1
  <2>1. n + 1 < Bursts <=> N # n
    BY <1>1, <1>3
  <2> HIDE DEF n, N
  <2> QED
    BY <1>3, <2>1 DEF BurstLen
<1>8. n + 1 - 1 = n
  BY <1>3
<1> QED
  BY <1>4, <1>6, <1>7, <1>8 DEF AddressOf

\* What an edge does to what the bus has: it is given up, or stays, or grows.
Asks == <<total_len_r, addr_offset_r, byte_remainder_r, transfer>>
LEMMA Grows ==
  ASSUME IInv, Ranges, NEW ctrl, NEW gives \in BOOLEAN, NEW awready \in BOOLEAN,
         NEW wready \in BOOLEAN, NEW bvalid \in BOOLEAN,
         Step(ctrl, gives, awready, wready, bvalid)
  PROVE  \/ addresses' = <<>> /\ bursts' = <<>> /\ current' = <<>>
         \/ UNCHANGED Asks /\ UNCHANGED <<addresses, bursts, current>>
              /\ (status # "busy" => status' # "busy")
         \/ UNCHANGED Asks /\ ~areset /\ ~ctrl.start /\ Active /\ ~done /\ status' = "busy"
<1>1. Registers /\ Around
  BY DEF IInv
<1>2. ~ctrl.start => UNCHANGED <<total_len_r, addr_offset_r, byte_remainder_r>>
  BY <1>1, RequestEdge DEF Ranges
<1>3. CASE areset \/ ctrl.start
  BY <1>2, <1>3, BreakEdge DEF Asks
<1>4. CASE ~areset /\ ~ctrl.start
  <2>1. UNCHANGED Asks
    BY <1>2, <1>4, BusEdge DEF Asks
  <2>2. status' = IF done THEN "done" ELSE status
    BY <1>1, <1>4, UserEdge
  <2>3. CASE Active /\ ~done
    BY <1>4, <2>1, <2>2, <2>3 DEF Active
  <2>4. CASE ~Active \/ done
    <3>1. ~awready /\ ~wready
      BY <1>4, <2>4, Still
    <3> QED
      BY <1>4, <2>1, <2>2, <3>1, BusEdge
  <2> QED
    BY <2>3, <2>4
<1> QED
  BY <1>3, <1>4

\* What is asked for says which the bursts and the words are.
LEMMA SameBursts ==
  ASSUME UNCHANGED Asks
  PROVE  /\ Total' = Total /\ Bursts' = Bursts
         /\ \A i : BurstLen(i)' = BurstLen(i)
         /\ \A i : AddressOf(i)' = AddressOf(i)
         /\ \A n : WordOf(n)' = WordOf(n)
<1>1. /\ total_len_r' = total_len_r /\ addr_offset_r' = addr_offset_r
      /\ byte_remainder_r' = byte_remainder_r /\ transfer' = transfer
  BY DEF Asks
<1>2. Total' = Total /\ Bursts' = Bursts /\ LastLen' = LastLen
  BY <1>1 DEF Total, Bursts, LastLen, num_transactions
<1>3. \A i : BurstLen(i)' = BurstLen(i)
  BY <1>2 DEF BurstLen
<1>4. \A i : AddressOf(i)' = AddressOf(i)
  BY <1>1, <1>3 DEF AddressOf
<1>5. \A n : WordOf(n)' = WordOf(n)
  BY <1>1, <1>2 DEF WordOf, Beat
<1> QED
  BY <1>2, <1>3, <1>4, <1>5

\* The addresses that the bus has are the transfer's first.
LEMMA AddressesKept ==
  ASSUME IInv, Ranges, Lasts, NextAddress, AddressesCarried,
         NEW ctrl, NEW gives \in BOOLEAN, NEW awready \in BOOLEAN,
         NEW wready \in BOOLEAN, NEW bvalid \in BOOLEAN,
         Step(ctrl, gives, awready, wready, bvalid)
  PROVE  AddressesCarried'
<1>1. CASE addresses' = <<>>
  BY <1>1, EmptyIsSequence DEF AddressesCarried
<1>2. CASE UNCHANGED Asks /\ addresses' = addresses
  BY <1>2, SameBursts DEF AddressesCarried
<1>3. CASE UNCHANGED Asks /\ ~areset /\ ~ctrl.start /\ Active /\ awready
  <2>1. addresses' = Append(addresses, AddressOf(Len(addresses) + 1))
    BY <1>3, AddressTaken, BusEdge
  <2>2. IsSequence(addresses)
    BY DEF IInv, Around
  <2>3. \A i \in 1 .. Len(addresses) + 1 : addresses'[i] = AddressOf(i)
    <3> TAKE i \in 1 .. Len(addresses) + 1
    <3>1. CASE i = Len(addresses) + 1
      BY <2>1, <2>2, <3>1, AppendedAt
    <3>2. CASE i # Len(addresses) + 1
      <4>1. i \in 1 .. Len(addresses)
        BY <2>2, <3>2, Appended
      <4> QED
        BY <2>1, <2>2, <4>1, AppendedAt DEF AddressesCarried
    <3> QED
      BY <3>1, <3>2
  <2>4. Len(addresses') = Len(addresses) + 1
    BY <2>1, <2>2, Appended
  <2> QED
    BY <1>3, <2>3, <2>4, SameBursts DEF AddressesCarried
<1>4. CASE UNCHANGED Asks /\ ~areset /\ ~ctrl.start /\ Active /\ ~awready
  BY <1>2, <1>4, BusEdge
<1> QED
  BY <1>1, <1>2, <1>3, <1>4, Grows

\* The beats of the burst under way, with the next one.
LEMMA CurrentGrows ==
  ASSUME IInv, Ranges, Stored, Lasts, NextWord, CurrentCarried, ~areset,
         NEW ctrl, NEW gives \in BOOLEAN, NEW awready \in BOOLEAN,
         NEW wready \in BOOLEAN, NEW bvalid \in BOOLEAN,
         Step(ctrl, gives, awready, wready, bvalid), wready,
         NEW burst, burst = Append(current, Word)
  PROVE  /\ IsSequence(burst) /\ Len(burst) = Len(current) + 1 /\ Len(current) \in Nat
         /\ \A j \in 1 .. Len(current) + 1 :
              burst[j] = WordOf(Len(bursts) * LP_AXI_BURST_LEN + j)
<1>1. IsSequence(current) /\ Len(current) \in Nat
  BY Appended DEF IInv, Around
<1>2. IsSequence(burst) /\ Len(burst) = Len(current) + 1
  BY <1>1, Appended
<1>3. ASSUME NEW j \in 1 .. Len(current) + 1
      PROVE  burst[j] = WordOf(Len(bursts) * LP_AXI_BURST_LEN + j)
  <2>1. CASE j = Len(current) + 1
    <3>1. burst[j] = Word
      BY <1>1, <2>1, AppendedAt
    <3>2. Word = WordOf(Gone + 1) /\ Gone = Len(bursts) * LP_AXI_BURST_LEN + Len(current)
      BY WordTaken
    <3>3. Len(bursts) \in Nat /\ LP_AXI_BURST_LEN \in Nat
      BY Widths, Appended DEF IInv, Around
    <3>4. Len(bursts) * LP_AXI_BURST_LEN \in Nat
      BY <3>3
    <3>5. Gone + 1 = Len(bursts) * LP_AXI_BURST_LEN + j
      BY <1>1, <2>1, <3>2, <3>4
    <3> QED
      BY <3>1, <3>2, <3>5
  <2>2. CASE j # Len(current) + 1
    <3>1. j \in 1 .. Len(current)
      BY <1>1, <2>2
    <3> QED
      BY <1>1, <3>1, AppendedAt DEF CurrentCarried
  <2> QED
    BY <2>1, <2>2
<1> QED
  BY <1>1, <1>2, <1>3

\* The bursts that the bus has are the transfer's first, whole, and the beats
\* since are those of the next.
LEMMA BurstsKept ==
  ASSUME IInv, Ranges, Stored, Lasts, NextWord, BurstsCarried, CurrentCarried,
         NEW ctrl, NEW gives \in BOOLEAN, NEW awready \in BOOLEAN,
         NEW wready \in BOOLEAN, NEW bvalid \in BOOLEAN,
         Step(ctrl, gives, awready, wready, bvalid)
  PROVE  BurstsCarried' /\ CurrentCarried'
<1> DEFINE B == LP_AXI_BURST_LEN
           burst == Append(current, Word)
<1>1. CASE bursts' = <<>> /\ current' = <<>>
  BY <1>1, EmptyIsSequence DEF BurstsCarried, CurrentCarried
<1>2. CASE UNCHANGED Asks /\ UNCHANGED <<bursts, current>> /\ (status # "busy" => status' # "busy")
  <2>1. BurstsCarried'
    BY <1>2, SameBursts DEF BurstsCarried
  <2>2. \A j \in 1 .. Len(current') : current'[j] = (WordOf(Len(bursts) * B + j))'
    BY <1>2, SameBursts DEF CurrentCarried
  <2>3. status' # "busy" => current' = <<>>
    <3>1. status # "busy" => current' = <<>>
      BY <1>2 DEF CurrentCarried
    <3>2. CASE status = "busy" /\ status' # "busy"
      <4>1. CASE areset
        BY <3>2, <4>1, BreakEdge
      <4>2. CASE ~areset
        <5>1. Registers /\ Around /\ Active /\ done
          BY <3>2, <4>2, Phases, UserEdge DEF Quiet, Asked
        <5> QED
          BY <1>2, <5>1, Finished
      <4> QED
        BY <4>1, <4>2
    <3> QED
      BY <3>1, <3>2
  <2> QED
    BY <2>1, <2>2, <2>3 DEF CurrentCarried
<1>3. CASE UNCHANGED Asks /\ ~areset /\ ~ctrl.start /\ Active /\ wready /\ status' = "busy"
  <2>1. /\ IsSequence(burst) /\ Len(burst) = Len(current) + 1 /\ Len(current) \in Nat
        /\ \A j \in 1 .. Len(current) + 1 : burst[j] = WordOf(Len(bursts) * B + j)
    BY <1>3, CurrentGrows
  <2>2. IsSequence(bursts) /\ Len(bursts) \in Nat
    BY Appended DEF IInv, Around
  <2>3. m_axi_wlast => Len(burst) = BurstLen(Len(bursts) + 1)
    BY <1>3, <2>1, WordTaken
  <2>4. /\ m_axi_wlast => bursts' = Append(bursts, burst) /\ current' = <<>>
        /\ ~m_axi_wlast => bursts' = bursts /\ current' = burst
    BY <1>3, BusEdge
  <2> HIDE DEF burst, B
  <2>5. CASE m_axi_wlast
    <3>1. Len(bursts') = Len(bursts) + 1 /\ bursts'[Len(bursts) + 1] = burst
      BY <2>2, <2>4, <2>5, Appended, AppendedAt
    <3>2. \A i \in 1 .. Len(bursts) : bursts'[i] = bursts[i]
      BY <2>2, <2>4, <2>5, AppendedAt
    <3>3. ASSUME NEW i \in 1 .. Len(bursts) + 1
          PROVE  /\ IsSequence(bursts'[i]) /\ Len(bursts'[i]) = BurstLen(i)
                 /\ \A j \in 1 .. BurstLen(i) : bursts'[i][j] = WordOf((i - 1) * B + j)
      <4>1. CASE i = Len(bursts) + 1
        <5>1. bursts'[i] = burst /\ i - 1 = Len(bursts) /\ BurstLen(i) = Len(current) + 1
          BY <2>1, <2>2, <2>3, <2>5, <3>1, <4>1
        <5> QED
          BY <2>1, <5>1
      <4>2. CASE i # Len(bursts) + 1
        <5>1. i \in 1 .. Len(bursts)
          BY <2>2, <4>2
        <5> QED
          BY <3>2, <5>1 DEF BurstsCarried, B
      <4> QED
        BY <4>1, <4>2
    <3>4. BurstsCarried'
      BY <1>3, <3>1, <3>3, SameBursts DEF BurstsCarried, B
    <3>5. CurrentCarried'
      BY <2>4, <2>5, EmptyIsSequence DEF CurrentCarried
    <3> QED
      BY <3>4, <3>5
  <2>6. CASE ~m_axi_wlast
    <3>1. BurstsCarried'
      BY <1>3, <2>4, <2>6, SameBursts DEF BurstsCarried
    <3>2. \A j \in 1 .. Len(current') : current'[j] = (WordOf(Len(bursts) * B + j))'
      BY <1>3, <2>1, <2>4, <2>6, SameBursts
    <3> QED
      BY <1>3, <3>1, <3>2 DEF CurrentCarried, B
  <2> QED
    BY <2>5, <2>6
<1>4. CASE UNCHANGED Asks /\ ~areset /\ ~ctrl.start /\ Active /\ ~wready /\ status' = "busy"
  <2>1. bursts' = bursts /\ current' = current
    BY <1>4, BusEdge
  <2> QED
    BY <1>2, <1>4, <2>1 DEF Active
<1> QED
  BY <1>1, <1>2, <1>3, <1>4, Grows

\* The beats that the bus has are some number.
LEMMA GoneNat ==
  ASSUME Registers, Around
  PROVE  Gone \in Nat
<1>1. Len(bursts) \in Nat /\ Len(current) \in Nat /\ Total \in Nat /\ LP_AXI_BURST_LEN \in Nat
  BY Appended, Lengths, Widths DEF Around
<1>2. Len(bursts) * LP_AXI_BURST_LEN \in Nat
  BY <1>1
<1> QED
  BY <1>1, <1>2 DEF Gone

\* The beats that the bus has are counted.
LEMMA GoneEdge ==
  ASSUME IInv, Ranges, Stored, Lasts, NextWord, ~areset,
         NEW ctrl, NEW gives \in BOOLEAN, NEW awready \in BOOLEAN,
         NEW wready \in BOOLEAN, NEW bvalid \in BOOLEAN,
         Step(ctrl, gives, awready, wready, bvalid), ~ctrl.start, UNCHANGED Asks
  PROVE  Gone' = IF wready THEN Gone + 1 ELSE Gone
<1> DEFINE b == Len(bursts)
           n == Len(current)
           N == num_transactions
           B == LP_AXI_BURST_LEN
<1>1. Total' = Total /\ Bursts' = Bursts
  BY SameBursts
<1>2. Registers /\ Around
  BY DEF IInv
<1>3. CASE ~wready
  <2>1. bursts' = bursts /\ current' = current
    BY <1>3, BusEdge
  <2> QED
    BY <1>1, <1>3, <2>1 DEF Gone
<1>4. CASE wready
  <2>1. /\ Gone = b * B + n /\ Gone \in Nat
        /\ m_axi_wlast <=> Gone + 1 = IF b < N THEN (b + 1) * B ELSE Total
    BY <1>4, WordTaken
  <2>2. b < Bursts /\ Bursts = N + 1 /\ N \in Nat /\ b \in Nat /\ n \in Nat /\ B \in Nat
    <3>1. b < Bursts
      BY <1>4, Moves
    <3>2. b \in Nat /\ n \in Nat
      BY <1>2, Appended DEF Around
    <3>3. Bursts = N + 1 /\ N \in Nat /\ B \in Nat
      BY <1>2, Lengths, Widths
    <3> QED
      BY <3>1, <3>2, <3>3
  <2>3. CASE m_axi_wlast
    <3>1. Len(bursts') = b + 1 /\ Len(current') = 0
      BY <1>2, <1>4, <2>3, BusEdge, Appended, EmptyIsSequence DEF Around
    <3> HIDE DEF b, n, N, B
    <3>2. CASE b + 1 = Bursts
      <4>1. Gone' = Total
        BY <1>1, <3>1, <3>2 DEF Gone
      <4>2. ~(b < N)
        BY <2>2, <3>2
      <4>3. Gone + 1 = Total
        BY <2>1, <2>3, <4>2
      <4> QED
        BY <1>4, <4>1, <4>3
    <3>3. CASE b + 1 # Bursts
      <4>1. Gone' = (b + 1) * B + 0
        BY <1>1, <3>1, <3>3 DEF Gone, B
      <4>2. b < N /\ (b + 1) * B \in Nat
        BY <2>2, <3>3
      <4> QED
        BY <1>4, <2>1, <2>3, <4>1, <4>2
    <3> QED
      BY <3>2, <3>3
  <2>4. CASE ~m_axi_wlast
    <3>1. bursts' = bursts /\ Len(current') = n + 1
      BY <1>2, <1>4, <2>4, BusEdge, Appended DEF Around
    <3>2. Gone' = b * B + (n + 1)
      BY <1>1, <2>2, <3>1 DEF Gone
    <3>3. b * B \in Nat
      BY <2>2
    <3> HIDE DEF b, n, N, B
    <3> QED
      BY <1>4, <2>1, <2>2, <3>2, <3>3
  <2> QED
    BY <2>3, <2>4
<1> QED
  BY <1>3, <1>4

\* The FIFO holds what has been given and is not gone.
LEMMA StoredKept ==
  ASSUME IInv, IInv', Ranges, Agreed, Stored, Lasts, NextWord,
         NEW ctrl, NEW gives \in BOOLEAN, NEW awready \in BOOLEAN,
         NEW wready \in BOOLEAN, NEW bvalid \in BOOLEAN,
         Step(ctrl, gives, awready, wready, bvalid)
  PROVE  Stored'
<1>1. Registers /\ Around
  BY DEF IInv
<1>2. gives => status = "busy" /\ sent < Beats(transfer.size) /\ ~Full(fifo) /\ ~areset
  BY DEF Step, s_axis_tready
<1>3. CASE areset
  <2>1. fifo' = <<>> /\ status' # "busy"
    BY <1>1, <1>3, BreakEdge, UserReset
  <2> QED
    BY <2>1 DEF Stored
<1>4. ASSUME ~areset, fifo = <<>>, ~gives PROVE fifo' = <<>>
  <2>1. /\ fifo' \in Seq(Entries(WriteBeat))
        /\ Passed(fifo, fifo', wready, gives, Beat(sent + 1))
    BY <1>1, <1>4, FifoEdge
  <2>2. Len(fifo) = 0 /\ ~DataValid(fifo)
    BY <1>4 DEF DataValid
  <2>3. Len(fifo') = 0
    BY <1>4, <2>1, <2>2 DEF Passed
  <2> QED
    BY <2>1, <2>3
<1>5. CASE ~areset /\ ctrl.start
  <2>1. status # "busy" /\ fifo = <<>> /\ ~gives
    BY <1>2, <1>5, Controls DEF Step, Stored
  <2>2. fifo' = <<>>
    BY <1>4, <1>5, <2>1
  <2>3. sent' = 0 /\ bursts' = <<>> /\ current' = <<>>
    BY <1>5, BreakEdge
  <2>4. Total' \in Nat /\ Bursts' # 0
    <3>1. total_len_r' \in Nat
      BY DEF IInv, Registers
    <3>2. PICK t \in Nat : t = total_len_r'
      BY <3>1
    <3>3. t \div LP_AXI_BURST_LEN \in Nat
      BY Widths
    <3>4. Total' = t + 1 /\ Bursts' = (t \div LP_AXI_BURST_LEN) + 1
      BY <3>2 DEF Total, Bursts, num_transactions
    <3> QED
      BY <3>3, <3>4
  <2>5. Gone' = 0
    <3>1. Len(bursts') = 0 /\ Len(current') = 0 /\ LP_AXI_BURST_LEN \in Nat
      BY <2>3, EmptyIsSequence, Widths
    <3> QED
      BY <2>4, <3>1 DEF Gone
  <2>6. Len(fifo') = 0
    BY <2>2
  <2>7. sent' <= Total' /\ sent' = Gone' + Len(fifo')
    BY <2>3, <2>4, <2>5, <2>6
  <2> QED
    BY <1>5, <2>2, <2>6, <2>7, BreakEdge DEF Stored
<1>6. CASE ~areset /\ ~ctrl.start
  <2>1. /\ transfer' = transfer /\ sent' = IF gives THEN sent + 1 ELSE sent
        /\ status' = IF done THEN "done" ELSE status
        /\ UNCHANGED Asks
    BY <1>1, <1>6, BusEdge, UserEdge, RequestEdge DEF Ranges, Asks
  <2>2. sent \in Nat /\ Total \in Nat
    BY <1>1, Lengths DEF Around
  <2>3. CASE status # "busy"
    <3>1. fifo' = <<>> /\ status' # "busy"
      BY <1>2, <1>4, <1>6, <2>1, <2>3 DEF Stored
    <3> QED
      BY <3>1 DEF Stored
  <2>4. CASE status = "busy" /\ done
    <3>1. Active
      BY <1>1, <1>6, <2>4, Phases DEF Quiet, Asked
    <3>2. Gone = Total
      BY <1>1, <2>4, <3>1, Finished DEF Gone
    <3>3. sent <= Total /\ sent = Gone + Len(fifo) /\ Beats(transfer.size) = Total
      BY <2>4 DEF Stored, Agreed
    <3>4. Len(fifo) \in Nat /\ fifo \in Seq(Entries(WriteBeat))
      BY <1>1 DEF Registers
    <3>5. Len(fifo) = 0 /\ sent = Total
      BY <2>2, <3>2, <3>3, <3>4
    <3>6. fifo = <<>> /\ ~gives
      BY <1>2, <2>2, <3>3, <3>4, <3>5
    <3>7. fifo' = <<>> /\ status' # "busy"
      BY <1>4, <1>6, <2>1, <2>4, <3>6
    <3> QED
      BY <3>7 DEF Stored
  <2>5. CASE status = "busy" /\ ~done
    <3>1. status' = "busy" /\ Beats(transfer.size) = Total /\ Total' = Total
      BY <2>1, <2>5, SameBursts DEF Agreed
    <3>2. /\ sent <= Total /\ sent = Gone + Len(fifo)
          /\ \A k \in 1 .. Len(fifo) : fifo[k].beat = Beat(Gone + k)
      BY <2>5 DEF Stored
    <3>3. Passed(fifo, fifo', wready, gives, Beat(sent + 1)) /\ Len(fifo) \in Nat
      BY <1>1, <1>6, FifoEdge DEF Registers
    <3>4. wready => DataValid(fifo) /\ Len(fifo) >= 1
      <4>1. wready => DataValid(fifo)
        BY <1>6, Moves
      <4>2. DataValid(fifo) => Len(fifo) >= 1
        BY <1>1 DEF DataValid, Registers
      <4> QED
        BY <4>1, <4>2
    <3>5. PICK out : out = IF wready THEN 1 ELSE 0
      OBVIOUS
    <3>6. PICK come : come = IF gives THEN 1 ELSE 0
      OBVIOUS
    <3>7. out = IF wready /\ DataValid(fifo) THEN 1 ELSE 0
      BY <3>4, <3>5
    <3>8. come = IF gives /\ ~Full(fifo) THEN 1 ELSE 0
      BY <1>2, <3>6
    <3>9. /\ Len(fifo') = Len(fifo) - out + come
          /\ \A k \in 1 .. Len(fifo) - out : fifo'[k].beat = fifo[k + out].beat
          /\ gives => fifo'[Len(fifo) - out + 1].beat = Beat(sent + 1)
      BY <1>2, <3>3, <3>7, <3>8 DEF Passed
    <3>10. Gone' = Gone + out
      <4>1. Gone' = IF wready THEN Gone + 1 ELSE Gone
        BY <1>6, <2>1, GoneEdge
      <4>2. Gone \in Nat
        BY <1>1, GoneNat
      <4> QED
        BY <3>5, <4>1, <4>2
    <3>11. Gone \in Nat /\ out \in {0, 1} /\ come \in {0, 1} /\ out <= Len(fifo)
      BY <1>1, <3>3, <3>4, <3>5, <3>6, GoneNat
    <3>12. sent' = sent + come /\ sent' <= Total
      BY <1>2, <2>1, <2>2, <3>1, <3>2, <3>6
    <3>13. sent' = Gone' + Len(fifo')
      BY <2>2, <3>2, <3>3, <3>9, <3>10, <3>11, <3>12
    <3>14. \A n : Beat(n)' = Beat(n)
      BY <2>1 DEF Beat
    <3>15. ASSUME NEW k \in 1 .. Len(fifo') PROVE fifo'[k].beat = Beat(Gone' + k)
      <4>1. CASE k <= Len(fifo) - out
        <5>1. k \in 1 .. Len(fifo) - out /\ k + out \in 1 .. Len(fifo)
              /\ Gone + (k + out) = Gone' + k
          BY <3>3, <3>9, <3>10, <3>11, <4>1
        <5>2. fifo'[k].beat = fifo[k + out].beat
          BY <3>9, <5>1
        <5>3. fifo[k + out].beat = Beat(Gone + (k + out))
          BY <3>2, <5>1
        <5> QED
          BY <5>1, <5>2, <5>3
      <4>2. CASE k > Len(fifo) - out
        <5>1. come = 1 /\ k = Len(fifo) - out + 1
          BY <3>3, <3>9, <3>11, <4>2
        <5>2. gives
          BY <3>6, <5>1
        <5>3. sent + 1 = Gone' + k
          BY <2>2, <3>2, <3>3, <3>10, <3>11, <5>1
        <5> QED
          BY <3>9, <5>1, <5>2, <5>3
      <4> QED
        BY <3>3, <3>9, <3>11, <4>1, <4>2
    <3>16. \A k \in 1 .. Len(fifo') : fifo'[k].beat = (Beat(Gone + k))'
      BY <3>14, <3>15
    <3> QED
      BY <3>1, <3>12, <3>13, <3>16 DEF Stored
  <2> QED
    BY <2>3, <2>4, <2>5
<1> QED
  BY <1>3, <1>5, <1>6

-----------------------------------------------------------------------------
(***************************************************************************)
(* What the channels carry: the theorems.                                  *)
(***************************************************************************)
\* After configuration the bus and the FIFO have nothing.
LEMMA InitCInv == Init => CInv
<1> SUFFICES ASSUME Init PROVE CInv
  OBVIOUS
<1> USE DEF Init, WriteMasterInit
<1>1. Len(addresses) = 0 /\ Len(bursts) = 0 /\ Len(current) = 0 /\ Len(fifo) = 0
  BY EmptyIsSequence
<1>2. status = "idle" /\ status # "busy" /\ fifo = <<>> /\ current = <<>>
  OBVIOUS
<1>3. Ranges
  <2>1. 0 \in 0 .. 2^LP_TRANSACTION_CNTR_WIDTH - 1
    BY Widths
  <2>2. Sound(aw_transaction_cntr, LP_TRANSACTION_CNTR_WIDTH)
    BY <2>1, CounterLoads
  <2> QED
    BY <1>1, <2>2, Widths, FifoAssumption DEF Ranges
<1>4. AddressesCarried /\ BurstsCarried /\ CurrentCarried
  BY <1>1, <1>2 DEF AddressesCarried, BurstsCarried, CurrentCarried
<1>5. Agreed /\ Stored /\ Lasts /\ NextAddress /\ NextWord
  BY <1>2 DEF Agreed, Stored, Lasts, NextAddress, NextWord
<1> QED
  BY <1>3, <1>4, <1>5 DEF CInv

\* A step is an edge with its inputs.
LEMMA NextSteps ==
  ASSUME Next
  PROVE  \E gives, awready, wready, bvalid \in BOOLEAN, ctrl \in Ctrls :
           Step(ctrl, gives, awready, wready, bvalid)
<1>1. PICK gives \in BOOLEAN, awready \in BOOLEAN, wready \in BOOLEAN, bvalid \in BOOLEAN :
        Clk(gives, awready, wready, bvalid)
  BY DEF Next
<1>2. PICK ctrl \in Ctrls : Step(ctrl, gives, awready, wready, bvalid)
  BY <1>1 DEF Clk, Step, Ctrls
<1> QED
  BY <1>2

\* Each edge keeps what the channels carry.
LEMMA NextCInv == IInv /\ IInv' /\ CInv /\ [Next]_vars => CInv'
<1> SUFFICES ASSUME IInv, IInv', CInv, [Next]_vars PROVE CInv'
  OBVIOUS
<1>1. CASE Next
  <2>1. PICK gives \in BOOLEAN, awready \in BOOLEAN, wready \in BOOLEAN, bvalid \in BOOLEAN,
             ctrl \in Ctrls :
          Step(ctrl, gives, awready, wready, bvalid)
    BY <1>1, NextSteps
  <2>2. /\ Ranges /\ Agreed /\ AddressesCarried /\ BurstsCarried /\ CurrentCarried
        /\ Stored /\ Lasts /\ NextAddress /\ NextWord
    BY DEF CInv
  <2>3. Ranges' /\ Agreed' /\ Lasts'
    BY <2>1, <2>2, RangesKept, AgreedKept, LastsKept
  <2>4. AddressesCarried' /\ NextAddress'
    BY <2>1, <2>2, AddressesKept, NextAddressKept
  <2>5. BurstsCarried' /\ CurrentCarried'
    BY <2>1, <2>2, BurstsKept
  <2>6. Stored' /\ NextWord'
    BY <2>1, <2>2, StoredKept, NextWordKept
  <2> QED
    BY <2>3, <2>4, <2>5, <2>6 DEF CInv
<1>2. CASE UNCHANGED vars
  <2>1. UNCHANGED master_vars /\ UNCHANGED user_vars
    BY <1>2 DEF vars
  <2>2. Ranges' /\ Agreed' /\ Lasts' /\ NextAddress' /\ NextWord'
    BY <2>1 DEF master_vars, user_vars, CInv, Ranges, Agreed, Lasts, NextAddress, NextWord,
       Total, LastLen, BurstLen, Bursts, num_transactions
  <2>3. AddressesCarried' /\ BurstsCarried' /\ CurrentCarried'
    <3>1. UNCHANGED Asks /\ UNCHANGED <<addresses, bursts, current, status>>
      BY <2>1 DEF master_vars, user_vars, Asks
    <3> QED
      BY <3>1, SameBursts DEF CInv, AddressesCarried, BurstsCarried, CurrentCarried
  <2>4. Stored'
    BY <2>1 DEF master_vars, user_vars, CInv, Stored, Gone, Total, Bursts, num_transactions, Beat
  <2> QED
    BY <2>2, <2>3, <2>4 DEF CInv
<1> QED
  BY <1>1, <1>2

\* Whatever the bus has taken on either channel, and whatever the FIFO holds,
\* is what the transfer's number for it says (vdf_axi_write_master.sv).
THEOREM ChannelsAgree == Spec => []CInv
BY InitCInv, NextCInv, InitIInv, NextIInv, PTL DEF Spec

\* Every register, counter and count of the system stays in its range; the
\* FIFO never holds more than it can, and no burst is answered before the bus
\* has its address and its data.
THEOREM TypesHold == Spec => []TypeOK
<1>1. IInv /\ CInv => TypeOK
  <2> SUFFICES ASSUME IInv, CInv PROVE TypeOK
    OBVIOUS
  <2>1. Registers /\ Ranges
    BY DEF IInv, CInv
  <2>2. /\ burst_cntr \in Counters(LP_LOG_BURST_LEN)
        /\ {w_transaction_cntr, aw_transaction_cntr, b_transaction_cntr}
             \subseteq Counters(LP_TRANSACTION_CNTR_WIDTH)
        /\ w_to_aw_cntr \in Counters(LP_LOG_MAX_W_TO_AW)
        /\ aw_to_b_cntr \in Counters(LP_OUTSTANDING_CNTR_WIDTH)
    BY <2>1 DEF Registers, Ranges, Sound
  <2>3. /\ {done, ctrl_start_d1, start, w_running, wfirst, wfirst_d1, wfirst_pulse, awvalid_r}
             \subseteq BOOLEAN
        /\ {total_len_r, addr_offset_r, addr} \subseteq Nat
        /\ final_burst_len \in 0 .. LP_AXI_BURST_LEN - 1
    BY <2>1 DEF Registers, Ranges
  <2> QED
    BY <2>1, <2>2, <2>3 DEF Ranges, TypeOK
<1> QED
  BY <1>1, BooksAreKept, ChannelsAgree, PTL

\* The n-th burst of data has as many beats as the n-th address said, and one
\* under way has fewer, whichever of the two channels runs ahead.
THEOREM LengthsMatch == Spec => []BurstsMatch
<1>1. IInv /\ CInv => BurstsMatch
  <2> SUFFICES ASSUME IInv, CInv, NEW i \in DOMAIN addresses
               PROVE  /\ i <= Len(bursts) => Len(bursts[i]) = addresses[i].len + 1
                      /\ i = Len(bursts) + 1 => Len(current) < addresses[i].len + 1
    BY DEF BurstsMatch
  <2>1. Registers /\ Around
    BY DEF IInv
  <2>2. /\ IsSequence(addresses) /\ Len(addresses) \in Nat
        /\ Len(bursts) \in Nat /\ Len(current) \in Nat
    BY <2>1, Appended DEF Around
  <2>3. i \in 1 .. Len(addresses)
    BY <2>2, AppendedAt
  <2>4. BurstLen(i) \in Nat \ {0}
    BY <2>1, Lengths, Widths DEF BurstLen
  <2>5. addresses[i].len + 1 = BurstLen(i)
    <3>1. addresses[i] = AddressOf(i)
      BY <2>3 DEF CInv, AddressesCarried
    <3>2. addresses[i].len = BurstLen(i) - 1
      BY <3>1 DEF AddressOf
    <3> QED
      BY <2>4, <3>2
  <2>6. ASSUME i <= Len(bursts) PROVE Len(bursts[i]) = BurstLen(i)
    <3>1. i \in 1 .. Len(bursts)
      BY <2>2, <2>3, <2>6
    <3> QED
      BY <3>1 DEF CInv, BurstsCarried
  <2>7. ASSUME i = Len(bursts) + 1 PROVE Len(current) < BurstLen(i)
    <3>1. CASE Active /\ w_running
      <4>1. Len(current) + burst_cntr.count + 1 = BurstLen(i)
        BY <2>7, <3>1 DEF CInv, NextWord, Active
      <4>2. burst_cntr.count \in Nat
        BY <2>1 DEF Registers, Sound, Counters
      <4> QED
        BY <2>2, <4>1, <4>2
    <3>2. CASE ~(Active /\ w_running)
      <4>1. current = <<>>
        BY <3>2 DEF IInv, Phase, Quiet, Asked, Active, Resetting, DataBooks, CInv, CurrentCarried
      <4> QED
        BY <2>4, <4>1, EmptyIsSequence
    <3> QED
      BY <3>1, <3>2
  <2> QED
    BY <2>5, <2>6, <2>7
<1> QED
  BY <1>1, BooksAreKept, ChannelsAgree, PTL

\* An address or a word that is offered is offered unchanged until the bus
\* takes it (AXI's rule), though tlast, strobe and length are worked out from
\* counters and registers that other events step.
THEOREM OffersAreHeld == Spec => OffersHold
<1> DEFINE AddressHolds ==
             awvalid_r => \/ awvalid_r' /\ addr' = addr /\ m_axi_awlen' = m_axi_awlen
                          \/ Len(addresses') > Len(addresses)
           WordHolds ==
             m_axi_wvalid => \/ /\ m_axi_wvalid' /\ m_axi_wdata' = m_axi_wdata
                                /\ m_axi_wlast' = m_axi_wlast /\ m_axi_wstrb' = m_axi_wstrb
                             \/ <<bursts, current>>' # <<bursts, current>>
           Holds == ~areset => AddressHolds /\ WordHolds
<1>1. IInv /\ CInv /\ IInv' /\ CInv' /\ [Next]_vars => [Holds]_vars
  <2> SUFFICES ASSUME IInv, CInv, IInv', CInv', Next, ~areset PROVE AddressHolds /\ WordHolds
    OBVIOUS
  <2>1. PICK gives \in BOOLEAN, awready \in BOOLEAN, wready \in BOOLEAN, bvalid \in BOOLEAN,
             ctrl \in Ctrls :
          Step(ctrl, gives, awready, wready, bvalid)
    BY NextSteps
  <2>2. Registers /\ Around /\ Ranges /\ Lasts
    BY DEF IInv, CInv
  <2>3. ASSUME awvalid_r \/ m_axi_wvalid PROVE Active /\ ~ctrl.start /\ ~start /\ ~start'
    <3>1. Active
      BY <2>2, <2>3, Phases DEF Quiet, Asked, Fresh, m_axi_wvalid
    <3> QED
      BY <2>1, <2>2, <3>1, Controls, FlagsEdge DEF Step, Active
  <2>4. ASSUME awvalid_r \/ m_axi_wvalid
        PROVE  /\ final_burst_len' = final_burst_len /\ final_strb' = final_strb
               /\ addr' = IF awready THEN addr + BurstBytes ELSE addr
               /\ Turned(aw_transaction_cntr, aw_transaction_cntr',
                         LP_TRANSACTION_CNTR_WIDTH, FALSE, awready)
    <3>1. final_burst_len = LastLen /\ final_strb = byte_remainder_r + 1
      BY <2>2, <2>3, <2>4 DEF Lasts, Active
    <3> QED
      BY <2>1, <2>2, <2>3, <2>4, <3>1, RequestEdge DEF Ranges
  <2>5. AddressHolds
    <3> SUFFICES ASSUME awvalid_r
                 PROVE  \/ awvalid_r' /\ addr' = addr /\ m_axi_awlen' = m_axi_awlen
                        \/ Len(addresses') > Len(addresses)
      OBVIOUS
    <3>1. CASE awready
      <4>1. Len(addresses') = Len(addresses) + 1 /\ Len(addresses) \in Nat
        BY <2>1, <2>2, <2>3, <3>1, UserEdge, Appended DEF Around
      <4> QED
        BY <4>1
    <3>2. CASE ~awready
      <4>1. awvalid_r'
        BY <2>1, <2>2, <3>2, FlagsEdge
      <4>2. aw_transaction_cntr' = aw_transaction_cntr /\ addr' = addr
        BY <2>4, <3>2 DEF Turned
      <4>3. m_axi_awlen' = m_axi_awlen
        BY <2>3, <2>4, <4>2 DEF m_axi_awlen
      <4> QED
        BY <4>1, <4>2, <4>3
    <3> QED
      BY <3>1, <3>2
  <2>6. WordHolds
    <3> SUFFICES ASSUME m_axi_wvalid
                 PROVE  \/ /\ m_axi_wvalid' /\ m_axi_wdata' = m_axi_wdata
                           /\ m_axi_wlast' = m_axi_wlast /\ m_axi_wstrb' = m_axi_wstrb
                        \/ <<bursts, current>>' # <<bursts, current>>
      OBVIOUS
    <3>1. CASE wready
      <4>1. Len(bursts) \in Nat /\ Len(current) \in Nat
        BY <2>2, Appended DEF Around
      <4>2. CASE m_axi_wlast
        <5>1. Len(bursts') = Len(bursts) + 1
          BY <2>1, <2>2, <2>3, <3>1, <4>2, UserEdge
        <5>2. bursts' # bursts
          BY <4>1, <5>1
        <5> QED
          BY <5>2
      <4>3. CASE ~m_axi_wlast
        <5>1. current' = Append(current, Word)
          BY <2>1, <2>3, <3>1, <4>3, BusEdge
        <5>2. Len(current') = Len(current) + 1
          BY <2>2, <5>1, Appended DEF Around
        <5>3. current' # current
          BY <4>1, <5>2
        <5> QED
          BY <5>3
      <4> QED
        BY <4>2, <4>3
    <3>2. CASE ~wready
      <4>1. DataValid(fifo) /\ w_running
        BY DEF m_axi_wvalid
      <4>2. DataValid(fifo') /\ Dout(fifo') = Dout(fifo)
        BY <2>1, <2>2, <3>2, <4>1, FirstBeatStays
      <4>3. w_running'
        BY <2>1, <2>2, <3>2, <4>1, FlagsEdge
      <4>4. burst_cntr' = burst_cntr /\ w_transaction_cntr' = w_transaction_cntr
        BY <2>1, <2>2, <2>3, <3>2, CountersEdge DEF Turned
      <4>5. m_axi_wvalid' /\ m_axi_wdata' = m_axi_wdata
        BY <4>2, <4>3 DEF m_axi_wvalid, m_axi_wdata
      <4>6. m_axi_wlast' = m_axi_wlast /\ final_beat' = final_beat
        BY <4>4 DEF m_axi_wlast, final_beat
      <4>7. m_axi_wstrb' = m_axi_wstrb
        BY <2>4, <4>6 DEF m_axi_wstrb
      <4> QED
        BY <4>5, <4>6, <4>7
    <3> QED
      BY <3>1, <3>2
  <2> QED
    BY <2>5, <2>6
<1> QED
  BY <1>1, BooksAreKept, ChannelsAgree, PTL DEF Spec, OffersHold

-----------------------------------------------------------------------------
(***************************************************************************)
(* The promise: the memory gets a transfer's beats, each at its place.     *)
(***************************************************************************)
Place(n) == [addr |-> addr_offset_r + (n - 1) * LP_DW_BYTES, beat |-> WordOf(n)]

\* Beats of the transfer whose bursts are answered.
Arrived == IF answered = Bursts THEN Total ELSE answered * LP_AXI_BURST_LEN

LandedRight == (status = "busy" => Landed = Arrived) /\ (answered = 0 => Landed = 0)

\* No bytes, no beats.
LEMMA NoBeats == Beats(0) = 0
<1>1. LP_DW_BYTES \in Nat \ {0}
  BY Widths
<1>2. (0 * LP_DW_BYTES + (LP_DW_BYTES - 1)) \div LP_DW_BYTES = 0
  BY <1>1, Division
<1> QED
  BY <1>1, <1>2 DEF Beats

\* The bytes of each beat: all of them but for the last beat.
LEMMA BytesOfBeats ==
  ASSUME NEW size \in Nat, NEW n \in 1 .. Beats(size)
  PROVE  (IF n * LP_DW_BYTES <= size THEN LP_DW_BYTES ELSE size % LP_DW_BYTES)
           = (IF n = Beats(size) THEN LastBytes(size) ELSE LP_DW_BYTES)
<1> DEFINE D == LP_DW_BYTES
           q == size \div D
           r == size % D
<1>1. D \in Nat \ {0}
  BY Widths
<1>2. size = D * q + r /\ q \in Nat /\ r \in 0 .. D - 1
  BY <1>1
<1> HIDE DEF q, r, D
<1>3. D * q = q * D /\ (q + 1) * D = q * D + D /\ q * D \in Nat
  BY <1>1, <1>2
<1>4. CASE r > 0
  <2>1. size + D - 1 = (q + 1) * D + (r - 1) /\ r - 1 \in 0 .. D - 1 /\ q + 1 \in Nat
    BY <1>1, <1>2, <1>3, <1>4
  <2>2. ((q + 1) * D + (r - 1)) \div D = q + 1
    BY <1>1, <2>1, Division
  <2>3. (size + D - 1) \div D = q + 1
    BY <2>1, <2>2
  <2>4. Beats(size) = q + 1 /\ LastBytes(size) = r
    BY <1>4, <2>3 DEF Beats, LastBytes, r, D
  <2>5. CASE n = q + 1
    BY <1>1, <1>2, <1>3, <2>4, <2>5 DEF r, D
  <2>6. CASE n # q + 1
    <3>1. n \in 1 .. q
      BY <1>2, <2>4, <2>6
    <3>2. n * D <= q * D
      BY <1>1, <1>2, <3>1
    <3>3. n * D \in Nat /\ n * D <= size
      BY <1>1, <1>2, <1>3, <3>1, <3>2
    <3> QED
      BY <2>4, <2>6, <3>3 DEF D
  <2> QED
    BY <2>5, <2>6
<1>5. CASE r = 0
  <2>1. size + D - 1 = q * D + (D - 1) /\ D - 1 \in 0 .. D - 1
    BY <1>1, <1>2, <1>3, <1>5
  <2>2. (size + D - 1) \div D = q
    BY <1>1, <1>2, <2>1, Division
  <2>3. Beats(size) = q /\ LastBytes(size) = D
    BY <1>5, <2>2 DEF Beats, LastBytes, r, D
  <2>4. n * D <= q * D
    BY <1>1, <1>2, <2>3
  <2> QED
    BY <1>2, <1>3, <1>5, <2>3, <2>4 DEF D
<1> QED
  BY <1>2, <1>4, <1>5

\* Beats of the i-th burst of N, and of the first a together.
BurstBeats(i, N, B, last) == IF i < N THEN B ELSE last
FirstBeats(a, N, B, last) == IF a = N THEN (N - 1) * B + last ELSE a * B

\* The numbers of the beats in the first a bursts of N.
LEMMA Numbering ==
  ASSUME NEW B \in Nat \ {0}, NEW N \in Nat \ {0}, NEW last \in 1 .. B, NEW a \in 0 .. N
  PROVE  /\ FirstBeats(a, N, B, last) \in 0 .. (N - 1) * B + last
         /\ \A i \in 1 .. a : \A j \in 1 .. BurstBeats(i, N, B, last) :
              (i - 1) * B + j \in 1 .. FirstBeats(a, N, B, last)
         /\ \A n \in 1 .. FirstBeats(a, N, B, last) :
              \E i \in 1 .. a : \E j \in 1 .. BurstBeats(i, N, B, last) : n = (i - 1) * B + j
<1> DEFINE top == FirstBeats(a, N, B, last)
           long(i) == BurstBeats(i, N, B, last)
<1> USE DEF FirstBeats, BurstBeats
<1>1. /\ a * B \in Nat /\ (N - 1) * B \in Nat /\ (a = N => a * B = (N - 1) * B + B)
      /\ (a < N => a * B <= (N - 1) * B)
  <2>1. a * B \in Nat /\ (N - 1) * B \in Nat
    OBVIOUS
  <2>2. a = N => a * B = (N - 1) * B + B
    OBVIOUS
  <2>3. a < N => a * B <= (N - 1) * B
    OBVIOUS
  <2> QED
    BY <2>1, <2>2, <2>3
<1>2. top \in Nat /\ top \in 0 .. (N - 1) * B + last
  BY <1>1
<1>3. ASSUME NEW i \in 1 .. a, NEW j \in 1 .. long(i)
      PROVE  (i - 1) * B + j \in 1 .. top
  <2>1. (i - 1) * B \in Nat /\ (i - 1) * B + B = i * B /\ i * B <= a * B
    OBVIOUS
  <2>2. j \in Nat /\ j >= 1 /\ j <= B
    OBVIOUS
  <2>3. CASE a = N /\ i = N
    BY <1>1, <2>1, <2>2, <2>3
  <2>4. CASE a = N /\ i < N
    <3>1. i * B <= (N - 1) * B
      BY <2>4
    <3>2. (i - 1) * B + j <= (N - 1) * B
      BY <1>1, <2>1, <2>2, <3>1
    <3> QED
      BY <1>1, <2>1, <2>2, <2>4, <3>2
  <2>5. CASE a < N
    BY <1>1, <2>1, <2>2, <2>5
  <2> QED
    BY <2>3, <2>4, <2>5
<1>4. ASSUME NEW n \in 1 .. top
      PROVE  \E i \in 1 .. a : \E j \in 1 .. long(i) : n = (i - 1) * B + j
  <2> DEFINE q == (n - 1) \div B
             r == (n - 1) % B
  <2>1. n - 1 \in Nat /\ n - 1 = B * q + r /\ q \in Nat /\ r \in 0 .. B - 1
    BY <1>2
  <2> HIDE DEF q, r
  <2>2. B * q = q * B /\ q * B \in Nat
    BY <2>1
  <2>3. q < a
    <3> SUFFICES ASSUME q >= a PROVE FALSE
      BY <2>1
    <3>1. q * B >= a * B
      BY <2>1
    <3>2. n > a * B
      BY <1>1, <1>2, <2>1, <2>2, <3>1
    <3> QED
      BY <1>1, <1>2, <3>2
  <2>4. q + 1 \in 1 .. a /\ (q + 1) - 1 = q
    BY <2>1, <2>3
  <2>5. r + 1 \in 1 .. long(q + 1)
    <3>1. CASE q + 1 < N
      BY <2>1, <3>1
    <3>2. CASE ~(q + 1 < N)
      <4>1. q = N - 1 /\ a = N
        BY <2>1, <2>4, <3>2
      <4>2. q * B = (N - 1) * B
        BY <4>1
      <4> QED
        BY <1>1, <1>2, <2>1, <2>2, <3>2, <4>1, <4>2
    <3> QED
      BY <3>1, <3>2
  <2>6. n = q * B + (r + 1)
    BY <2>1, <2>2
  <2> QED
    BY <2>4, <2>5, <2>6
<1> QED
  BY <1>2, <1>3, <1>4

\* The places of different beats are different.
LEMMA PlacesCounted ==
  ASSUME NEW m \in Nat
  PROVE  Cardinality({Place(n) : n \in 1 .. m}) = m
<1> DEFINE S == {Place(n) : n \in 1 .. m}
           f == [n \in 1 .. m |-> Place(n)]
<1>1. ASSUME NEW i, NEW k, Place(i) = Place(k) PROVE i = k
  <2>1. Place(i).beat = WordOf(i) /\ Place(k).beat = WordOf(k)
    BY DEF Place
  <2>2. WordOf(i).data = Beat(i) /\ WordOf(k).data = Beat(k)
    BY DEF WordOf
  <2>3. Beat(i).n = i /\ Beat(k).n = k
    BY DEF Beat
  <2> QED
    BY <1>1, <2>1, <2>2, <2>3
<1>2. f \in [1 .. m -> S] /\ \A n \in 1 .. m : f[n] = Place(n)
  OBVIOUS
<1>3. \A t \in S : \E n \in 1 .. m : f[n] = t
  OBVIOUS
<1> HIDE DEF S, f
<1>4. f \in Bijection(1 .. m, S)
  BY <1>1, <1>2, <1>3 DEF Bijection, Injection, Surjection, IsInjective
<1>5. Cardinality(S) = m
  BY <1>4, FS_CountingElements DEF ExistsBijection
<1> QED
  BY <1>5 DEF S

\* The beats to be written, by their numbers.
LEMMA WantedIs ==
  ASSUME Registers, Around, Agreed, status = "busy"
  PROVE  Wanted = {Place(n) : n \in 1 .. Total} /\ Beats(transfer.size) = Total
<1> DEFINE size == transfer.size
           bytes(n) == IF n * LP_DW_BYTES <= size THEN LP_DW_BYTES ELSE size % LP_DW_BYTES
           placed(n) == [addr |-> addr_offset_r + (n - 1) * LP_DW_BYTES,
                         beat |-> [data |-> Beat(n), bytes |-> bytes(n)]]
<1>1. /\ Beats(size) = Total /\ addr_offset_r = transfer.offset - (transfer.offset % BurstBytes)
      /\ byte_remainder_r + 1 = LastBytes(size)
  BY DEF Agreed
<1>2. size \in Nat
  BY DEF Around
<1>3. Wanted = {placed(n) : n \in 1 .. Total}
  BY <1>1 DEF Wanted
<1>4. \A n \in 1 .. Total : placed(n) = Place(n)
  <2> TAKE n \in 1 .. Total
  <2>1. bytes(n) = IF n = Total THEN byte_remainder_r + 1 ELSE LP_DW_BYTES
    BY <1>1, <1>2, BytesOfBeats
  <2> HIDE DEF bytes
  <2> QED
    BY <2>1 DEF Place, WordOf
<1> HIDE DEF placed
<1> QED
  BY <1>1, <1>3, <1>4

\* The beats that have been written, by their numbers.
LEMMA WrittenIs ==
  ASSUME Registers, Around, AddressesCarried, BurstsCarried,
         addr_offset_r \in Nat, answered <= Bursts,
         answered <= Len(addresses), answered <= Len(bursts)
  PROVE  /\ Written = {Place(n) : n \in 1 .. Arrived}
         /\ Arrived \in Nat /\ Arrived <= Total
<1> DEFINE B == LP_AXI_BURST_LEN
           N == Bursts
           D == LP_DW_BYTES
           last == LastLen + 1
           Len1(i) == BurstBeats(i, N, B, last)
           part(i, j) == [addr |-> addresses[i].addr + (j - 1) * D, beat |-> bursts[i][j]]
<1>1. /\ B \in Nat \ {0} /\ N \in Nat \ {0} /\ last \in 1 .. B /\ answered \in 0 .. N
      /\ Total = (N - 1) * B + last /\ D \in Nat
  <2>1. answered \in Nat
    BY DEF Around
  <2>2. num_transactions \in Nat /\ N = num_transactions + 1 /\ N - 1 = num_transactions
    BY Lengths, Widths
  <2> QED
    BY <2>1, <2>2, Lengths, Widths
<1>2. Arrived = FirstBeats(answered, N, B, last)
  BY <1>1 DEF Arrived, FirstBeats
<1>3. /\ Arrived \in 0 .. Total
      /\ \A i \in 1 .. answered : \A j \in 1 .. Len1(i) : (i - 1) * B + j \in 1 .. Arrived
      /\ \A n \in 1 .. Arrived : \E i \in 1 .. answered : \E j \in 1 .. Len1(i) :
           n = (i - 1) * B + j
  <2> HIDE DEF B, N, last
  <2>1. B \in Nat \ {0} /\ N \in Nat \ {0} /\ last \in 1 .. B /\ answered \in 0 .. N
    BY <1>1
  <2> DEFINE top == FirstBeats(answered, N, B, last)
  <2>2. top \in 0 .. (N - 1) * B + last
    BY <2>1, Numbering
  <2>3. \A i \in 1 .. answered : \A j \in 1 .. Len1(i) : (i - 1) * B + j \in 1 .. top
    BY <2>1, Numbering
  <2>4. \A n \in 1 .. top : \E i \in 1 .. answered : \E j \in 1 .. Len1(i) :
          n = (i - 1) * B + j
    BY <2>1, Numbering
  <2> HIDE DEF top
  <2>5. Arrived = top /\ Total = (N - 1) * B + last
    BY <1>1, <1>2 DEF top
  <2> QED
    BY <2>2, <2>3, <2>4, <2>5, Zenon
<1>4. ASSUME NEW i \in 1 .. answered
      PROVE  /\ DOMAIN bursts[i] = 1 .. Len1(i)
             /\ \A j \in 1 .. Len1(i) : part(i, j) = Place((i - 1) * B + j)
  <2>1. i \in 1 .. Len(addresses) /\ i \in 1 .. Len(bursts) /\ i \in Nat
    <3>1. Len(addresses) \in Nat /\ Len(bursts) \in Nat /\ answered \in Nat
      BY Appended DEF Around
    <3> QED
      BY <3>1
  <2>2. addresses[i] = AddressOf(i)
    BY <2>1 DEF AddressesCarried
  <2>3. addresses[i].addr = addr_offset_r + (i - 1) * (D * B)
    BY <2>2 DEF AddressOf, BurstBytes
  <2>4. /\ IsSequence(bursts[i]) /\ Len(bursts[i]) = Len1(i)
        /\ \A j \in 1 .. Len1(i) : bursts[i][j] = WordOf((i - 1) * B + j)
    BY <2>1 DEF BurstsCarried, BurstLen, BurstBeats
  <2>5. DOMAIN bursts[i] = 1 .. Len1(i)
    BY <2>4, AppendedAt
  <2>6. ASSUME NEW j \in 1 .. Len1(i)
        PROVE  part(i, j) = Place((i - 1) * B + j)
    <3>1. j \in Nat
      BY <1>1 DEF BurstBeats
    <3> DEFINE c == (i - 1) * B
    <3>2. c \in Nat /\ (i - 1) * (D * B) = c * D
      <4> HIDE DEF B, D
      <4> QED
        BY <1>1, <2>1
    <3> HIDE DEF c, D, B
    <3>3. PICK k \in Nat : k = c + j
      BY <3>1, <3>2
    <3>4. c * D + (j - 1) * D = (k - 1) * D /\ c * D \in Nat /\ (j - 1) * D \in Int
      BY <1>1, <3>1, <3>2, <3>3
    <3>5. addresses[i].addr + (j - 1) * D = addr_offset_r + (k - 1) * D
      BY <1>1, <2>3, <3>2, <3>4
    <3>6. bursts[i][j] = WordOf(k)
      BY <2>4, <3>3 DEF c
    <3>7. part(i, j) = [addr |-> addr_offset_r + (k - 1) * D, beat |-> WordOf(k)]
      BY <3>5, <3>6
    <3>8. Place(k) = [addr |-> addr_offset_r + (k - 1) * D, beat |-> WordOf(k)]
      BY DEF Place, D
    <3> QED
      BY <3>3, <3>7, <3>8 DEF c
  <2> QED
    BY <2>5, <2>6
<1>5. Written = UNION {{part(i, j) : j \in DOMAIN bursts[i]} : i \in 1 .. answered}
  BY DEF Written
<1> HIDE DEF part, Len1, B, N, last, D
<1>6. ASSUME NEW w \in Written PROVE w \in {Place(n) : n \in 1 .. Arrived}
  <2>1. PICK i \in 1 .. answered : w \in {part(i, j) : j \in DOMAIN bursts[i]}
    BY <1>5
  <2>2. PICK j \in 1 .. Len1(i) : w = part(i, j)
    BY <1>4, <2>1
  <2>3. w = Place((i - 1) * B + j) /\ (i - 1) * B + j \in 1 .. Arrived
    BY <1>3, <1>4, <2>2
  <2> QED
    BY <2>3
<1>7. ASSUME NEW n \in 1 .. Arrived PROVE Place(n) \in Written
  <2>1. PICK i \in 1 .. answered : \E j \in 1 .. Len1(i) : n = (i - 1) * B + j
    BY <1>3
  <2>2. PICK j \in 1 .. Len1(i) : n = (i - 1) * B + j
    BY <2>1
  <2>3. Place(n) = part(i, j) /\ j \in DOMAIN bursts[i]
    BY <1>4, <2>2
  <2> QED
    BY <1>5, <2>3
<1>8. Arrived \in Nat /\ Arrived <= Total
  BY <1>1, <1>3
<1> QED
  BY <1>6, <1>7, <1>8

\* What has landed is what has arrived.
LEMMA LandedIs == IInv /\ CInv => LandedRight
<1> SUFFICES ASSUME IInv, CInv PROVE LandedRight
  OBVIOUS
<1>1. Registers /\ Around
  BY DEF IInv
<1>2. ASSUME answered = 0 PROVE Landed = 0
  <2>1. Written = {}
    BY <1>2 DEF Written
  <2>2. Cardinality(Written) = 0
    BY <2>1, FS_EmptySet
  <2> QED
    BY <2>1, <2>2 DEF Landed
<1>3. ASSUME status = "busy" PROVE Landed = Arrived
  <2>1. answered <= Bursts
    <3>1. CASE Asked
      BY <1>1, <3>1, Lengths DEF Asked
    <3>2. CASE Active
      BY <3>2 DEF Active, ResponseBooks
    <3>3. Asked \/ Active
      BY <1>3 DEF IInv, Phase, Quiet, Resetting
    <3> QED
      BY <3>1, <3>2, <3>3
  <2>2. /\ Ranges /\ Agreed /\ AddressesCarried /\ BurstsCarried /\ addr_offset_r \in Nat
        /\ answered <= Len(addresses) /\ answered <= Len(bursts)
    BY DEF CInv, Ranges
  <2>3. Wanted = {Place(n) : n \in 1 .. Total}
    BY <1>1, <1>3, <2>2, WantedIs
  <2>4. Written = {Place(n) : n \in 1 .. Arrived} /\ Arrived \in Nat /\ Arrived <= Total
    BY <1>1, <2>1, <2>2, WrittenIs
  <2>5. Total \in Nat
    BY <1>1, Lengths
  <2>6. Written \subseteq Wanted
    <3>1. \A n \in 1 .. Arrived : n \in 1 .. Total
      BY <2>4, <2>5
    <3> QED
      BY <2>3, <2>4, <3>1
  <2>7. Cardinality(Written) = Arrived
    BY <2>4, PlacesCounted
  <2> QED
    BY <2>6, <2>7 DEF Landed
<1> QED
  BY <1>2, <1>3 DEF LandedRight

\* Nothing lands anew, or is to land, when neither request nor bus changes.
LEMMA LandedStays ==
  ASSUME UNCHANGED <<transfer, addresses, bursts, answered>>
  PROVE  Landed' = Landed /\ Beats(transfer.size)' = Beats(transfer.size)
<1>1. /\ transfer' = transfer /\ addresses' = addresses /\ bursts' = bursts
      /\ answered' = answered
  OBVIOUS
<1>2. Written' = Written
  BY <1>1 DEF Written
<1>3. Wanted' = Wanted
  BY <1>1 DEF Wanted, Beat
<1> QED
  BY <1>1, <1>2, <1>3 DEF Landed

\* An answer makes more of the transfer arrive, and no more than all of it.
LEMMA ArrivedGrows ==
  ASSUME Registers, Around, UNCHANGED Asks, NEW bvalid \in BOOLEAN,
         answered' = IF bvalid THEN answered + 1 ELSE answered,
         bvalid => answered < Bursts
  PROVE  /\ ~bvalid => Arrived' = Arrived
         /\ bvalid => Arrived' \in Arrived + 1 .. Total
<1> DEFINE B == LP_AXI_BURST_LEN
           N == num_transactions
<1>1. Total' = Total /\ Bursts' = Bursts
  BY SameBursts
<1>2. ASSUME ~bvalid PROVE Arrived' = Arrived
  BY <1>1, <1>2 DEF Arrived
<1>3. ASSUME bvalid PROVE Arrived' \in Arrived + 1 .. Total
  <2>1. /\ answered \in Nat /\ B \in Nat /\ B >= 2 /\ N \in Nat /\ Bursts = N + 1
        /\ Total = N * B + LastLen + 1 /\ LastLen \in Nat /\ answered < Bursts
    BY <1>3, Lengths, Widths DEF Around
  <2>2. Arrived = answered * B
    BY <2>1 DEF Arrived
  <2>3. Arrived' = IF answered + 1 = Bursts THEN Total ELSE (answered + 1) * B
    BY <1>1, <1>3 DEF Arrived
  <2> HIDE DEF B, N
  <2>4. answered * B \in Nat /\ (answered + 1) * B = answered * B + B /\ N * B \in Nat
    BY <2>1
  <2>5. CASE answered = N
    BY <2>1, <2>2, <2>3, <2>4, <2>5
  <2>6. CASE answered < N
    <3>1. (answered + 1) * B <= N * B
      BY <2>1, <2>6
    <3> QED
      BY <2>1, <2>2, <2>3, <2>4, <2>6, <3>1
  <2> QED
    BY <2>1, <2>5, <2>6
<1> QED
  BY <1>2, <1>3

\* Each step of the write master is one that its promise allows.
LEMMA TransferStep ==
  ASSUME IInv, CInv, LandedRight, LandedRight', Next
  PROVE  [Transfer!TransferNext]_(Transfer!transfer_vars)
<1> USE DEF Transfer!TransferNext, Transfer!transfer_vars
<1>1. PICK gives \in BOOLEAN, awready \in BOOLEAN, wready \in BOOLEAN, bvalid \in BOOLEAN,
           ctrl \in Ctrls :
        Step(ctrl, gives, awready, wready, bvalid)
  BY NextSteps
<1>2. Registers /\ Around /\ Ranges /\ Agreed
  BY DEF IInv, CInv
<1>3. answered' = 0 => Landed' = 0
  BY DEF LandedRight
<1>4. CASE areset /\ status = "busy"
  <2>1. status' = "abandoned" /\ transfer' = [transfer EXCEPT !.size = 0] /\ answered' = 0
    BY <1>1, <1>4, BreakEdge
  <2>2. transfer'.size = 0
    BY <1>2, <2>1 DEF Around
  <2>3. Beats(transfer'.size) = 0
    BY <2>2, NoBeats
  <2> QED
    BY <1>3, <1>4, <2>1, <2>3 DEF Transfer!Abandon
<1>5. CASE areset /\ status # "busy"
  <2>1. UNCHANGED <<status, transfer, addresses, bursts, current, answered>>
    BY <1>1, <1>5, BreakEdge
  <2>2. Landed' = Landed /\ Beats(transfer'.size) = Beats(transfer.size)
    BY <2>1, LandedStays
  <2> QED
    BY <2>1, <2>2
<1>6. CASE ~areset /\ ctrl.start
  <2>1. status # "busy" /\ ctrl.size \in Sizes
    BY <1>1, <1>6, Controls DEF Step
  <2>2. status' = "busy" /\ transfer'.size = ctrl.size /\ answered' = 0
    BY <1>1, <1>6, BreakEdge
  <2> QED
    BY <1>3, <2>1, <2>2 DEF Transfer!Ask
<1>7. CASE ~areset /\ ~ctrl.start /\ (~Active \/ done)
  <2>1. ~awready /\ ~wready /\ ~bvalid
    BY <1>1, <1>7, Still
  <2>2. UNCHANGED <<transfer, addresses, bursts, answered>>
    BY <1>1, <1>7, <2>1, BusEdge
  <2>3. Landed' = Landed /\ Beats(transfer'.size) = Beats(transfer.size)
    BY <2>2, LandedStays
  <2>4. status' = IF done THEN "done" ELSE status
    BY <1>1, <1>2, <1>7, UserEdge
  <2>5. CASE ~done
    BY <2>3, <2>4, <2>5
  <2>6. CASE done
    <3>1. Active
      BY <1>2, <1>7, <2>6, Phases DEF Quiet, Asked, Ranges
    <3>2. status = "busy" /\ answered = Bursts
      BY <1>2, <2>6, <3>1, Finished DEF Active
    <3>3. Landed = Beats(transfer.size)
      BY <1>2, <3>2 DEF LandedRight, Arrived, Agreed
    <3> QED
      BY <2>3, <2>4, <2>6, <3>2, <3>3 DEF Transfer!Finish
  <2> QED
    BY <2>5, <2>6
<1>8. CASE ~areset /\ ~ctrl.start /\ Active /\ ~done
  <2>1. status = "busy" /\ status' = "busy"
    BY <1>1, <1>2, <1>8, UserEdge DEF Active
  <2>2. UNCHANGED Asks
    BY <1>1, <1>2, <1>8, RequestEdge, BusEdge DEF Asks, Ranges
  <2>3. transfer' = transfer /\ answered' = IF bvalid THEN answered + 1 ELSE answered
    BY <1>1, <1>8, BusEdge
  <2>4. answered < Bursts
    <3>1. answered \in Nat /\ Bursts \in Nat
      BY <1>2, Lengths, Widths DEF Around
    <3> QED
      BY <1>8, <3>1 DEF Active, ResponseBooks
  <2>5. Landed = Arrived /\ Landed' = Arrived'
    BY <2>1 DEF LandedRight
  <2>6. /\ ~bvalid => Arrived' = Arrived
        /\ bvalid => Arrived' \in Arrived + 1 .. Total
    BY <1>2, <2>2, <2>3, <2>4, ArrivedGrows
  <2>7. Beats(transfer.size) = Total /\ Beats(transfer'.size) = Beats(transfer.size)
    BY <1>2, <2>1, <2>3 DEF Agreed
  <2>8. CASE bvalid
    <3>1. Landed' \in Landed + 1 .. Beats(transfer.size)
      BY <2>5, <2>6, <2>7, <2>8
    <3> QED
      BY <2>1, <2>7, <3>1 DEF Transfer!Move
  <2>9. CASE ~bvalid
    BY <2>1, <2>5, <2>6, <2>7, <2>9
  <2> QED
    BY <2>8, <2>9
<1> QED
  BY <1>4, <1>5, <1>6, <1>7, <1>8

\* The memory gets each byte that was asked for once, at its place, and no
\* other; done comes once, after the last answer (vdf_axi_write_master.sv).
THEOREM TransfersAreWhole == Spec => TransfersAll
<1>1. Init => Transfer!TransferInit
  <2> SUFFICES ASSUME Init PROVE Transfer!TransferInit
    OBVIOUS
  <2>1. LandedRight
    BY InitIInv, InitCInv, LandedIs
  <2>2. status = "idle" /\ transfer.size = 0 /\ answered = 0
    BY DEF Init
  <2>3. Beats(transfer.size) = 0
    BY <2>2, NoBeats
  <2> QED
    BY <2>1, <2>2, <2>3 DEF Transfer!TransferInit, LandedRight
<1>2. /\ IInv /\ CInv /\ LandedRight /\ LandedRight' /\ [Next]_vars
      => [Transfer!TransferNext]_(Transfer!transfer_vars)
  <2>1. ASSUME UNCHANGED vars PROVE UNCHANGED Transfer!transfer_vars
    <3>1. UNCHANGED <<transfer, addresses, bursts, answered>> /\ status' = status
      BY <2>1 DEF vars, user_vars
    <3> QED
      BY <3>1, LandedStays DEF Transfer!transfer_vars
  <2> QED
    BY <2>1, TransferStep
<1> QED
  BY <1>1, <1>2, LandedIs, BooksAreKept, ChannelsAgree, PTL
     DEF Spec, TransfersAll, Transfer!TransferSpec
=============================================================================
