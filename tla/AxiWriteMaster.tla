--------------------------- MODULE AxiWriteMaster ---------------------------
(***************************************************************************)
(* vdf_axi_write_master.sv: writes a stream of beats to memory in bursts   *)
(* of LP_AXI_BURST_LEN, the last one as long as is left.  The data channel *)
(* runs ahead: a burst's address is sent when its first beat has been      *)
(* offered.  ctrl_done comes with the last burst's response.               *)
(***************************************************************************)
EXTENDS VdfCounter, XpmFifo

CONSTANTS
  LP_DW_BYTES,                  \* bytes of a beat
  LP_LOG_BURST_LEN,             \* log2 of a full burst's beats
  LP_TRANSACTION_CNTR_WIDTH,    \* width of the counters of bursts
  LP_LOG_MAX_W_TO_AW,           \* width of the counter of bursts without address
  C_MAX_OUTSTANDING,            \* bursts that may be unanswered
  LP_OUTSTANDING_CNTR_WIDTH     \* clog2(C_MAX_OUTSTANDING + 1)

ASSUME MasterAssumption ==
  /\ {LP_DW_BYTES, LP_TRANSACTION_CNTR_WIDTH, LP_LOG_MAX_W_TO_AW, C_MAX_OUTSTANDING,
      LP_OUTSTANDING_CNTR_WIDTH} \subseteq Nat \ {0}
  /\ LP_LOG_BURST_LEN \in Nat
  /\ C_MAX_OUTSTANDING < 2^LP_OUTSTANDING_CNTR_WIDTH

LP_AXI_BURST_LEN == 2^LP_LOG_BURST_LEN
BurstBytes == LP_DW_BYTES * LP_AXI_BURST_LEN        \* LP_ADDR_MASK + 1

VARIABLES
  done, ctrl_start_d1, start,
  total_len_r, addr_offset_r, byte_remainder_r, final_burst_len, final_strb,
  w_running, fifo, wfirst, wfirst_d1, wfirst_pulse, awvalid_r, addr,
  burst_cntr, w_transaction_cntr, w_to_aw_cntr, aw_transaction_cntr,
  b_transaction_cntr, aw_to_b_cntr

master_vars == <<done, ctrl_start_d1, start, total_len_r, addr_offset_r,
                 byte_remainder_r, final_burst_len, final_strb,
                 w_running, fifo, wfirst, wfirst_d1, wfirst_pulse, awvalid_r, addr,
                 burst_cntr, w_transaction_cntr, w_to_aw_cntr, aw_transaction_cntr,
                 b_transaction_cntr, aw_to_b_cntr>>

-----------------------------------------------------------------------------
\* Wires.
num_transactions   == total_len_r \div LP_AXI_BURST_LEN
single_transaction == num_transactions = 0

s_axis_tready == ~Full(fifo)
m_axi_wvalid  == DataValid(fifo) /\ w_running
m_axi_wdata   == Dout(fifo)
m_axi_wlast   == burst_cntr.is_zero
final_beat    == m_axi_wlast /\ w_transaction_cntr.is_zero
m_axi_wstrb   == IF final_beat THEN final_strb ELSE LP_DW_BYTES   \* how many bytes

m_axi_awlen ==
  IF aw_transaction_cntr.is_zero \/ (start /\ single_transaction)
  THEN final_burst_len ELSE LP_AXI_BURST_LEN - 1

-----------------------------------------------------------------------------
\* The request, kept on the edge with ctrl_start; two edges later start
\* loads the counters.
Request(ctrl_start, size, offset) ==
  /\ ctrl_start_d1' = ctrl_start
  /\ start' = ctrl_start_d1
  /\ IF ctrl_start
     THEN /\ total_len_r' = (IF size % LP_DW_BYTES > 0 THEN size \div LP_DW_BYTES
                                                       ELSE (size \div LP_DW_BYTES) - 1)
          /\ addr_offset_r' = offset - (offset % BurstBytes)
          /\ byte_remainder_r' = ((size % LP_DW_BYTES) + LP_DW_BYTES - 1) % LP_DW_BYTES
     ELSE UNCHANGED <<total_len_r, addr_offset_r, byte_remainder_r>>
  /\ final_burst_len' = total_len_r % LP_AXI_BURST_LEN
  /\ final_strb' = byte_remainder_r + 1

\* The counter of each burst's beats wraps to a full burst by itself; only
\* the last burst is loaded with its length.
BurstCounter_AlwaysFull(wxfer) ==
  IF start /\ single_transaction THEN Loaded(final_burst_len)
  ELSE Stepped(burst_cntr, LP_LOG_BURST_LEN, FALSE, wxfer)
BurstCounter(wxfer) ==
  IF \/ wxfer /\ m_axi_wlast /\ w_transaction_cntr.count = 1
     \/ start /\ single_transaction
  THEN Loaded(final_burst_len)
  ELSE Stepped(burst_cntr, LP_LOG_BURST_LEN, FALSE, wxfer)

\* A counter of the transfer's bursts, less one.
ToGo(cntr, areset, decr) ==
  IF areset THEN Loaded(0)
  ELSE IF start THEN Loaded(num_transactions)
  ELSE Stepped(cntr, LP_TRANSACTION_CNTR_WIDTH, FALSE, decr)

Data(areset, wxfer) ==
  /\ w_running' = (~areset /\ (start \/ (w_running /\ ~(final_beat /\ wxfer))))
  /\ wfirst' = (areset \/ (IF wxfer THEN m_axi_wlast ELSE wfirst))
  /\ wfirst_d1' = (m_axi_wvalid /\ wfirst)
  /\ wfirst_pulse' = (m_axi_wvalid /\ wfirst /\ ~wfirst_d1)
  /\ burst_cntr' = IF areset THEN Loaded(LP_AXI_BURST_LEN - 1) ELSE BurstCounter(wxfer)
  /\ w_transaction_cntr' = ToGo(w_transaction_cntr, areset, wxfer /\ m_axi_wlast)

\* An address goes out when a burst has begun whose address has not.
AwValid_NoStall(awready) ==
  IF ~w_to_aw_cntr.is_zero /\ ~awvalid_r THEN TRUE ELSE ~awready /\ awvalid_r
AwValid_Pulse(awready) ==
  ~w_to_aw_cntr.is_zero /\ ~awvalid_r /\ ~aw_to_b_cntr.is_zero
AwValid_Eager(awready) ==
  IF ~aw_to_b_cntr.is_zero /\ ~awvalid_r THEN TRUE ELSE ~awready /\ awvalid_r
AwValid(awready) ==
  IF ~w_to_aw_cntr.is_zero /\ ~awvalid_r /\ ~aw_to_b_cntr.is_zero
  THEN TRUE ELSE ~awready /\ awvalid_r

\* aw_to_b_cntr starts at C_MAX_OUTSTANDING and is stepped up by an address,
\* down by a response; it is zero when it has wrapped.
Address(areset, awready, bvalid) ==
  LET awxfer == awvalid_r /\ awready
  IN  /\ awvalid_r' = (~areset /\ AwValid(awready))
      /\ addr' = IF start THEN addr_offset_r
                 ELSE IF awxfer THEN addr + BurstBytes ELSE addr
      /\ w_to_aw_cntr' = IF areset THEN Loaded(0)
                         ELSE Stepped(w_to_aw_cntr, LP_LOG_MAX_W_TO_AW, wfirst_pulse, awxfer)
      /\ aw_transaction_cntr' = ToGo(aw_transaction_cntr, areset, awxfer)
      /\ aw_to_b_cntr' = IF areset THEN Loaded(C_MAX_OUTSTANDING)
                         ELSE Stepped(aw_to_b_cntr, LP_OUTSTANDING_CNTR_WIDTH, awxfer, bvalid)

\* bready is always high.
ResponseDone_Any(bvalid) == bvalid
ResponseDone(bvalid) == bvalid /\ b_transaction_cntr.is_zero
Response(areset, bvalid) ==
  /\ done' = ResponseDone(bvalid)
  /\ b_transaction_cntr' = ToGo(b_transaction_cntr, areset, bvalid)

\* An edge of aclk.  ctrl, stream and bus are the inputs.
WriteMasterClk(areset, ctrl, stream, bus) ==
  LET wxfer == m_axi_wvalid /\ bus.wready
  IN  /\ Request(ctrl.start, ctrl.size, ctrl.offset)
      /\ fifo' \in AfterEdge(fifo, areset, bus.wready /\ w_running, stream.tvalid, stream.tdata)
      /\ Data(areset, wxfer)
      /\ Address(areset, bus.awready, bus.bvalid)
      /\ Response(areset, bus.bvalid)

WriteMasterInit ==
  /\ done = FALSE /\ ctrl_start_d1 = FALSE /\ start = FALSE
  /\ total_len_r = 0 /\ addr_offset_r = 0 /\ byte_remainder_r = 0
  /\ final_burst_len = 0 /\ final_strb = 1
  /\ w_running = FALSE /\ fifo = <<>>
  /\ wfirst = TRUE /\ wfirst_d1 = FALSE /\ wfirst_pulse = FALSE
  /\ awvalid_r = FALSE /\ addr = 0
  /\ burst_cntr = Loaded(LP_AXI_BURST_LEN - 1)
  /\ w_transaction_cntr = Loaded(0) /\ w_to_aw_cntr = Loaded(0)
  /\ aw_transaction_cntr = Loaded(0) /\ b_transaction_cntr = Loaded(0)
  /\ aw_to_b_cntr = Loaded(C_MAX_OUTSTANDING)
=============================================================================
