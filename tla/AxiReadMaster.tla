---------------------------- MODULE AxiReadMaster ----------------------------
(***************************************************************************)
(* vdf_axi_read_master.sv: reads a number of beats from memory in bursts   *)
(* of LP_AXI_BURST_LEN, the last one as long as is left, into a FIFO that  *)
(* the output stream empties.  rready is always high: what keeps the FIFO  *)
(* from overflowing is the number of bursts asked for and not yet streamed.*)
(* ctrl_done comes with the last beat from memory, so the tail of one      *)
(* transfer may still be in the FIFO when the next one starts.             *)
(***************************************************************************)
EXTENDS VdfCounter, XpmFifo

CONSTANTS
  LP_DW_BYTES,                  \* bytes of a beat
  LP_LOG_BURST_LEN,             \* log2 of a full burst's beats
  LP_TRANSACTION_CNTR_WIDTH,    \* width of the counters of bursts
  C_MAX_OUTSTANDING,            \* bursts asked for and not yet streamed
  LP_OUTSTANDING_CNTR_WIDTH     \* clog2(C_MAX_OUTSTANDING + 1)

ASSUME MasterAssumption ==
  /\ {LP_DW_BYTES, LP_TRANSACTION_CNTR_WIDTH, C_MAX_OUTSTANDING,
      LP_OUTSTANDING_CNTR_WIDTH} \subseteq Nat \ {0}
  /\ LP_LOG_BURST_LEN \in Nat
  /\ C_MAX_OUTSTANDING < 2^LP_OUTSTANDING_CNTR_WIDTH

LP_AXI_BURST_LEN == 2^LP_LOG_BURST_LEN
BurstBytes == LP_DW_BYTES * LP_AXI_BURST_LEN        \* LP_ADDR_MASK + 1

VARIABLES
  done, start_d1, start,
  total_len_r, addr_offset_r, final_burst_len,
  ar_idle, arvalid_r, addr, ar_transaction_cntr, ar_to_r_cntr,
  fifo, r_transaction_cntr

master_vars == <<done, start_d1, start, total_len_r, addr_offset_r, final_burst_len,
                 ar_idle, arvalid_r, addr, ar_transaction_cntr, ar_to_r_cntr,
                 fifo, r_transaction_cntr>>

-----------------------------------------------------------------------------
\* Wires.  A beat in the FIFO is [addr, last]: where it was read, and rlast.
num_transactions   == total_len_r \div LP_AXI_BURST_LEN
single_transaction == num_transactions = 0

m_axi_arlen ==
  IF ar_transaction_cntr.is_zero \/ (start /\ single_transaction)
  THEN final_burst_len ELSE LP_AXI_BURST_LEN - 1

m_axis_tvalid == DataValid(fifo)
m_axis_beat   == Dout(fifo)
-----------------------------------------------------------------------------
\* The request, kept on the edge with ctrl_start; two edges later start
\* loads the counters.
Request(ctrl_start, size, offset) ==
  /\ start_d1' = ctrl_start
  /\ start' = start_d1
  /\ IF ctrl_start
     THEN /\ total_len_r' = (IF size % LP_DW_BYTES > 0 THEN size \div LP_DW_BYTES
                                                       ELSE (size \div LP_DW_BYTES) - 1)
          /\ addr_offset_r' = offset - (offset % BurstBytes)
     ELSE UNCHANGED <<total_len_r, addr_offset_r>>
  /\ final_burst_len' = total_len_r % LP_AXI_BURST_LEN

\* A counter of the transfer's bursts, less one.
ToGo(cntr, areset, decr) ==
  IF areset THEN Loaded(0)
  ELSE IF start THEN Loaded(num_transactions)
  ELSE Stepped(cntr, LP_TRANSACTION_CNTR_WIDTH, FALSE, decr)

ArDone_First(arxfer) == arxfer
ArDone(arxfer) == ar_transaction_cntr.is_zero /\ arxfer

ArValid_NoStall(arready) == IF ~ar_idle /\ ~arvalid_r THEN TRUE ELSE ~arready /\ arvalid_r
ArValid_Pulse(arready) == ~ar_idle /\ ~ar_to_r_cntr.is_zero /\ ~arvalid_r
ArValid(arready) ==
  IF ~ar_idle /\ ~ar_to_r_cntr.is_zero /\ ~arvalid_r THEN TRUE ELSE ~arready /\ arvalid_r

\* ar_to_r_cntr is the vacancy: down by an address, up by the last beat of
\* a burst leaving on the stream.
Address(areset, arready, tready) ==
  LET arxfer == arvalid_r /\ arready
      r_completed == m_axis_tvalid /\ tready /\ m_axis_beat.last
  IN  /\ arvalid_r' = (~areset /\ ArValid(arready))
      /\ ar_idle' = (areset \/ (~start /\ (ArDone(arxfer) \/ ar_idle)))
      /\ addr' = IF start THEN addr_offset_r
                 ELSE IF arxfer THEN addr + BurstBytes ELSE addr
      /\ ar_transaction_cntr' = ToGo(ar_transaction_cntr, areset, arxfer)
      /\ ar_to_r_cntr' = IF areset THEN Loaded(C_MAX_OUTSTANDING)
                         ELSE Stepped(ar_to_r_cntr, LP_OUTSTANDING_CNTR_WIDTH,
                                      r_completed, arxfer)

\* bus.r is the beat from memory.
Done_AnyBurst(bus) == bus.rvalid /\ bus.r.last
Done(bus) == bus.rvalid /\ bus.r.last /\ r_transaction_cntr.is_zero
Data(areset, bus, tready) ==
  /\ done' = Done(bus)      \* a done of before is taken back
  /\ fifo' \in AfterEdge(fifo, areset, tready, bus.rvalid, bus.r)
  /\ r_transaction_cntr' = ToGo(r_transaction_cntr, areset, bus.rvalid /\ bus.r.last)

\* An edge of aclk.  ctrl, bus and tready are the inputs.
ReadMasterClk(areset, ctrl, bus, tready) ==
  /\ Request(ctrl.start, ctrl.size, ctrl.offset)
  /\ Address(areset, bus.arready, tready)
  /\ Data(areset, bus, tready)

ReadMasterInit ==
  /\ done = FALSE /\ start_d1 = FALSE /\ start = FALSE
  /\ total_len_r = 0 /\ addr_offset_r = 0 /\ final_burst_len = 0
  /\ ar_idle = TRUE /\ arvalid_r = FALSE /\ addr = 0 /\ fifo = <<>>
  /\ ar_transaction_cntr = Loaded(0) /\ r_transaction_cntr = Loaded(0)
  /\ ar_to_r_cntr = Loaded(C_MAX_OUTSTANDING)
=============================================================================
