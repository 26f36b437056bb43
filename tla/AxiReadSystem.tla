---------------------------- MODULE AxiReadSystem ----------------------------
(***************************************************************************)
(* The AXI read master between its user and a memory bus.  The user (in    *)
(* vdf_kernel.sv, vdf_wrapper and msu) starts a transfer with a size and   *)
(* an address, takes the stream at any pace, and starts the next transfer  *)
(* after ctrl_done, whether or not it has taken all of the last one.  The  *)
(* bus accepts addresses and returns the beats of each in order at any     *)
(* pace.  A reset, which both share, may come at any time.                 *)
(***************************************************************************)
EXTENDS AxiReadMaster, FiniteSets, SequencesExt

CONSTANTS
  Sizes,        \* of transfers, in bytes
  Offsets,      \* their addresses, in bytes
  MaxTransfers, \* bound: transfers
  MaxResets,    \* bound: resets
  ResetEdges    \* edges for which a reset is held

ASSUME UserAssumption ==
  /\ Sizes \subseteq Nat \ {0} /\ Offsets \subseteq Nat
  /\ MaxTransfers \in Nat /\ MaxResets \in Nat /\ ResetEdges \in Nat \ {0}

VARIABLES
  status, id, size,     \* of the transfer; size 0 after a reset
  expected,             \* beats the user has still to take
  asked, returned,      \* bursts the bus has still to return; beats of the first returned
  reset_left, resets

user_vars == <<status, id, size, expected, asked, returned, reset_left, resets>>
vars == <<master_vars, user_vars>>

areset == reset_left > 0
Beats(bytes) == (bytes + LP_DW_BYTES - 1) \div LP_DW_BYTES

\* The beats of a transfer: from the aligned address, rlast at each burst's end.
Wanted(bytes, offset) ==
  [n \in 1 .. Beats(bytes) |->
     [addr |-> offset - (offset % BurstBytes) + (n - 1) * LP_DW_BYTES,
      last |-> n % LP_AXI_BURST_LEN = 0 \/ n = Beats(bytes)]]
-----------------------------------------------------------------------------
User(ctrl, takes) ==
  LET left == IF takes THEN Tail(expected) ELSE expected
  IN  IF ctrl.start
      THEN /\ status' = "busy" /\ id' = id + 1 /\ size' = ctrl.size
           /\ expected' = left \o Wanted(ctrl.size, ctrl.offset)
      ELSE /\ status' = IF done THEN "done" ELSE status
           /\ expected' = left
           /\ UNCHANGED <<id, size>>

Returns == [addr |-> Head(asked).addr + returned * LP_DW_BYTES,
            last |-> returned = Head(asked).len]
Bus(bus) ==
  LET whole == bus.rvalid /\ bus.r.last
      rest  == IF whole THEN Tail(asked) ELSE asked
  IN  /\ asked' = IF bus.arready THEN Append(rest, [addr |-> addr, len |-> m_axi_arlen])
                  ELSE rest
      /\ returned' = IF whole THEN 0 ELSE IF bus.rvalid THEN returned + 1 ELSE returned

\* Both forget what was under way.
Reset ==
  /\ IF status = "busy" THEN status' = "abandoned" /\ size' = 0 ELSE UNCHANGED <<status, size>>
  /\ expected' = <<>> /\ asked' = <<>> /\ returned' = 0

NoCtrl == [start |-> FALSE, size |-> 0, offset |-> 0]
Ctrls ==
  {NoCtrl} \cup
  (IF status # "busy" /\ id < MaxTransfers
   THEN [start : {TRUE}, size : Sizes, offset : Offsets] ELSE {})

Edge(ctrl, takes, bus) ==
  /\ ReadMasterClk(areset, ctrl, bus, takes)
  /\ IF areset
     THEN Reset /\ reset_left' = reset_left - 1 /\ UNCHANGED <<id, resets>>
     ELSE /\ User(ctrl, takes) /\ Bus(bus)
          /\ \/ UNCHANGED <<reset_left, resets>>
             \/ resets < MaxResets /\ resets' = resets + 1 /\ reset_left' = ResetEdges

\* A ready without a valid does nothing, so it is left out.
Clk(takes, arready, rvalid) ==
  /\ takes => m_axis_tvalid
  /\ arready => arvalid_r
  /\ rvalid => ~areset /\ asked # <<>>
  /\ \E ctrl \in IF areset THEN {NoCtrl} ELSE Ctrls :
       Edge(ctrl, takes,
            [arready |-> arready, rvalid |-> rvalid,
             r |-> IF rvalid THEN Returns ELSE [addr |-> 0, last |-> FALSE]])

Init ==
  /\ ReadMasterInit
  /\ status = "idle" /\ id = 0 /\ size = 0 /\ expected = <<>>
  /\ asked = <<>> /\ returned = 0 /\ reset_left = 0 /\ resets = 0

Next == \E takes, arready, rvalid \in BOOLEAN : Clk(takes, arready, rvalid)

\* The stream is taken, and the bus accepts and returns, in the end.
Fairness ==
  /\ WF_vars(Next)
  /\ WF_vars(\E arready, rvalid \in BOOLEAN : Clk(TRUE, arready, rvalid))
  /\ WF_vars(\E takes, rvalid \in BOOLEAN : Clk(takes, TRUE, rvalid))
  /\ WF_vars(\E takes, arready \in BOOLEAN : Clk(takes, arready, TRUE))

Spec == Init /\ [][Next]_vars
FairSpec == Spec /\ Fairness

-----------------------------------------------------------------------------
TypeOK ==
  /\ {done, start_d1, start, ar_idle, arvalid_r} \subseteq BOOLEAN
  /\ {total_len_r, addr_offset_r, addr, returned} \subseteq Nat
  /\ final_burst_len \in 0 .. LP_AXI_BURST_LEN - 1
  /\ {ar_transaction_cntr, r_transaction_cntr} \subseteq Counters(LP_TRANSACTION_CNTR_WIDTH)
  /\ ar_to_r_cntr \in Counters(LP_OUTSTANDING_CNTR_WIDTH)
  /\ \A b \in ToSet(fifo) : b.wait \in Nat /\ \E d \in FifoDelays : b.wait <= d
  /\ status \in {"idle", "busy", "done", "abandoned"}
  /\ returned > 0 => asked # <<>> /\ returned <= Head(asked).len

(* There is room in the FIFO for every burst that has been asked for, were *)
(* it a full one, less the beats returned of the first (source comment on  *)
(* lines 302 to 304), also while the tail of an earlier transfer is still  *)
(* in it: rready cannot refuse a beat; one that finds the FIFO full is     *)
(* lost.                                                                   *)
RoomForWhatIsAsked ==
  Len(fifo) + LP_AXI_BURST_LEN * Len(asked) - returned <= LP_FIFO_DEPTH

(* AXI's rule: an address that is offered stays until it is accepted.      *)
OffersHold ==
  [][~areset /\ arvalid_r =>
       \/ arvalid_r' /\ addr' = addr /\ m_axi_arlen' = m_axi_arlen
       \/ asked' # <<>> /\ Last(asked') = [addr |-> addr, len |-> m_axi_arlen]]_vars

(* The beats that have arrived, all of them those that are expected next,  *)
(* or the transfer has gone wrong.                                         *)
Arrived ==
  IF IsPrefix([i \in DOMAIN fifo |-> fifo[i].beat], expected)
  THEN Beats(size) - (Len(expected) - Len(fifo)) ELSE Beats(size) + 1

(* Every beat of the (aligned) region is read once and streamed in order,  *)
(* tlast at the end of each burst; done comes once, when all have arrived, *)
(* and a transfer started on it does not disturb what is still to stream.  *)
Transfer ==
  INSTANCE AxiTransfer WITH
    Lengths <- {Beats(s) : s \in Sizes}, beats <- Beats(size), moved <- Arrived
TransfersAll == Transfer!TransferSpec

(* Every transfer ends and all of it is streamed: the vacancy that a burst *)
(* takes is given back, though only its last beat on the stream says so.   *)
TransfersEnd ==
  (status = "busy" \/ expected # <<>>) ~> (status # "busy" /\ expected = <<>>)
=============================================================================
