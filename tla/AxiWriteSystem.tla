--------------------------- MODULE AxiWriteSystem ---------------------------
(***************************************************************************)
(* The AXI write master between its user and a memory bus.  The user (in   *)
(* vdf_kernel.sv, msu) starts a transfer with a size and an address, gives *)
(* its beats at any pace and starts the next one after ctrl_done.  The bus *)
(* accepts addresses and data at any pace, independently, and answers a    *)
(* burst some time after it has both.  A reset, which the bus shares, may  *)
(* come at any time.                                                       *)
(***************************************************************************)
EXTENDS AxiWriteMaster, FiniteSets

CONSTANTS
  Sizes,        \* of transfers, in bytes
  Offsets,      \* their addresses, in bytes
  MaxTransfers, \* bound: transfers
  MaxResets,    \* bound: resets
  ResetEdges    \* edges for which a reset is held

ASSUME UserAssumption ==
  /\ Sizes \subseteq Nat \ {0} /\ Offsets \subseteq Nat
  /\ MaxTransfers \in Nat /\ MaxResets \in Nat /\ ResetEdges \in Nat \ {0}

VARIABLES
  status, transfer,             \* transfer: [id, size, offset]; size 0 after a reset
  sent,                         \* beats of it given to the master
  addresses, bursts, current,   \* accepted by the bus: addresses, whole bursts, beats since
  answered,                     \* bursts answered, in order
  reset_left, resets

user_vars == <<status, transfer, sent, addresses, bursts, current, answered,
               reset_left, resets>>
vars == <<master_vars, user_vars>>

areset == reset_left > 0
Beats(size) == (size + LP_DW_BYTES - 1) \div LP_DW_BYTES
Beat(n) == [id |-> transfer.id, n |-> n]

-----------------------------------------------------------------------------
User(ctrl, gives) ==
  IF ctrl.start
  THEN /\ status' = "busy" /\ sent' = 0
       /\ transfer' = [id |-> transfer.id + 1, size |-> ctrl.size, offset |-> ctrl.offset]
  ELSE /\ status' = IF done THEN "done" ELSE status
       /\ sent' = IF gives THEN sent + 1 ELSE sent
       /\ UNCHANGED transfer

Bus(ctrl, bus) ==
  IF ctrl.start
  THEN addresses' = <<>> /\ bursts' = <<>> /\ current' = <<>> /\ answered' = 0
  ELSE /\ addresses' = IF bus.awready
                       THEN Append(addresses, [addr |-> addr, len |-> m_axi_awlen])
                       ELSE addresses
       /\ LET beat == [data |-> m_axi_wdata, bytes |-> m_axi_wstrb]
              burst == Append(current, beat)
          IN  IF bus.wready
              THEN IF m_axi_wlast THEN bursts' = Append(bursts, burst) /\ current' = <<>>
                                  ELSE current' = burst /\ UNCHANGED bursts
              ELSE UNCHANGED <<bursts, current>>
       /\ answered' = IF bus.bvalid THEN answered + 1 ELSE answered

\* A transfer under way is given up by both.
Reset ==
  IF status = "busy"
  THEN /\ status' = "abandoned" /\ transfer' = [transfer EXCEPT !.size = 0]
       /\ addresses' = <<>> /\ bursts' = <<>> /\ current' = <<>> /\ answered' = 0
  ELSE UNCHANGED <<status, transfer, addresses, bursts, current, answered>>

NoCtrl == [start |-> FALSE, size |-> 0, offset |-> 0]
Ctrls ==
  {NoCtrl} \cup
  (IF status # "busy" /\ transfer.id < MaxTransfers
   THEN [start : {TRUE}, size : Sizes, offset : Offsets] ELSE {})

Edge(ctrl, gives, bus) ==
  /\ WriteMasterClk(areset, ctrl, [tvalid |-> gives, tdata |-> Beat(sent + 1)], bus)
  /\ IF areset
     THEN /\ reset_left' = reset_left - 1
          /\ Reset
          /\ UNCHANGED <<sent, resets>>
     ELSE /\ User(ctrl, gives) /\ Bus(ctrl, bus)
          /\ \/ UNCHANGED <<reset_left, resets>>
             \/ resets < MaxResets /\ resets' = resets + 1 /\ reset_left' = ResetEdges

\* A ready without a valid does nothing, so it is left out; the bus answers
\* a burst that it has with its address.
Clk(gives, awready, wready, bvalid) ==
  /\ gives => status = "busy" /\ ~areset /\ sent < Beats(transfer.size) /\ s_axis_tready
  /\ awready => awvalid_r
  /\ wready => m_axi_wvalid
  /\ bvalid => ~areset /\ answered < Len(addresses) /\ answered < Len(bursts)
  /\ \E ctrl \in IF areset THEN {NoCtrl} ELSE Ctrls :
       Edge(ctrl, gives, [awready |-> awready, wready |-> wready, bvalid |-> bvalid])

Init ==
  /\ WriteMasterInit
  /\ status = "idle" /\ transfer = [id |-> 0, size |-> 0, offset |-> 0] /\ sent = 0
  /\ addresses = <<>> /\ bursts = <<>> /\ current = <<>> /\ answered = 0
  /\ reset_left = 0 /\ resets = 0

Next == \E gives, awready, wready, bvalid \in BOOLEAN : Clk(gives, awready, wready, bvalid)

\* The user gives its beats, and the bus takes what is offered and answers,
\* in the end.
Fairness ==
  /\ WF_vars(Next)
  /\ WF_vars(\E awready, wready, bvalid \in BOOLEAN : Clk(TRUE, awready, wready, bvalid))
  /\ WF_vars(\E gives, wready, bvalid \in BOOLEAN : Clk(gives, TRUE, wready, bvalid))
  /\ WF_vars(\E gives, awready, bvalid \in BOOLEAN : Clk(gives, awready, TRUE, bvalid))
  /\ WF_vars(\E gives, awready, wready \in BOOLEAN : Clk(gives, awready, wready, TRUE))

Spec == Init /\ [][Next]_vars
FairSpec == Spec /\ Fairness

-----------------------------------------------------------------------------
TypeOK ==
  /\ {done, ctrl_start_d1, start, w_running, wfirst, wfirst_d1, wfirst_pulse, awvalid_r}
       \subseteq BOOLEAN
  /\ {total_len_r, addr_offset_r, addr} \subseteq Nat
  /\ byte_remainder_r \in 0 .. LP_DW_BYTES - 1 /\ final_strb \in 1 .. LP_DW_BYTES
  /\ final_burst_len \in 0 .. LP_AXI_BURST_LEN - 1
  /\ Len(fifo) <= LP_FIFO_DEPTH
  /\ burst_cntr \in Counters(LP_LOG_BURST_LEN)
  /\ {w_transaction_cntr, aw_transaction_cntr, b_transaction_cntr}
       \subseteq Counters(LP_TRANSACTION_CNTR_WIDTH)
  /\ w_to_aw_cntr \in Counters(LP_LOG_MAX_W_TO_AW)
  /\ aw_to_b_cntr \in Counters(LP_OUTSTANDING_CNTR_WIDTH)
  /\ status \in {"idle", "busy", "done", "abandoned"}
  /\ answered <= Len(addresses) /\ answered <= Len(bursts)

(* The source's comment on lines 384 to 386: no address is sent without    *)
(* its data on the way.  One pulse of wfirst per burst, counted until the  *)
(* address goes out, must not be counted twice while the bus stalls, nor   *)
(* missed when bursts follow without a gap.                                *)
AddressFollowsData ==
  awvalid_r => Len(addresses) < Len(bursts) + (IF current # <<>> \/ m_axi_wvalid THEN 1 ELSE 0)

(* At most C_MAX_OUTSTANDING bursts have an address and no answer, though  *)
(* the counter that limits them counts upwards and stalls when it wraps.   *)
OutstandingLimit == Len(addresses) - answered <= C_MAX_OUTSTANDING

(* The two channels agree: the n-th burst of data has as many beats as the *)
(* n-th address said, whichever came first, and one under way has fewer.   *)
BurstsMatch ==
  \A i \in DOMAIN addresses :
    /\ i <= Len(bursts) => Len(bursts[i]) = addresses[i].len + 1
    /\ i = Len(bursts) + 1 => Len(current) < addresses[i].len + 1

(* AXI's rule: what is offered on the address or the data channel stays    *)
(* until it is accepted.                                                   *)
OffersHold ==
  [][~areset =>
       /\ awvalid_r => \/ awvalid_r' /\ addr' = addr /\ m_axi_awlen' = m_axi_awlen
                       \/ Len(addresses') > Len(addresses)
       /\ m_axi_wvalid => \/ /\ m_axi_wvalid' /\ m_axi_wdata' = m_axi_wdata
                             /\ m_axi_wlast' = m_axi_wlast /\ m_axi_wstrb' = m_axi_wstrb
                          \/ <<bursts, current>>' # <<bursts, current>>]_vars

(* The bytes in memory when the answered bursts are: what they should be,  *)
(* and at most once each, or the transfer has gone wrong.                  *)
Written ==
  UNION {{[addr |-> addresses[i].addr + (j - 1) * LP_DW_BYTES, beat |-> bursts[i][j]] :
            j \in DOMAIN bursts[i]} : i \in 1 .. answered}
Wanted ==
  LET base == transfer.offset - (transfer.offset % BurstBytes)
      bytes(n) == IF n * LP_DW_BYTES <= transfer.size THEN LP_DW_BYTES
                  ELSE transfer.size % LP_DW_BYTES
  IN  {[addr |-> base + (n - 1) * LP_DW_BYTES, beat |-> [data |-> Beat(n), bytes |-> bytes(n)]] :
         n \in 1 .. Beats(transfer.size)}
Landed == IF Written \subseteq Wanted THEN Cardinality(Written) ELSE Beats(transfer.size) + 1

(* The transfer's bytes, and no others, are written from the (aligned)     *)
(* address on, and done comes once, when the last burst has been answered. *)
Transfer ==
  INSTANCE AxiTransfer WITH
    Lengths <- {Beats(s) : s \in Sizes}, beats <- Beats(transfer.size), moved <- Landed
TransfersAll == Transfer!TransferSpec

(* Every transfer ends: no channel waits for another that waits for it,    *)
(* also at the limit of outstanding bursts and with the FIFO full.         *)
TransfersEnd == status = "busy" ~> status # "busy"
=============================================================================
