----------------------------- MODULE MsuSystem -----------------------------
(***************************************************************************)
(* msu.sv, redun_wrapper and the squarer together, in the kernel that      *)
(* starts them, feeds the request and drains the answer.  The kernel is    *)
(* vdf_kernel.sv's two AXI masters as seen at msu's ports: it starts a job *)
(* when the write master has finished the previous one, offers the beats   *)
(* of the request and accepts those of the answer at its own pace, and may *)
(* be reset at any time.                                                   *)
(***************************************************************************)
EXTENDS Msu, RedunWrapper

CONSTANTS
  Requests,     \* pairs <<t_start, t_final>>
  MaxJobs,      \* bound: requests
  MaxResets,    \* bound: resets after the first
  ResetEdges    \* edges of clk for which a reset is held

ASSUME SystemAssumption ==
  /\ Requests \subseteq Counts \X Counts
  /\ MaxJobs \in Nat /\ MaxResets \in Nat /\ ResetEdges \in Nat \ {0}

VARIABLES
  status, request, offered, answer,     \* the kernel: see MsuPromise
  reset_left, resets                    \* edges left of this reset; resets so far

kernel_vars == <<status, request, offered, answer, reset_left, resets>>
vars == <<msu_vars, wrapper_vars, kernel_vars>>

Promise == INSTANCE MsuPromise

reset == reset_left > 0
sq_finished == o_valid
sq_out == Assembled(o_sq_out)

TypeOK ==
  /\ reset_1d \in BOOLEAN /\ final_iteration_r \in BOOLEAN /\ state \in MsuStates
  /\ t_current \in Counts /\ t_final \in Counts /\ axi_out_count \in 0 .. AXI_OUT_COUNT
  /\ Len(axi_in) = AXI_IN_COUNT /\ Len(axi_out) = AXI_OUT_COUNT
  /\ {locked, locked_d, ready, o_ready, reset_cdc1, running, o_val} \subseteq BOOLEAN
  /\ clk_gap \in 0 .. MaxRatio /\ rst_busy \in 0 .. FifoResetEdges
  /\ reset_cdc0 \in [1 .. 4 -> BOOLEAN]
  /\ fifo_in_val \in BOOLEAN \X BOOLEAN /\ fifo_out_val \in BOOLEAN \X BOOLEAN
  /\ since \in 0 .. MaxGap - 1
  /\ \A l \in Lanes : Len(fifo_in[l]) <= 1 /\ Len(fifo_out[l]) <= 2
  /\ status \in {"idle", "busy", "done", "abandoned"}
  /\ request.job \in 0 .. MaxJobs /\ offered \in 0 .. AXI_IN_COUNT
  /\ Len(answer) <= AXI_OUT_COUNT
  /\ reset_left \in 0 .. ResetEdges /\ resets \in 0 .. MaxResets

-----------------------------------------------------------------------------
\* What the kernel does on an edge of clk.
Starts   == status # "busy" /\ request.job < MaxJobs /\ ~reset /\ ~reset_1d
Gives    == status = "busy" /\ offered < AXI_IN_COUNT /\ ~reset /\ s_axis_tready(o_ready)
Accepts  == status = "busy" /\ ~reset /\ m_axis_tvalid
Finishes == status = "busy" /\ ~reset /\ Len(answer) = AXI_OUT_COUNT

Kernel(ap_start, gives, accepts, finishes) ==
  /\ IF ap_start THEN Promise!Request
     ELSE /\ status' = IF reset /\ status = "busy" THEN "abandoned"
                       ELSE IF finishes THEN "done" ELSE status
          /\ offered' = IF gives THEN offered + 1 ELSE offered
          /\ answer' = IF accepts THEN Append(answer, m_axis_tdata) ELSE answer
          /\ UNCHANGED request
  /\ IF reset
     THEN reset_left' = reset_left - 1 /\ UNCHANGED resets
     ELSE \/ UNCHANGED <<reset_left, resets>>
          \/ resets < MaxResets /\ resets' = resets + 1 /\ reset_left' = ResetEdges

Stream(gives) ==
  [tvalid |-> gives, tlast |-> offered + 1 = AXI_IN_COUNT,
   tdata |-> Promise!RequestBeats(request)[IF gives THEN offered + 1 ELSE 1]]

ClkEdge(ap_start, gives, accepts, finishes) ==
  /\ Kernel(ap_start, gives, accepts, finishes)
  /\ MsuClk(reset, ap_start, Stream(gives), accepts, o_ready,
            [finished |-> sq_finished, out |-> sq_out])
  /\ WrapperClk(reset_1d, reset_1d', reset_mont, sq_start, sq_in)

Clk ==
  \E ap_start, gives, accepts, finishes \in BOOLEAN :
    /\ ap_start => Starts
    /\ gives => Gives
    /\ accepts => Accepts
    /\ finishes => Finishes
    /\ ClkEdge(ap_start, gives, accepts, finishes)

ClkInt == WrapperClkInt(reset_1d) /\ UNCHANGED <<msu_vars, kernel_vars>>

MmcmLocks == Lock(reset_1d) /\ UNCHANGED <<msu_vars, kernel_vars>>

Init ==
  /\ MsuInit /\ WrapperInit
  /\ Promise!PromiseInit
  /\ reset_left = ResetEdges /\ resets = 0

Next == Clk \/ ClkInt \/ MmcmLocks

(***************************************************************************)
(* Both clocks run, the MMCM locks, and the kernel's AXI masters, whose    *)
(* buses answer in the end, do not refuse to give or to accept a beat      *)
(* forever, nor does the write master fail to finish.                      *)
(***************************************************************************)
GiveBeat   == Clk /\ offered' > offered
AcceptBeat == Clk /\ Len(answer') > Len(answer)
FinishJob  == Clk /\ status = "busy" /\ status' = "done"

Fairness ==
  /\ WF_vars(Clk) /\ WF_vars(ClkInt) /\ WF_vars(MmcmLocks)
  /\ SF_vars(GiveBeat) /\ SF_vars(AcceptBeat) /\ SF_vars(FinishJob)

Spec == Init /\ [][Next]_vars
FairSpec == Spec /\ Fairness

-----------------------------------------------------------------------------
(* The input that msu writes into the FIFO reaches the squarer when it is  *)
(* out of reset and idle: the reset that precedes a job has drained from   *)
(* reset_cdc0 before the start has crossed, and the squarer did see the    *)
(* reset that ended the previous job.  A start on an edge with i_rst high  *)
(* or while the squarer still iterates would be lost without trace.        *)
StartTakesHold == [][ClkInt /\ fifo_in_val[2] /\ ready => ~running /\ running']_vars

(* Each result that advances t_current is the next square of this job's    *)
(* input, whole: none of an earlier job still in the FIFO or in flight, no *)
(* lane a word ahead of another, none skipped.                             *)
CountedResultIsNext ==
  state = "COMPUTE" /\ sq_finished /\ ~reset_1d /\ status = "busy" =>
    sq_out = Value(request.job, Wrapped(t_current + 2^T_LEN - request.t_start) + 1)

(* AXI4-Stream's rule, which the write master relies on: a beat offered    *)
(* and not accepted stays as it is until a reset.  final_iteration loads   *)
(* axi_out whatever the state, so results arriving late must not match it. *)
OfferedBeatIsHeld ==
  [][m_axis_tvalid /\ ~reset_1d =>
       \/ m_axis_tvalid' /\ m_axis_tdata' = m_axis_tdata /\ m_axis_tlast' = m_axis_tlast
       \/ answer' = Append(answer, m_axis_tdata)]_vars

(* The answer is the one MsuPromise asks for, beat by beat, and no beat    *)
(* leaves before the request is complete.                                  *)
KeepsPromise == Promise!PromiseSpec

(* Every job ends: no state of the two clock domains, the crossing and the *)
(* streams waits for what never comes.  A start pulse or a final result    *)
(* that fell between two states would leave the machine there for good.    *)
JobsEnd == status = "busy" ~> status # "busy"
=============================================================================
