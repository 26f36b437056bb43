-------------------------------- MODULE Msu --------------------------------
(***************************************************************************)
(* msu.sv: takes a request (t_start, t_final, sq_in) from an AXI stream,   *)
(* has sq_in squared until the count t_current reaches t_final, and sends  *)
(* the answer (count, seeded count, sq_out) on an AXI stream.              *)
(*                                                                         *)
(* The squarer is behind redun_wrapper, modelled in RedunWrapper; here it  *)
(* is the inputs ready, sq_finished and sq_out of an edge.  A beat of the  *)
(* streams is a whole field: the shifting of axi_in and axi_out is the     *)
(* code's, the number of beats to a field is not.                          *)
(***************************************************************************)
EXTENDS Naturals, Sequences

CONSTANT T_LEN          \* width of the counts

ASSUME TLenAssumption == T_LEN \in Nat \ {0}

Counts == 0 .. 2^T_LEN - 1
Wrapped_Not(n) == n
Wrapped(n) == n % 2^T_LEN

\* Beats.  sq carries the n-th square of the input of a job.
Beat(kind, n, job) == [kind |-> kind, n |-> n, job |-> job]
T(n)      == Beat("t", n, 0)
Seeded(n) == Beat("seeded", n, 0)                     \* count ^ BUILD_SEED
Sq(v)     == Beat("sq", v.k, v.job)

AXI_IN_COUNT  == 3
AXI_OUT_COUNT == 3

VARIABLES
  reset_1d, final_iteration_r, state,
  t_current, t_final, sq_in,
  axi_in, axi_out, axi_out_count

msu_vars == <<reset_1d, final_iteration_r, state, t_current, t_final, sq_in,
              axi_in, axi_out, axi_out_count>>

MsuStates == {"INIT", "RECV", "SQIN", "START", "COMPUTE", "PREPARE_SEND", "SEND", "IDLE"}

\* Wires.
s_axis_tready(ready) == state = "RECV" /\ ready
m_axis_tvalid == state = "SEND" /\ axi_out_count < AXI_OUT_COUNT
m_axis_tdata  == axi_out[1]
m_axis_tlast_Late == axi_out_count = AXI_OUT_COUNT
m_axis_tlast  == axi_out_count = AXI_OUT_COUNT - 1
sq_start   == state = "START"
reset_mont == state \in {"PREPARE_SEND", "INIT"}
ap_done    == state = "IDLE"

FinalIteration_Late(sq_finished) == sq_finished /\ t_current = t_final
FinalIteration(sq_finished) ==
  sq_finished /\ t_current = Wrapped(t_final + 2^T_LEN - 1)

\* Shift a beat in at the top: the oldest beat comes to be the first.
Shift(beats, beat) == Append(Tail(beats), beat)

-----------------------------------------------------------------------------
NextState(ap_start, last_beat_taken, m_axis_tready) ==
  CASE state = "INIT"    -> IF ap_start THEN "RECV" ELSE "INIT"
    [] state = "RECV"    -> IF last_beat_taken THEN "SQIN" ELSE "RECV"
    [] state = "SQIN"    -> "START"
    [] state = "START"   -> "COMPUTE"
    [] state = "COMPUTE" -> IF final_iteration_r THEN "PREPARE_SEND" ELSE "COMPUTE"
    [] state = "PREPARE_SEND" -> "SEND"
    [] state = "SEND"    -> IF m_axis_tlast /\ m_axis_tready THEN "IDLE" ELSE "SEND"
    [] state = "IDLE"    -> "INIT"

Receive(taken, s_axis_tdata) ==
  axi_in' = IF taken THEN Shift(axi_in, s_axis_tdata) ELSE axi_in

\* Take the request apart, then count the squares.
Count(sq_finished) ==
  IF state = "SQIN"
  THEN /\ t_current' = axi_in[1].n
       /\ t_final' = axi_in[2].n
       /\ sq_in' = [job |-> axi_in[3].job, k |-> axi_in[3].n]
  ELSE /\ t_current' = IF state = "COMPUTE" /\ sq_finished
                       THEN Wrapped(t_current + 1) ELSE t_current
       /\ UNCHANGED <<t_final, sq_in>>

\* As if a beat left whether or not it is accepted.
Send_IgnoresReady(sq_finished, sq_out, m_axis_tready) ==
  IF FinalIteration(sq_finished)
  THEN /\ axi_out_count' = 0
       /\ axi_out' = <<T(t_current), Seeded(t_current), Sq(sq_out)>>
  ELSE IF state = "SEND"
  THEN /\ axi_out_count' = axi_out_count + 1
       /\ axi_out' = Shift(axi_out, T(0))
  ELSE UNCHANGED <<axi_out, axi_out_count>>

\* The answer is put together on the edge of the last result, before the
\* count is advanced, whatever the state.
Send(sq_finished, sq_out, m_axis_tready) ==
  IF FinalIteration(sq_finished)
  THEN /\ axi_out_count' = 0
       /\ axi_out' = <<T(t_current), Seeded(t_current), Sq(sq_out)>>
  ELSE IF state = "SEND" /\ m_axis_tready
  THEN /\ axi_out_count' = axi_out_count + 1
       /\ axi_out' = Shift(axi_out, T(0))
  ELSE UNCHANGED <<axi_out, axi_out_count>>

\* An edge of clk.  Only the state is reset, one edge after reset.
\* s_axis: the stream into msu; sq: the wires sq_finished and sq_out.
MsuClk(reset, ap_start, s_axis, m_axis_tready, ready, sq) ==
  LET taken == s_axis.tvalid /\ s_axis_tready(ready)
  IN  /\ reset_1d' = reset
      /\ final_iteration_r' = FinalIteration(sq.finished)
      /\ state' = IF reset_1d THEN "INIT"
                  ELSE NextState(ap_start, taken /\ s_axis.tlast, m_axis_tready)
      /\ Receive(taken, s_axis.tdata)
      /\ Count(sq.finished)
      /\ Send(sq.finished, sq.out, m_axis_tready)

\* Held in reset since power-up; the rest is whatever the registers were
\* configured with.
MsuInit ==
  /\ reset_1d = TRUE /\ final_iteration_r = FALSE /\ state = "INIT"
  /\ t_current = 0 /\ t_final = 0 /\ sq_in = [job |-> 0, k |-> 0]
  /\ axi_in = <<T(0), T(0), T(0)>>
  /\ axi_out = <<T(0), T(0), T(0)>> /\ axi_out_count = 0
=============================================================================
