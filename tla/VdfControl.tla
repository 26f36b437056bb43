----------------------------- MODULE VdfControl -----------------------------
(***************************************************************************)
(* How a job is started and how it is known to be done: the registers of   *)
(* vdf_control_s_axi.v on the host's AXI4-Lite bus, and vdf_wrapper.sv,    *)
(* which makes a pulse of ap_start and ap_done and ap_idle of the          *)
(* kernel's done.                                                          *)
(*                                                                         *)
(* ControlClk is one rising edge of ap_clk for both.  Writes carry whole   *)
(* words (wstrb is all ones).  aclk_en is tied high in vdf.v.              *)
(***************************************************************************)
EXTENDS Integers

VARIABLES
  wstate, waddr, rstate, rdata_r,
  int_ap_start, int_ap_done, int_gie, int_ier, int_isr,
  int_data,                            \* int_input0, int_input_mem, ...
  ap_start_r, ap_idle_r, ap_done_r     \* vdf_wrapper

control_vars == <<wstate, waddr, rstate, rdata_r, int_ap_start, int_ap_done, int_gie,
                  int_ier, int_isr, int_data, ap_start_r, ap_idle_r, ap_done_r>>

\* The addresses: control, interrupts, and the halves of what the kernel is told.
AP_CTRL == "AP_CTRL"
GIE     == "GIE"
IER     == "IER"
ISR     == "ISR"
DataRegisters == {"input0", "input_mem_0", "input_mem_1", "output_mem_0", "output_mem_1",
                  "intermediates_mem_0", "intermediates_mem_1"}
None == "none"

awready   == wstate = "WRIDLE"
wready    == wstate = "WRDATA"
bvalid    == wstate = "WRRESP"
arready   == rstate = "RDIDLE"
rvalid    == rstate = "RDDATA"
interrupt == int_gie /\ int_isr

ap_start_pulse == int_ap_start /\ ~ap_start_r
ap_done == ap_done_r
ap_idle == ap_idle_r

ControlInit ==
  /\ wstate = "WRRESET" /\ waddr = AP_CTRL
  /\ rstate = "RDRESET" /\ rdata_r = 0
  /\ int_ap_start = FALSE /\ int_ap_done = FALSE
  /\ int_gie = FALSE /\ int_ier = FALSE /\ int_isr = FALSE
  /\ int_data = [r \in DataRegisters |-> 0]
  /\ ap_start_r = FALSE /\ ap_idle_r = TRUE /\ ap_done_r = FALSE

-----------------------------------------------------------------------------
(* The bus *)

wnext(awvalid, wvalid, bready) ==
  CASE wstate = "WRIDLE" -> IF awvalid THEN "WRDATA" ELSE "WRIDLE"
    [] wstate = "WRDATA" -> IF wvalid THEN "WRRESP" ELSE "WRDATA"
    [] wstate = "WRRESP" -> IF bready THEN "WRIDLE" ELSE "WRRESP"
    [] OTHER             -> "WRIDLE"

rnext(arvalid, rready) ==
  CASE rstate = "RDIDLE" -> IF arvalid THEN "RDDATA" ELSE "RDIDLE"
    [] rstate = "RDDATA" -> IF rready THEN "RDIDLE" ELSE "RDDATA"
    [] OTHER             -> "RDIDLE"

Bit(b) == IF b THEN 1 ELSE 0

\* The word that a read of raddr samples.
Sampled(raddr) ==
  CASE raddr = AP_CTRL -> Bit(int_ap_start) + 2 * Bit(int_ap_done) + 4 * Bit(ap_idle)
    [] raddr = GIE     -> Bit(int_gie)
    [] raddr = IER     -> Bit(int_ier)
    [] raddr = ISR     -> Bit(int_isr)
    [] OTHER           -> int_data[raddr]

-----------------------------------------------------------------------------
(* The registers: what bus and kernel do to them on one edge *)

\* Mutant: a bit that is set is cleared by the read that comes with it.
DoneRegister_read_wins(areset, read_ctrl) ==
  int_ap_done' = IF areset \/ read_ctrl THEN FALSE ELSE ap_done \/ int_ap_done

\* Clear on read, unless it is set on the same edge.
DoneRegister(areset, read_ctrl) ==
  int_ap_done' = IF areset THEN FALSE
                 ELSE IF ap_done THEN TRUE
                 ELSE IF read_ctrl THEN FALSE ELSE int_ap_done

\* Set by a write, cleared by done; the write wins.
StartRegister(areset, start_written) ==
  int_ap_start' = IF areset THEN FALSE
                  ELSE IF start_written THEN TRUE
                  ELSE IF ap_done THEN FALSE ELSE int_ap_start

\* A write toggles the interrupt status, unless done sets it.
InterruptRegisters(areset, written, wdata) ==
  /\ int_gie' = IF areset THEN FALSE ELSE IF written = GIE THEN wdata = 1 ELSE int_gie
  /\ int_ier' = IF areset THEN FALSE ELSE IF written = IER THEN wdata = 1 ELSE int_ier
  /\ int_isr' = IF areset THEN FALSE
                ELSE IF int_ier /\ ap_done THEN TRUE
                ELSE IF written = ISR THEN int_isr # (wdata = 1) ELSE int_isr

DataRegistersNext(areset, written, wdata) ==
  int_data' = [r \in DataRegisters |-> IF areset THEN 0
                                       ELSE IF r = written THEN wdata ELSE int_data[r]]

\* Mutant: done stays high until the next start.
Wrapper_done_held(areset, ap_done_i) ==
  /\ ap_start_r' = int_ap_start
  /\ ap_idle_r' = (areset \/ ap_done \/ (~ap_start_pulse /\ ap_idle))
  /\ ap_done_r' = (~areset /\ ~ap_start_pulse /\ (ap_done_r \/ ap_done_i))

\* vdf_wrapper: one pulse for a start, one for a done; idle in between.
Wrapper(areset, ap_done_i) ==
  /\ ap_start_r' = int_ap_start
  /\ ap_idle_r' = (areset \/ ap_done \/ (~ap_start_pulse /\ ap_idle))
  /\ ap_done_r' = (~areset /\ ~ap_start_pulse /\ ~ap_done /\ (ap_done_r \/ ap_done_i))

(***************************************************************************)
(* One edge.  bus says what the host offers: the write address aw and the  *)
(* read address ar (None if it offers none), the word wdata, and whether   *)
(* it takes responses.                                                     *)
(***************************************************************************)
ControlClk(areset, bus, ap_done_i) ==
  LET aw_hs   == bus.aw # None /\ awready
      written == IF bus.wvalid /\ wready THEN waddr ELSE None
      ar_hs   == bus.ar # None /\ arready
  IN  /\ wstate' = IF areset THEN "WRRESET" ELSE wnext(bus.aw # None, bus.wvalid, bus.bready)
      /\ rstate' = IF areset THEN "RDRESET" ELSE rnext(bus.ar # None, bus.rready)
      /\ waddr' = IF aw_hs THEN bus.aw ELSE waddr
      /\ rdata_r' = IF ar_hs THEN Sampled(bus.ar) ELSE rdata_r
      /\ StartRegister(areset, written = AP_CTRL /\ bus.wdata = 1)
      /\ DoneRegister(areset, ar_hs /\ bus.ar = AP_CTRL)
      /\ InterruptRegisters(areset, written, bus.wdata)
      /\ DataRegistersNext(areset, written, bus.wdata)
      /\ Wrapper(areset, ap_done_i)
=============================================================================
