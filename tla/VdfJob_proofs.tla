---------------------------- MODULE VdfJob_proofs ----------------------------
(***************************************************************************)
(* VdfJob, for any number of chunks, tests and inputs, any odd modulus     *)
(* that leaves Montgomery's bound, and any length of word.                 *)
(*                                                                         *)
(* First the registers: each launch is one job and one done.  A job goes   *)
(* through seven phases: what is said of two modules' registers in each    *)
(* phase, together with where the runtime is on the bus, is inductive.     *)
(*                                                                         *)
(* Then the numbers: Montgomery's products are exact, the ways to invert   *)
(* the radix agree, the words of an answer add up, mont.py's pow squares.  *)
(*                                                                         *)
(* Then the data: the kernel is told the buffers' addresses, and what lies *)
(* in each buffer and register in each phase stands for a power of the     *)
(* chunk's input.  With that the answers are right, and the program is the *)
(* loop of vdf_basic.py.                                                   *)
(***************************************************************************)
EXTENDS VdfJob, Arithmetic_proofs, SequenceTheorems, TLAPS

\* The writes of a launch, and which of them sets the start bit.
Last  == IF polls THEN 8 ELSE 11
Start == IF polls THEN 8 ELSE 10

(***************************************************************************)
(* The bus: a write in progress is the runtime's next one; it reads when   *)
(* it has written all, and neither between two jobs.                       *)
(***************************************************************************)
OnTheBus ==
  /\ polls \in BOOLEAN
  /\ step \in 0..Last + 1
  /\ wstate \in {"WRRESET", "WRIDLE", "WRDATA", "WRRESP"}
  /\ rstate \in {"RDRESET", "RDIDLE", "RDDATA"}
  /\ wstate \in {"WRDATA", "WRRESP"} =>
       step \in 1..Last /\ (waddr = AP_CTRL <=> step = Start)
  /\ rstate = "RDDATA" => step = Last + 1
  /\ pc # "compute_job" => step = 0

Registers(start, start_r, done_r, done, idle) ==
  /\ int_ap_start = start /\ ap_start_r = start_r
  /\ ap_done_r = done_r /\ int_ap_done = done /\ ap_idle_r = idle

\* No job, or its start not yet written.
Resting ==
  /\ Registers(FALSE, FALSE, FALSE, FALSE, TRUE) /\ kernel = "idle"
  /\ step <= Start /\ (step = Start => wstate # "WRRESP")
  /\ launches = (IF step = 0 THEN jobs ELSE jobs - 1)
  /\ begun = launches /\ ended = launches

\* The start bit is set and its pulse is seen on the next edge.
Starting ==
  /\ Registers(TRUE, FALSE, FALSE, FALSE, TRUE) /\ kernel = "idle"
  /\ step = Start /\ wstate = "WRRESP"
  /\ launches = jobs /\ begun = jobs - 1 /\ ended = jobs - 1

\* From here on: the start has been written, the kernel has begun.
Launched ==
  /\ launches = jobs /\ begun = jobs
  /\ step >= Start /\ (step = Start => wstate = "WRRESP")

NoDoneRead == rstate = "RDDATA" => rdata_r = 1

Running ==
  /\ Launched /\ NoDoneRead
  /\ Registers(TRUE, TRUE, FALSE, FALSE, FALSE)
  /\ kernel \in {"read", "square"} /\ ended = jobs - 1

Ending ==
  /\ Launched /\ NoDoneRead
  /\ Registers(TRUE, TRUE, FALSE, FALSE, FALSE)
  /\ kernel = "done" /\ ended = jobs

\* The wrapper has latched the kernel's done.
Ended ==
  /\ Launched /\ NoDoneRead
  /\ Registers(TRUE, TRUE, TRUE, FALSE, FALSE)
  /\ kernel = "idle" /\ ended = jobs

\* The register has it; the wrapper may still remember the start bit.
Done ==
  /\ Launched /\ NoDoneRead
  /\ \E start_r \in BOOLEAN : Registers(FALSE, start_r, FALSE, TRUE, TRUE)
  /\ kernel = "idle" /\ ended = jobs

\* It has been read, and the word is on the bus.
Reported ==
  /\ Launched /\ step = Last + 1 /\ rstate = "RDDATA" /\ rdata_r = 6
  /\ Registers(FALSE, FALSE, FALSE, FALSE, TRUE)
  /\ kernel = "idle" /\ ended = jobs

Phase == Resting \/ Starting \/ Running \/ Ending \/ Ended \/ Done \/ Reported

Counts == jobs \in Nat /\ launches \in Nat /\ begun \in Nat /\ ended \in Nat

IInv == Counts /\ OnTheBus /\ Phase

-----------------------------------------------------------------------------
(* The writes of a launch *)

\* One of the writes sets the start bit, with the value one: number Start of Last.
LEMMA Writes ==
  ASSUME polls \in BOOLEAN
  PROVE  /\ Len(writes) = Last
         /\ \A n \in 1..Last : writes[n][1] = AP_CTRL <=> n = Start
         /\ writes[Start][2] = 1
         /\ \A n \in 1..Last : writes[n][1] # None
<1> DEFINE enables == << <<GIE, 1>>, <<IER, 1>> >>
           args == << <<"input0", 0>>,
     <<"input_mem_0", IN_ADDR[1]>>, <<"input_mem_1", IN_ADDR[2]>>,
     <<"output_mem_0", OUT_ADDR[1]>>, <<"output_mem_1", OUT_ADDR[2]>>,
     <<"intermediates_mem_0", OUT_ADDR[1]>>, <<"intermediates_mem_1", OUT_ADDR[2]>>,
     <<AP_CTRL, 1>> >>
<1>1. CASE polls
  <2>1. writes = args
    BY <1>1 DEF writes, Launch, IN_ADDR, OUT_ADDR
  <2> QED
    BY <1>1, <2>1 DEF Last, Start, AP_CTRL, None
<1>2. CASE ~polls
  <2>1. writes = enables \o args \o << <<ISR, 1>> >>
    BY <1>2 DEF writes, Launch
  <2> QED
    BY <1>2, <2>1 DEF Last, Start, AP_CTRL, GIE, IER, ISR, None, IN_ADDR, OUT_ADDR
<1> QED
  BY <1>1, <1>2

\* What the runtime may offer, in terms of its place in the job.
LEMMA Offer ==
  ASSUME OnTheBus, NEW bus \in Offers
  PROVE  /\ bus.aw # None => step \in 1..Last /\ (bus.aw = AP_CTRL <=> step = Start)
         /\ bus.wvalid => step \in 1..Last /\ (step = Start => bus.wdata = 1)
         /\ bus.ar # None => step = Last + 1 /\ bus.ar = AP_CTRL
         /\ bus.wvalid \in BOOLEAN /\ bus.bready \in BOOLEAN /\ bus.rready \in BOOLEAN
<1>1. /\ Len(writes) = Last
      /\ \A n \in 1..Last : writes[n][1] = AP_CTRL <=> n = Start
      /\ writes[Start][2] = 1
  BY Writes DEF OnTheBus
<1>2. /\ bus.aw \in {None} \cup (IF Writing THEN {writes[step][1]} ELSE {})
      /\ bus.wvalid \in IF Writing THEN BOOLEAN ELSE {FALSE}
      /\ bus.wdata \in IF Writing THEN {writes[step][2]} ELSE {0}
      /\ bus.ar \in {None} \cup (IF Reading THEN {AP_CTRL} ELSE {})
      /\ bus.bready \in BOOLEAN /\ bus.rready \in BOOLEAN
  BY DEF Offers
<1>3. Writing => step \in 1..Last
  BY <1>1 DEF Writing
<1>4. Reading => step = Last + 1
  BY <1>1 DEF Reading, OnTheBus, Last
<1>5. bus.aw # None => step \in 1..Last /\ (bus.aw = AP_CTRL <=> step = Start)
  BY <1>1, <1>2, <1>3
<1>6. bus.wvalid => step \in 1..Last /\ (step = Start => bus.wdata = 1)
  BY <1>1, <1>2, <1>3
<1>7. bus.ar # None => step = Last + 1 /\ bus.ar = AP_CTRL
  BY <1>2, <1>4
<1>8. bus.wvalid \in BOOLEAN
  BY <1>2
<1> QED
  BY <1>2, <1>5, <1>6, <1>7, <1>8

-----------------------------------------------------------------------------
(* An edge *)

\* The start bit is written; the control register is read.
StartWritten(bus) == wready /\ bus.wvalid /\ step = Start
StatusRead(bus)   == arready /\ bus.ar # None

\* Given where the runtime is, a write of the control register is that of the
\* start bit, and a read is one of the control register.
LEMMA EdgeEffects ==
  ASSUME OnTheBus, NEW areset \in BOOLEAN, NEW bus \in Offers, Clk(areset, bus)
  PROVE  /\ areset => launches = 0 /\ step = 0
         /\ jobs' = jobs
         /\ launches' = IF StartWritten(bus) THEN launches + 1 ELSE launches
         /\ StartRegister(areset, StartWritten(bus))
         /\ DoneRegister(areset, StatusRead(bus))
         /\ Wrapper(areset, ap_done_i)
         /\ rdata_r' = IF StatusRead(bus) THEN Sampled(AP_CTRL) ELSE rdata_r
         /\ rstate' = IF areset THEN "RDRESET" ELSE rnext(bus.ar # None, bus.rready)
         /\ wstate' = IF areset THEN "WRRESET" ELSE wnext(bus.aw # None, bus.wvalid, bus.bready)
         /\ waddr' = IF bus.aw # None /\ awready THEN bus.aw ELSE waddr
         /\ step' = IF SeesDone(bus) THEN 0
                    ELSE IF bvalid /\ bus.bready THEN step + 1 ELSE step
         /\ polls' = polls /\ pc' = pc
         /\ Kernel
<1> DEFINE written == IF bus.wvalid /\ wready THEN waddr ELSE None
<1>1. /\ areset => launches = 0 /\ step = 0
      /\ Runtime(bus) /\ Kernel /\ pc' = pc
  BY DEF Clk, host_vars
<1>2. /\ wstate' = IF areset THEN "WRRESET" ELSE wnext(bus.aw # None, bus.wvalid, bus.bready)
      /\ rstate' = IF areset THEN "RDRESET" ELSE rnext(bus.ar # None, bus.rready)
      /\ waddr' = IF bus.aw # None /\ awready THEN bus.aw ELSE waddr
      /\ rdata_r' = IF bus.ar # None /\ arready THEN Sampled(bus.ar) ELSE rdata_r
      /\ StartRegister(areset, written = AP_CTRL /\ bus.wdata = 1)
      /\ DoneRegister(areset, bus.ar # None /\ arready /\ bus.ar = AP_CTRL)
      /\ Wrapper(areset, ap_done_i)
  BY DEF Clk, ControlClk
<1>3. (written = AP_CTRL /\ bus.wdata = 1) = StartWritten(bus)
  BY Offer DEF StartWritten, OnTheBus, wready, AP_CTRL, None
<1>4. (bus.wvalid /\ wready /\ waddr = AP_CTRL) = StartWritten(bus)
  BY Offer DEF StartWritten, OnTheBus, wready
<1>5. (bus.ar # None /\ arready /\ bus.ar = AP_CTRL) = StatusRead(bus)
  BY Offer DEF StatusRead
<1>6. StartRegister(areset, StartWritten(bus))
  BY <1>2, <1>3
<1>7. DoneRegister(areset, StatusRead(bus))
  BY <1>2, <1>5
<1>8. rdata_r' = IF StatusRead(bus) THEN Sampled(AP_CTRL) ELSE rdata_r
  BY <1>2, Offer DEF StatusRead
<1>9. /\ launches' = IF StartWritten(bus) THEN launches + 1 ELSE launches
      /\ step' = IF SeesDone(bus) THEN 0
                 ELSE IF bvalid /\ bus.bready THEN step + 1 ELSE step
      /\ polls' = polls /\ jobs' = jobs
  BY <1>1, <1>4 DEF Runtime
<1> QED
  BY <1>1, <1>2, <1>6, <1>7, <1>8, <1>9

\* The bus goes on as it should, whatever the phase.
LEMMA OnTheBusStep ==
  ASSUME OnTheBus, NEW areset \in BOOLEAN, NEW bus \in Offers, Clk(areset, bus)
  PROVE  OnTheBus'
<1>1. /\ polls' = polls /\ pc' = pc
      /\ areset => step = 0
      /\ rstate' = IF areset THEN "RDRESET" ELSE rnext(bus.ar # None, bus.rready)
      /\ wstate' = IF areset THEN "WRRESET" ELSE wnext(bus.aw # None, bus.wvalid, bus.bready)
      /\ waddr' = IF bus.aw # None /\ awready THEN bus.aw ELSE waddr
      /\ step' = IF SeesDone(bus) THEN 0
                 ELSE IF bvalid /\ bus.bready THEN step + 1 ELSE step
  BY EdgeEffects
<1>2. Last' = Last /\ Start' = Start /\ Last \in Nat /\ Start \in 1..Last
  BY <1>1 DEF Last, Start
<1>3. /\ wstate' \in {"WRRESET", "WRIDLE", "WRDATA", "WRRESP"}
      /\ rstate' \in {"RDRESET", "RDIDLE", "RDDATA"}
  BY <1>1 DEF wnext, rnext
<1>4. step' \in 0..Last + 1
  BY <1>1, <1>2 DEF OnTheBus, bvalid
<1>5. wstate' \in {"WRDATA", "WRRESP"} =>
        step' \in 1..Last /\ (waddr' = AP_CTRL <=> step' = Start)
  BY <1>1, <1>2, Offer DEF OnTheBus, bvalid, awready, wnext, SeesDone, rvalid
<1>6. rstate' = "RDDATA" => step' = Last + 1
  BY <1>1, <1>2, Offer DEF OnTheBus, bvalid, rnext, SeesDone, rvalid
<1>7. pc' # "compute_job" => step' = 0
  BY <1>1, <1>2 DEF OnTheBus, bvalid
<1> QED
  BY <1>1, <1>2, <1>3, <1>4, <1>5, <1>6, <1>7 DEF OnTheBus

-----------------------------------------------------------------------------
(* From phase to phase *)

\* Initially the registers are at rest and nothing has been launched.
LEMMA InitIInv == Init => IInv
<1> SUFFICES ASSUME Init PROVE IInv
  OBVIOUS
<1>1. OnTheBus
  BY DEF Init, ControlInit, OnTheBus, Last
<1>2. Resting
  BY DEF Init, ControlInit, Resting, Registers, Start
<1>3. Counts
  BY DEF Init, Counts
<1> QED
  BY <1>1, <1>2, <1>3 DEF IInv, Phase

\* At rest: an edge changes nothing, or the start is written.
LEMMA RestingStep ==
  ASSUME Counts, OnTheBus, Resting,
         NEW areset \in BOOLEAN, NEW bus \in Offers, Clk(areset, bus)
  PROVE  Resting' \/ Starting'
<1>1. ~ap_start_pulse /\ ~ap_done /\ ~ap_done_i /\ ap_idle /\ ~SeesDone(bus)
  BY DEF Resting, Registers, ap_start_pulse, ap_done, ap_done_i, ap_idle, SeesDone,
         rvalid, OnTheBus, Last, Start
<1>2. ~StatusRead(bus)
  BY Offer DEF StatusRead, Resting, OnTheBus, Last, Start
<1>3. kernel' = "idle" /\ begun' = begun /\ ended' = ended
  BY <1>1, EdgeEffects DEF Resting, Kernel, KernelIdle, KernelReads, KernelSquares,
     KernelWrites, KernelMoves, KernelDone, KernelWaits, ap_done_i
<1>4. /\ ap_start_r' = FALSE /\ ap_done_r' = FALSE /\ int_ap_done' = FALSE
      /\ ap_idle_r' = TRUE
  BY <1>1, <1>2, EdgeEffects DEF Resting, Registers, Wrapper, DoneRegister
<1>5. Start' = Start /\ Start \in Nat \ {0}
  BY EdgeEffects DEF Start
<1>6. CASE StartWritten(bus)
  <2>1. ~areset
    BY <1>5, <1>6, EdgeEffects DEF StartWritten
  <2>2. int_ap_start' = TRUE
    BY <1>6, <2>1, EdgeEffects DEF StartRegister
  <2>3. wstate = "WRDATA" /\ bus.wvalid /\ step = Start
    BY <1>6 DEF StartWritten, wready
  <2>4. wstate' = "WRRESP"
    BY <2>1, <2>3, EdgeEffects DEF wnext
  <2>5. step' = Start
    BY <1>1, <2>3, EdgeEffects DEF bvalid
  <2>6. launches' = jobs' /\ begun' = jobs' - 1 /\ ended' = jobs' - 1
    BY <1>3, <1>5, <1>6, <2>3, EdgeEffects DEF Resting, Counts
  <2> QED
    BY <1>3, <1>4, <1>5, <2>2, <2>4, <2>5, <2>6 DEF Starting, Registers
<1>7. CASE ~StartWritten(bus)
  <2>1. int_ap_start' = FALSE
    BY <1>1, <1>7, EdgeEffects DEF StartRegister, Resting, Registers
  <2>2. step' = IF wstate = "WRRESP" /\ bus.bready THEN step + 1 ELSE step
    BY <1>1, EdgeEffects DEF bvalid
  <2>3. wstate = "WRRESP" => step # Start /\ step # 0
    BY DEF Resting, OnTheBus
  <2>4. step' <= Start /\ (step' = 0 <=> step = 0)
    BY <1>5, <2>2, <2>3 DEF Resting, OnTheBus, Last, Start
  <2>5. step' = Start => wstate' # "WRRESP"
    <3> SUFFICES ASSUME step' = Start, wstate' = "WRRESP" PROVE FALSE
      OBVIOUS
    <3>1. wstate = "WRRESP" \/ (wstate = "WRDATA" /\ bus.wvalid)
      BY EdgeEffects DEF wnext, OnTheBus
    <3>2. CASE wstate = "WRRESP" /\ bus.bready
      BY <3>2, EdgeEffects DEF wnext
    <3>3. CASE ~(wstate = "WRRESP" /\ bus.bready)
      BY <1>7, <2>2, <2>3, <3>1, <3>3 DEF StartWritten, wready
    <3> QED
      BY <3>2, <3>3
  <2>6. launches' = launches /\ jobs' = jobs
    BY <1>7, EdgeEffects
  <2> QED
    BY <1>3, <1>4, <1>5, <2>1, <2>4, <2>5, <2>6 DEF Resting, Registers
<1> QED
  BY <1>6, <1>7

\* What holds of an edge once the start has been written: no reset, no second write.
LEMMA LaunchedStep ==
  ASSUME Counts, OnTheBus, step >= Start, launches = jobs,
         step = Start => wstate = "WRRESP",
         NEW areset \in BOOLEAN, NEW bus \in Offers, Clk(areset, bus)
  PROVE  /\ ~areset /\ ~StartWritten(bus)
         /\ launches' = jobs' /\ jobs' = jobs
         /\ ~SeesDone(bus) => step' >= Start' /\ (step' = Start' => wstate' = "WRRESP")
<1>1. Start' = Start /\ Start \in Nat \ {0} /\ step \in Nat
  BY EdgeEffects DEF Start, OnTheBus, Last
<1>2. ~areset
  BY <1>1, EdgeEffects
<1>3. ~StartWritten(bus)
  BY DEF StartWritten, wready
<1>4. launches' = jobs' /\ jobs' = jobs
  BY <1>3, EdgeEffects
<1>5. ASSUME ~SeesDone(bus)
      PROVE  step' >= Start' /\ (step' = Start' => wstate' = "WRRESP")
  <2>1. step' = IF wstate = "WRRESP" /\ bus.bready THEN step + 1 ELSE step
    BY <1>5, EdgeEffects DEF bvalid
  <2>2. CASE step = Start /\ ~bus.bready
    <3>1. wstate' = "WRRESP"
      BY <1>2, <2>2, EdgeEffects DEF wnext
    <3> QED
      BY <1>1, <2>1, <2>2, <3>1
  <2>3. CASE ~(step = Start /\ ~bus.bready)
    BY <1>1, <2>1, <2>3
  <2> QED
    BY <2>2, <2>3
<1> QED
  BY <1>2, <1>3, <1>4, <1>5

\* A read of the control register gives the three bits.
LEMMA SampledControl ==
  Sampled(AP_CTRL) = Bit(int_ap_start) + 2 * Bit(int_ap_done) + 4 * Bit(ap_idle)
BY DEF Sampled, AP_CTRL, GIE, IER, ISR

\* The word on the bus does not change without a new read of the register.
LEMMA NoDoneReadStep ==
  ASSUME OnTheBus, NoDoneRead, int_ap_done = FALSE, ap_idle = FALSE, int_ap_start = TRUE,
         NEW areset \in BOOLEAN, NEW bus \in Offers, Clk(areset, bus), ~areset
  PROVE  NoDoneRead' /\ ~SeesDone(bus)
<1>1. CASE StatusRead(bus)
  <2>1. rdata_r' = 1
    BY <1>1, EdgeEffects, SampledControl DEF Bit
  <2>2. ~SeesDone(bus)
    BY <1>1 DEF StatusRead, arready, SeesDone, rvalid
  <2> QED
    BY <2>1, <2>2 DEF NoDoneRead
<1>2. CASE ~StatusRead(bus)
  <2>1. rdata_r' = rdata_r
    BY <1>2, EdgeEffects
  <2>2. rstate' = "RDDATA" => rstate = "RDDATA"
    BY <1>2, EdgeEffects DEF rnext, StatusRead, arready
  <2>3. ~SeesDone(bus)
    BY DEF SeesDone, rvalid, NoDoneRead, done_bit
  <2> QED
    BY <2>1, <2>2, <2>3 DEF NoDoneRead
<1> QED
  BY <1>1, <1>2

\* The pulse: the kernel begins.
LEMMA StartingStep ==
  ASSUME Counts, OnTheBus, Starting,
         NEW areset \in BOOLEAN, NEW bus \in Offers, Clk(areset, bus)
  PROVE  Running'
<1>1. /\ ap_start_pulse /\ ~ap_done /\ ~ap_done_i
      /\ step < Last + 1 /\ rstate # "RDDATA"
  BY DEF Starting, Registers, ap_start_pulse, ap_done, ap_done_i, OnTheBus, Last, Start
<1>2. ~SeesDone(bus) /\ ~StatusRead(bus)
  BY <1>1, Offer DEF SeesDone, rvalid, StatusRead, OnTheBus, Last
<1>3. /\ ~areset /\ ~StartWritten(bus)
      /\ launches' = jobs' /\ jobs' = jobs
      /\ step' >= Start' /\ (step' = Start' => wstate' = "WRRESP")
  <2>1. step >= Start /\ (step = Start => wstate = "WRRESP") /\ launches = jobs
    BY DEF Starting, Start
  <2> QED
    BY <1>2, <2>1, LaunchedStep
<1>4. kernel' = "read" /\ begun' = begun + 1 /\ ended' = ended
  BY <1>1, EdgeEffects DEF Starting, Kernel, KernelIdle, KernelReads, KernelSquares,
     KernelWrites, KernelMoves, KernelDone, KernelWaits, ap_done_i
<1>5. int_ap_start' = TRUE /\ int_ap_done' = FALSE
  BY <1>1, <1>2, <1>3, EdgeEffects DEF Starting, Registers, StartRegister, DoneRegister
<1>6. ap_start_r' = TRUE /\ ap_idle_r' = FALSE /\ ap_done_r' = FALSE
  BY <1>1, <1>3, EdgeEffects DEF Starting, Registers, Wrapper
<1>7. rstate' # "RDDATA"
  BY <1>1, <1>2, EdgeEffects DEF rnext, StatusRead, arready
<1> QED
  BY <1>3, <1>4, <1>5, <1>6, <1>7
     DEF Running, Launched, NoDoneRead, Registers, Starting, Counts

\* What the phases from Running to Ended have in common.
LEMMA BusyStep ==
  ASSUME Counts, OnTheBus, Launched, NoDoneRead,
         int_ap_start = TRUE, ap_start_r = TRUE, int_ap_done = FALSE, ap_idle_r = FALSE,
         NEW areset \in BOOLEAN, NEW bus \in Offers, Clk(areset, bus)
  PROVE  /\ ~areset /\ ~ap_start_pulse /\ NoDoneRead' /\ ap_start_r' = TRUE
         /\ launches' = jobs' /\ jobs' = jobs
         /\ step' >= Start' /\ (step' = Start' => wstate' = "WRRESP")
         /\ int_ap_start' = ~ap_done
         /\ ~ap_done => int_ap_done' = FALSE
<1>1. ~areset /\ ~StartWritten(bus) /\ launches' = jobs' /\ jobs' = jobs
  BY LaunchedStep DEF Launched
<1>2. NoDoneRead' /\ ~SeesDone(bus)
  BY <1>1, NoDoneReadStep DEF ap_idle
<1>3. step' >= Start' /\ (step' = Start' => wstate' = "WRRESP")
  BY <1>2, LaunchedStep DEF Launched
<1>4. ap_start_r' = TRUE /\ ~ap_start_pulse
  BY EdgeEffects DEF Wrapper, ap_start_pulse
<1>5. int_ap_start' = ~ap_done
  BY <1>1, EdgeEffects DEF StartRegister
<1>6. ~ap_done => int_ap_done' = FALSE
  BY <1>1, EdgeEffects DEF DoneRegister
<1> QED
  BY <1>1, <1>2, <1>3, <1>4, <1>5, <1>6

\* The kernel works; the registers stay as they are.
LEMMA RunningStep ==
  ASSUME Counts, OnTheBus, Running,
         NEW areset \in BOOLEAN, NEW bus \in Offers, Clk(areset, bus)
  PROVE  Running' \/ Ending'
<1>1. /\ ~areset /\ ~ap_start_pulse /\ NoDoneRead' /\ ap_start_r' = TRUE
      /\ launches' = jobs' /\ jobs' = jobs
      /\ step' >= Start' /\ (step' = Start' => wstate' = "WRRESP")
      /\ int_ap_start' = ~ap_done /\ (~ap_done => int_ap_done' = FALSE)
  BY BusyStep DEF Running, Registers
<1>2. ~ap_done /\ ~ap_done_i /\ ~ap_idle
  BY DEF Running, Registers, ap_done, ap_done_i, ap_idle
<1>3. int_ap_start' = TRUE /\ int_ap_done' = FALSE
  BY <1>1, <1>2
<1>4. ap_idle_r' = FALSE /\ ap_done_r' = FALSE
  BY <1>1, <1>2, EdgeEffects DEF Running, Registers, Wrapper
<1>5. begun' = begun
  BY EdgeEffects DEF Running, Kernel, KernelIdle, KernelReads, KernelSquares,
     KernelWrites, KernelMoves, KernelDone, KernelWaits, kernel_vars
<1>6. \/ kernel' \in {"read", "square"} /\ ended' = ended
      \/ kernel' = "done" /\ ended' = ended + 1
  BY EdgeEffects DEF Running, Kernel, KernelIdle, KernelReads, KernelSquares,
     KernelWrites, KernelMoves, KernelDone, KernelWaits, kernel_vars, ap_done_i
<1> QED
  BY <1>1, <1>3, <1>4, <1>5, <1>6 DEF Running, Ending, Launched, Registers, Counts

\* The kernel is done: the wrapper latches it.
LEMMA EndingStep ==
  ASSUME Counts, OnTheBus, Ending,
         NEW areset \in BOOLEAN, NEW bus \in Offers, Clk(areset, bus)
  PROVE  Ended'
<1>1. /\ ~areset /\ ~ap_start_pulse /\ NoDoneRead' /\ ap_start_r' = TRUE
      /\ launches' = jobs' /\ jobs' = jobs
      /\ step' >= Start' /\ (step' = Start' => wstate' = "WRRESP")
      /\ int_ap_start' = ~ap_done /\ (~ap_done => int_ap_done' = FALSE)
  BY BusyStep DEF Ending, Registers
<1>2. ~ap_done /\ ap_done_i /\ ~ap_idle
  BY DEF Ending, Registers, ap_done, ap_done_i, ap_idle
<1>3. int_ap_start' = TRUE /\ int_ap_done' = FALSE
  BY <1>1, <1>2
<1>4. ap_idle_r' = FALSE /\ ap_done_r' = TRUE
  BY <1>1, <1>2, EdgeEffects DEF Ending, Registers, Wrapper
<1>5. kernel' = "idle" /\ begun' = begun /\ ended' = ended
  BY EdgeEffects DEF Ending, Kernel, KernelIdle, KernelReads, KernelSquares,
     KernelWrites, KernelMoves, KernelDone, KernelWaits, kernel_vars
<1> QED
  BY <1>1, <1>3, <1>4, <1>5 DEF Ending, Ended, Launched, Registers, Counts

\* The wrapper passes it on: the register sets done and clears start.
LEMMA EndedStep ==
  ASSUME Counts, OnTheBus, Ended,
         NEW areset \in BOOLEAN, NEW bus \in Offers, Clk(areset, bus)
  PROVE  Done'
<1>1. /\ ~areset /\ ~ap_start_pulse /\ NoDoneRead' /\ ap_start_r' = TRUE
      /\ launches' = jobs' /\ jobs' = jobs
      /\ step' >= Start' /\ (step' = Start' => wstate' = "WRRESP")
      /\ int_ap_start' = ~ap_done
  BY BusyStep DEF Ended, Registers
<1>2. ap_done /\ ~ap_done_i
  BY DEF Ended, Registers, ap_done, ap_done_i
<1>3. int_ap_start' = FALSE /\ int_ap_done' = TRUE
  BY <1>1, <1>2, EdgeEffects DEF DoneRegister
<1>4. ap_idle_r' = TRUE /\ ap_done_r' = FALSE
  BY <1>1, <1>2, EdgeEffects DEF Wrapper
<1>5. kernel' = "idle" /\ begun' = begun /\ ended' = ended
  BY <1>1, EdgeEffects DEF Ended, Kernel, KernelIdle, KernelReads, KernelSquares,
     KernelWrites, KernelMoves, KernelDone, KernelWaits, kernel_vars, ap_done_i
<1> QED
  BY <1>1, <1>3, <1>4, <1>5 DEF Ended, Done, Launched, Registers, Counts

\* Done stays until a read takes it.
LEMMA DoneStep ==
  ASSUME Counts, OnTheBus, Done,
         NEW areset \in BOOLEAN, NEW bus \in Offers, Clk(areset, bus)
  PROVE  Done' \/ Reported'
<1>1. /\ ~ap_start_pulse /\ ~ap_done /\ ~ap_done_i /\ ap_idle
      /\ int_ap_start = FALSE /\ int_ap_done = TRUE
  BY DEF Done, Registers, ap_start_pulse, ap_done, ap_done_i, ap_idle
<1>2. ~SeesDone(bus)
  BY DEF Done, NoDoneRead, SeesDone, rvalid, done_bit
<1>3. /\ ~areset /\ ~StartWritten(bus)
      /\ launches' = jobs' /\ jobs' = jobs
      /\ step' >= Start' /\ (step' = Start' => wstate' = "WRRESP")
  BY <1>2, LaunchedStep DEF Done, Launched
<1>4. kernel' = "idle" /\ begun' = begun /\ ended' = ended
  BY <1>1, EdgeEffects DEF Done, Kernel, KernelIdle, KernelReads, KernelSquares,
     KernelWrites, KernelMoves, KernelDone, KernelWaits, kernel_vars
<1>5. /\ int_ap_start' = FALSE /\ ap_start_r' = FALSE
      /\ ap_done_r' = FALSE /\ ap_idle_r' = TRUE
  <2>1. int_ap_start' = FALSE
    BY <1>1, <1>3, EdgeEffects DEF StartRegister
  <2>2. ap_start_r' = FALSE /\ ap_done_r' = FALSE
    BY <1>1, EdgeEffects DEF Wrapper, Done, Registers
  <2>3. ap_idle_r' = TRUE
    BY <1>1, EdgeEffects DEF Wrapper
  <2> QED
    BY <2>1, <2>2, <2>3
<1>6. Launched'
  BY <1>3, <1>4 DEF Done, Launched
<1>7. CASE StatusRead(bus)
  <2>1. rdata_r' = 6
    BY <1>1, <1>7, EdgeEffects, SampledControl DEF Bit
  <2>2. int_ap_done' = FALSE
    BY <1>1, <1>3, <1>7, EdgeEffects DEF DoneRegister
  <2>3. rstate' = "RDDATA"
    BY <1>3, <1>7, EdgeEffects DEF rnext, StatusRead, arready
  <2>4. step' = Last' + 1
    <3>1. step = Last + 1 /\ Last \in Nat
      BY <1>7, Offer DEF StatusRead, Last
    <3>2. ~bvalid
      BY <3>1 DEF OnTheBus, bvalid
    <3> QED
      BY <1>2, <3>1, <3>2, EdgeEffects DEF Last
  <2> QED
    BY <1>4, <1>5, <1>6, <2>1, <2>2, <2>3, <2>4, <1>3 DEF Reported, Registers, Done
<1>8. CASE ~StatusRead(bus)
  <2>1. int_ap_done' = TRUE
    BY <1>1, <1>3, <1>8, EdgeEffects DEF DoneRegister
  <2>2. NoDoneRead'
    <3>1. rdata_r' = rdata_r
      BY <1>8, EdgeEffects
    <3>2. rstate' = "RDDATA" => rstate = "RDDATA"
      BY <1>8, <1>3, EdgeEffects DEF rnext, StatusRead, arready
    <3> QED
      BY <3>1, <3>2 DEF NoDoneRead, Done
  <2> QED
    BY <1>3, <1>4, <1>5, <1>6, <2>1, <2>2 DEF Done, Registers
<1> QED
  BY <1>7, <1>8

\* The runtime takes the word: the job is over, and all is as before it.
LEMMA ReportedStep ==
  ASSUME Counts, OnTheBus, Reported,
         NEW areset \in BOOLEAN, NEW bus \in Offers, Clk(areset, bus)
  PROVE  Reported' \/ Resting'
<1>1. /\ ~ap_start_pulse /\ ~ap_done /\ ~ap_done_i /\ ap_idle
      /\ int_ap_start = FALSE /\ int_ap_done = FALSE
  BY DEF Reported, Registers, ap_start_pulse, ap_done, ap_done_i, ap_idle
<1>2. ~StatusRead(bus)
  BY DEF Reported, StatusRead, arready
<1>3. /\ ~areset /\ ~StartWritten(bus)
      /\ launches' = jobs' /\ jobs' = jobs
  BY LaunchedStep DEF Reported, Launched
<1>4. kernel' = "idle" /\ begun' = begun /\ ended' = ended
  BY <1>1, EdgeEffects DEF Reported, Kernel, KernelIdle, KernelReads, KernelSquares,
     KernelWrites, KernelMoves, KernelDone, KernelWaits, kernel_vars
<1>5. Registers(FALSE, FALSE, FALSE, FALSE, TRUE)'
  <2>1. int_ap_start' = FALSE
    BY <1>1, <1>3, EdgeEffects DEF StartRegister
  <2>2. ap_start_r' = FALSE /\ ap_done_r' = FALSE
    BY <1>1, EdgeEffects DEF Wrapper, Reported, Registers
  <2>3. ap_idle_r' = TRUE
    BY <1>1, EdgeEffects DEF Wrapper
  <2>4. int_ap_done' = FALSE
    BY <1>1, <1>2, EdgeEffects DEF DoneRegister
  <2> QED
    BY <2>1, <2>2, <2>3, <2>4 DEF Registers
<1>6. Start' = Start /\ Start \in Nat \ {0} /\ Last' = Last /\ Last \in Nat /\ Start <= Last
  BY EdgeEffects DEF Start, Last
<1>7. SeesDone(bus) <=> bus.rready
  BY DEF SeesDone, Reported, rvalid, done_bit
<1>8. CASE bus.rready
  <2>1. step' = 0
    BY <1>7, <1>8, EdgeEffects
  <2> QED
    BY <1>3, <1>4, <1>5, <1>6, <2>1 DEF Resting, Registers, Reported, Launched
<1>9. CASE ~bus.rready
  <2>1. step = Last + 1 /\ ~bvalid
    BY <1>6 DEF Reported, OnTheBus, bvalid
  <2>2. step' = Last' + 1
    BY <1>6, <1>7, <1>9, <2>1, EdgeEffects
  <2>3. rstate' = "RDDATA" /\ rdata_r' = 6
    BY <1>2, <1>3, <1>9, EdgeEffects DEF Reported, rnext
  <2>4. Launched'
    BY <1>3, <1>4, <1>6, <2>2 DEF Launched, Reported
  <2> QED
    BY <1>3, <1>4, <1>5, <2>2, <2>3, <2>4 DEF Reported
<1> QED
  BY <1>8, <1>9

\* The counts of the history are numbers, on every edge.
LEMMA CountsStep ==
  ASSUME Counts, OnTheBus, NEW areset \in BOOLEAN, NEW bus \in Offers, Clk(areset, bus)
  PROVE  Counts'
<1>1. jobs' = jobs /\ launches' \in {launches, launches + 1}
  BY EdgeEffects
<1>2. begun' \in {begun, begun + 1} /\ ended' \in {ended, ended + 1}
  BY EdgeEffects DEF Kernel, KernelIdle, KernelReads, KernelSquares,
     KernelWrites, KernelMoves, KernelDone, KernelWaits, kernel_vars
<1> QED
  BY <1>1, <1>2 DEF Counts

\* An edge leads from a phase to a phase.
LEMMA ClockStep ==
  ASSUME IInv, NEW areset \in BOOLEAN, NEW bus \in Offers, Clk(areset, bus)
  PROVE  IInv'
<1>1. Counts /\ OnTheBus /\ Counts' /\ OnTheBus'
  BY CountsStep, OnTheBusStep DEF IInv
<1>2. CASE Resting
  BY <1>1, <1>2, RestingStep DEF IInv, Phase
<1>3. CASE Starting
  BY <1>1, <1>3, StartingStep DEF IInv, Phase
<1>4. CASE Running
  BY <1>1, <1>4, RunningStep DEF IInv, Phase
<1>5. CASE Ending
  BY <1>1, <1>5, EndingStep DEF IInv, Phase
<1>6. CASE Ended
  BY <1>1, <1>6, EndedStep DEF IInv, Phase
<1>7. CASE Done
  BY <1>1, <1>7, DoneStep DEF IInv, Phase
<1>8. CASE Reported
  BY <1>1, <1>8, ReportedStep DEF IInv, Phase
<1> QED
  BY <1>2, <1>3, <1>4, <1>5, <1>6, <1>7, <1>8 DEF IInv, Phase

-----------------------------------------------------------------------------
(* Steps of the host *)

\* A chunk: the runtime is given a job; nothing else of the phase is touched.
LEMMA ChunkStep ==
  ASSUME IInv, Chunk
  PROVE  IInv'
<1>1. /\ pc = "loop" /\ pc' = "compute_job" /\ step' = 1 /\ jobs' = jobs + 1
      /\ launches' = launches /\ polls' = polls
      /\ UNCHANGED control_vars /\ UNCHANGED kernel_vars
  BY DEF Chunk
<1>2. step = 0 /\ Last \in Nat /\ Start \in 2..Last /\ Last' = Last /\ Start' = Start
  BY <1>1 DEF IInv, OnTheBus, Last, Start
<1>3. Resting
  <2>1. ~Launched /\ ~Starting
    BY <1>2 DEF Launched, Starting, Registers
  <2> QED
    BY <2>1 DEF IInv, Phase, Running, Ending, Ended, Done, Reported
<1>4. wstate \notin {"WRDATA", "WRRESP"} /\ rstate # "RDDATA"
  BY <1>2 DEF IInv, OnTheBus
<1>5. Counts' /\ OnTheBus'
  BY <1>1, <1>2, <1>4 DEF IInv, Counts, OnTheBus, control_vars, kernel_vars
<1>6. Resting'
  BY <1>1, <1>2, <1>3 DEF IInv, Counts, Resting, Registers, control_vars, kernel_vars
<1> QED
  BY <1>5, <1>6 DEF IInv, Phase

\* The other steps of the host find no job and start none.
LEMMA OtherStep ==
  ASSUME IInv, NextTest \/ Finish \/ Returned \/ UNCHANGED vars
  PROVE  IInv'
<1>1. /\ UNCHANGED runtime_vars /\ UNCHANGED control_vars /\ UNCHANGED kernel_vars
      /\ pc' = pc \/ step = 0
  BY DEF IInv, OnTheBus, NextTest, Finish, Returned, vars, host_vars
<1>2. Last' = Last /\ Start' = Start
  BY <1>1 DEF Last, Start, runtime_vars
<1>3. Counts' /\ OnTheBus'
  BY <1>1, <1>2 DEF IInv, Counts, OnTheBus, runtime_vars, control_vars, kernel_vars
<1>4. Launched' = Launched /\ NoDoneRead' = NoDoneRead
  BY <1>1, <1>2 DEF Launched, NoDoneRead, runtime_vars, control_vars, kernel_vars
<1>5. Phase'
  BY <1>1, <1>2, <1>4 DEF IInv, Phase, Resting, Starting, Running, Ending, Ended, Done,
     Reported, Registers, runtime_vars, control_vars, kernel_vars
<1> QED
  BY <1>3, <1>5 DEF IInv

-----------------------------------------------------------------------------
(* The invariant, and what it gives *)

\* In every phase the registers of both modules, the bus and the history agree.
THEOREM PhasesHold == Spec => []IInv
<1>1. Init => IInv
  BY InitIInv
<1>2. IInv /\ [Next]_vars => IInv'
  BY ClockStep, ChunkStep, OtherStep DEF Next, Clock
<1> QED
  BY <1>1, <1>2, PTL DEF Spec

\* A launch is one job and one done; done is not reported early, late or twice.
THEOREM EachLaunchIsOneJob == Spec => []EachLaunchOneJob
<1>1. ASSUME IInv PROVE EachLaunchOneJob
  <2>1. launches = begun + (IF ap_start_pulse THEN 1 ELSE 0)
    BY <1>1 DEF IInv, Counts, Phase, Resting, Starting, Running, Ending, Ended, Done,
       Reported, Launched, Registers, ap_start_pulse
  <2>2. step = 0 => launches = jobs /\ ended = jobs
    BY <1>1 DEF IInv, Phase, Resting, Starting, Running, Ending, Ended, Done,
       Reported, Launched, Start, Last
  <2>3. rvalid => Running \/ Ending \/ Ended \/ Done \/ Reported
    <3>1. ASSUME rvalid PROVE ~Resting /\ ~Starting
      <4>1. step = Last + 1 /\ Last \in Nat /\ Start \in Nat /\ Start <= Last
        BY <1>1, <3>1 DEF IInv, OnTheBus, rvalid, Start, Last
      <4> QED
        BY <4>1 DEF Resting, Starting, Registers
    <3> QED
      BY <1>1, <3>1 DEF IInv, Phase
  <2>4. rvalid => rdata_r \in {1, 6}
    BY <2>3 DEF Running, Ending, Ended, Done, Reported, NoDoneRead, rvalid
  <2>5. rvalid /\ done_bit => idle_bit /\ ~start_bit
    BY <2>4 DEF done_bit, idle_bit, start_bit
  <2> QED
    BY <2>1, <2>2, <2>5 DEF EachLaunchOneJob
<1>2. IInv => EachLaunchOneJob
  BY <1>1
<1> QED
  BY PhasesHold, <1>2, PTL

-----------------------------------------------------------------------------
(***************************************************************************)
(* Powers of 2.  Of them the provers know nothing: the least one and the   *)
(* step from each to the next, as far as the job needs them, are taken as  *)
(* they are.                                                               *)
(***************************************************************************)
Top == reducerbits + t_final * test_iterations

\* The two facts about powers of 2.
ASSUME PowersOfTwo == 2^0 = 1 /\ \A n \in 0 .. Top : 2^(n + 1) = 2 * 2^n

\* None of them is 0, and twice one is the next.
LEMMA PowerIs ==
  /\ Top \in Nat /\ 0 .. reducerbits \subseteq 0 .. Top
  /\ 0 .. t_final * test_iterations \subseteq 0 .. Top
  /\ 2^0 = 1 /\ \A n \in 0 .. Top : 2^n \in Nat \ {0} /\ 2^(n + 1) = 2 * 2^n
<1>1. t_final * test_iterations \in Nat /\ reducerbits \in Nat
  BY JobAssumption
<1>2. Top \in Nat /\ \A n \in Nat : /\ n <= reducerbits => n <= Top
                                    /\ n <= t_final * test_iterations => n <= Top
  <2> DEFINE g == t_final * test_iterations
  <2>1. g \in Nat /\ Top = reducerbits + g
    BY <1>1 DEF Top
  <2> HIDE DEF g
  <2>2. Top \in Nat /\ \A n \in Nat : (n <= reducerbits => n <= Top) /\ (n <= g => n <= Top)
    BY <1>1, <2>1
  <2> QED
    BY <2>2 DEF g
<1> DEFINE S == {n \in Nat : n <= Top => 2^n \in Nat \ {0}}
<1>3. 0 \in S
  BY PowersOfTwo
<1>4. ASSUME NEW n \in Nat, n \in S PROVE n + 1 \in S
  <2> SUFFICES ASSUME n + 1 <= Top PROVE 2^(n + 1) \in Nat \ {0}
    OBVIOUS
  <2>1. n \in 0 .. Top /\ 2^n \in Nat \ {0}
    BY <1>2, <1>4
  <2> QED
    BY <2>1, PowersOfTwo
<1>5. Nat \subseteq S
  <2> HIDE DEF S
  <2> QED
    BY <1>3, <1>4, Induction
<1> QED
  BY <1>1, <1>2, <1>5, PowersOfTwo

\* The power of a sum.
LEMMA PowerOfSum ==
  ASSUME NEW m \in Nat, NEW n \in Nat, m + n <= Top
  PROVE  2^(m + n) = 2^m * 2^n
<1> DEFINE S == {k \in Nat : m + k <= Top => 2^(m + k) = 2^m * 2^k}
<1>1. 0 \in S
  <2>1. m \in 0 .. Top /\ m + 0 = m
    BY PowerIs
  <2>2. 2^m \in Nat /\ 2^0 = 1
    BY <2>1, PowerIs
  <2> QED
    BY <2>1, <2>2
<1>2. ASSUME NEW k \in Nat, k \in S PROVE k + 1 \in S
  <2> SUFFICES ASSUME m + (k + 1) <= Top PROVE 2^(m + (k + 1)) = 2^m * 2^(k + 1)
    OBVIOUS
  <2>1. m \in 0 .. Top /\ k \in 0 .. Top /\ m + k \in 0 .. Top /\ m + (k + 1) = (m + k) + 1
    BY PowerIs
  <2>2. 2^((m + k) + 1) = 2 * 2^(m + k) /\ 2^(k + 1) = 2 * 2^k /\ 2^m \in Nat /\ 2^k \in Nat
    BY <2>1, PowerIs
  <2>3. 2^(m + k) = 2^m * 2^k
    BY <1>2, <2>1
  <2> QED
    BY <2>1, <2>2, <2>3
<1>3. Nat \subseteq S
  <2> HIDE DEF S
  <2> QED
    BY <1>1, <1>2, Induction
<1> QED
  BY <1>3

-----------------------------------------------------------------------------
(***************************************************************************)
(* Montgomery's constants and products.                                    *)
(***************************************************************************)

\* The moduli that have a Montgomery form.
Odd(P) == P \in Nat /\ P % 2 = 1 /\ P >= 3

\* The radix is a number.
LEMMA Radix == reducer \in Nat \ {0}
BY PowerIs, JobAssumption DEF reducer

\* Powers of 2 have inverses modulo an odd number.
LEMMA RadixHasInverse ==
  ASSUME NEW P, Odd(P)
  PROVE  \E r \in 0 .. P - 1 : Same(r * reducer, 1, P)
<1> DEFINE Has(n) == \E r \in 0 .. P - 1 : Same(r * 2^n, 1, P)
           S == {n \in Nat : n <= reducerbits => Has(n)}
<1>0. P \in Nat \ {0} /\ P >= 3
  BY DEF Odd
<1>1. 0 \in S
  <2>1. 1 * 2^0 = 1 /\ 1 \in 0 .. P - 1
    BY <1>0, PowerIs
  <2>2. Same(1 * 2^0, 1, P)
    BY <2>1, SameAgain
  <2> QED
    BY <2>1, <2>2
<1>2. ASSUME NEW n \in Nat, n \in S PROVE n + 1 \in S
  <2> SUFFICES ASSUME n + 1 <= reducerbits PROVE Has(n + 1)
    OBVIOUS
  <2>1. n \in 0 .. reducerbits /\ n <= reducerbits
    BY JobAssumption
  <2>2. PICK r \in 0 .. P - 1 : Same(r * 2^n, 1, P)
    BY <1>2, <2>1
  <2> DEFINE h == (P + 1) \div 2
             b == 2^n
             s == (r * h) % P
             d == r * h
             f == r * b
             i == 1
  <2>3. h \in Int /\ 2 * h = i + P * i /\ b \in Int /\ d \in Int /\ f \in Int /\ i \in Int
    BY <1>0, <2>1, PowerIs DEF Odd
  <2>4. 2^(n + 1) = 2 * b
    BY <2>1, PowerIs
  <2>5. d * (2 * b) = f * (2 * h) /\ 2 * b \in Int /\ 2 * h \in Int
    <3> HIDE DEF h, b
    <3> QED
      BY <2>3
  <2>6. Same(f, i, P)
    BY <2>2
  <2> HIDE DEF h, b, d, f, i
  <2>7. Same(d % P, d, P) /\ d % P \in 0 .. P - 1
    BY <1>0, <2>3, SameRemainder
  <2> DEFINE B == 2 * b
             H == 2 * h
             e == d % P
  <2>8. B \in Int /\ H \in Int /\ H = i + P * i /\ d * B = f * H /\ e \in Int
    BY <1>0, <2>3, <2>5, <2>7
  <2>9. Same(e, d, P)
    BY <2>7
  <2> HIDE DEF B, H, e
  <2>10. Same(e * B, d * B, P) /\ Same(f * H, i * H, P)
    BY <1>0, <2>3, <2>6, <2>8, <2>9, SameProduct
  <2>11. i * H = i + P * i
    BY <2>8 DEF i
  <2>12. Same(i + P * i, i, P)
    <3>1. (i + P * i) % P = i % P
      BY <1>0, <2>3, Multiples
    <3> QED
      BY <3>1 DEF Same
  <2>13. Same(e * B, i, P)
    BY <2>8, <2>10, <2>11, <2>12, SameAgain
  <2> QED
    BY <2>4, <2>7, <2>13 DEF i, B, e
<1>3. Nat \subseteq S
  <2> HIDE DEF S
  <2> QED
    BY <1>1, <1>2, Induction
<1>4. reducerbits \in S
  BY <1>3, JobAssumption
<1> QED
  BY <1>4, PowerIs DEF reducer

\* GMP's inverse of the radix.
InverseOf(P) == mpz_invert(reducer % P, P)

\* It is the inverse of the radix.
LEMMA InverseIs ==
  ASSUME NEW P, Odd(P)
  PROVE  InverseOf(P) \in 0 .. P - 1 /\ Same(InverseOf(P) * reducer, 1, P)
<1> DEFINE a == reducer % P
<1>1. P \in Nat \ {0} /\ P >= 3 /\ reducer \in Int
  BY Radix DEF Odd
<1>2. a \in Int /\ Same(a, reducer, P)
  <2>1. Same(reducer % P, reducer, P) /\ reducer % P \in 0 .. P - 1
    BY <1>1, SameRemainder
  <2> QED
    BY <1>1, <2>1
<1> HIDE DEF a
<1>3. ASSUME NEW r \in 0 .. P - 1 PROVE (r * a) % P = 1 <=> Same(r * reducer, 1, P)
  <2>1. r \in Int
    OBVIOUS
  <2>2. Same(r * a, r * reducer, P)
    BY <1>1, <1>2, <2>1, SameProduct
  <2>3. 1 % P = 1
    <3>1. 1 \in 0 .. P - 1
      BY <1>1
    <3> QED
      BY <1>1, <3>1, SmallRemainder
  <2>4. (r * a) % P = 1 <=> Same(r * a, 1, P)
    BY <2>3 DEF Same
  <2> QED
    BY <2>2, <2>4, SameAgain
<1>4. \E r \in 0 .. P - 1 : (r * a) % P = 1
  BY <1>3, RadixHasInverse
<1>5. InverseOf(P) = CHOOSE r \in 0 .. P - 1 : (r * a) % P = 1
  BY DEF InverseOf, mpz_invert, a
<1>6. InverseOf(P) \in 0 .. P - 1 /\ (InverseOf(P) * a) % P = 1
  <2> DEFINE Q(r) == (r * a) % P = 1
  <2>1. \E r \in 0 .. P - 1 : Q(r)
    BY <1>4
  <2>2. InverseOf(P) = CHOOSE r \in 0 .. P - 1 : Q(r)
    BY <1>5
  <2> HIDE DEF Q
  <2>3. InverseOf(P) \in 0 .. P - 1 /\ Q(InverseOf(P))
    BY <2>1, <2>2
  <2> QED
    BY <2>3 DEF Q
<1> QED
  BY <1>3, <1>6

\* The factor: one less than a multiple of the radix, divided by the modulus.
Factor(P) == (reducer * InverseOf(P) - 1) \div P

\* mont_init computes it, rounding up.
LEMMA FactorIs ==
  ASSUME NEW P, Odd(P)
  PROVE  /\ Factor(P) \in Nat /\ Factor(P) * P + 1 = reducer * InverseOf(P)
         /\ mont_init(P).factor = Factor(P)
<1> DEFINE r == InverseOf(P)
           z == reducer * r
           f == Factor(P)
<1>1. P \in Nat \ {0} /\ P >= 3 /\ reducer \in Nat \ {0} /\ r \in 0 .. P - 1
  BY Radix, InverseIs DEF Odd
<1>2. Same(z, 1, P)
  <2>1. r * reducer = reducer * r
    BY <1>1
  <2> QED
    BY <2>1, InverseIs
<1>3. z \in Nat
  BY <1>1
<1>4. f = (z - 1) \div P
  BY DEF Factor
<1>5. mont_init(P).factor = (z - 1 + P - 1) \div P
  BY DEF mont_init, InverseOf
<1> HIDE DEF z, f
<1>6. PICK q \in Int : z = 1 + P * q
  <2> DEFINE i == 1
  <2>1. Same(z, i, P) /\ i \in Int /\ z \in Int
    BY <1>2, <1>3
  <2> HIDE DEF i
  <2>2. \E q \in Int : z = i + P * q
    BY <1>1, <2>1, SameDiffers
  <2> QED
    BY <2>2 DEF i
<1>7. /\ z - 1 = P * q + 0 /\ z - 1 + P - 1 = P * q + (P - 1)
      /\ 0 \in 0 .. P - 1 /\ P - 1 \in 0 .. P - 1
  BY <1>1, <1>3, <1>6
<1>8. (z - 1) \div P = q
  <2>1. (P * q + 0) \div P = q
    BY <1>1, <1>7, Division
  <2> QED
    BY <1>7, <2>1
<1>9. (z - 1 + P - 1) \div P = q
  <2>1. (P * q + (P - 1)) \div P = q
    BY <1>1, <1>7, Division
  <2> QED
    BY <1>7, <2>1
<1>10. q \in Nat
  <2> SUFFICES ASSUME q < 0 PROVE FALSE
    OBVIOUS
  <2>1. P * q <= P * (-1)
    BY <1>1
  <2> QED
    BY <1>1, <1>3, <1>6, <2>1
<1> QED
  BY <1>1, <1>3, <1>4, <1>5, <1>6, <1>8, <1>9, <1>10 DEF f, z

\* A product of mont_mult, with the multiple of the modulus that makes it divisible.
LEMMA Product ==
  ASSUME NEW P, Odd(P), NEW a \in Nat, NEW b \in Nat
  PROVE  /\ mont_mult(a, b, P, Factor(P)) \in Nat
         /\ \E q \in 0 .. reducer - 1 :
              mont_mult(a, b, P, Factor(P)) * reducer = a * b + q * P
<1> DEFINE R == reducer
           f == Factor(P)
           t == a * b
           u == t % R
           w == u * f
           q == w % R
           m == mont_mult(a, b, P, Factor(P))
           k == f * P
<1>1. P \in Nat \ {0} /\ R \in Nat \ {0} /\ f \in Nat /\ t \in Nat
  BY Radix, FactorIs DEF Odd
<1>2. m = (t + q * P) \div R
  BY DEF mont_mult
<1>3. k \in Nat /\ (k + 1) % R = 0
  <2>1. k + 1 = R * InverseOf(P) /\ InverseOf(P) \in Int
    BY FactorIs, InverseIs
  <2>2. k \in Nat
    BY <1>1
  <2> HIDE DEF k, R
  <2>3. k + 1 \in Int
    BY <2>2
  <2> QED
    BY <1>1, <2>1, <2>2, <2>3, MultipleIs
<1> HIDE DEF R, f, t, m
<1>4. Same(u, t, R) /\ u \in 0 .. R - 1
  BY <1>1, SameRemainder
<1> HIDE DEF u
<1>5. w \in Nat
  BY <1>1, <1>4
<1>6. Same(q, w, R) /\ q \in 0 .. R - 1
  <2> HIDE DEF w
  <2> QED
    BY <1>1, <1>5, SameRemainder
<1>7. w * P = u * k
  BY <1>1, <1>4
<1> HIDE DEF w, q, k
<1>8. Same(q * P, t * k, R)
  <2>1. q \in Int /\ w \in Int /\ u \in Int /\ t \in Int /\ k \in Int /\ P \in Int
    BY <1>1, <1>3, <1>4, <1>5, <1>6
  <2>2. Same(q * P, w * P, R) /\ Same(u * k, t * k, R)
    BY <1>1, <1>4, <1>6, <2>1, SameProduct
  <2> QED
    BY <1>7, <2>2, SameAgain
<1>9. (t + q * P) % R = 0
  <2> DEFINE y == q * P
             z == t * k
             i == k + 1
             n == 0
  <2>1. y \in Int /\ z \in Int /\ i \in Int /\ n \in Int /\ t \in Int
    BY <1>1, <1>3, <1>6
  <2>2. z + t = t * i /\ t * n = 0 /\ y + t = t + y
    BY <1>1, <1>3, <1>6
  <2>3. Same(i, n, R)
    <3>1. 0 % R = 0
      BY <1>1
    <3> QED
      BY <1>3, <3>1 DEF Same
  <2>4. Same(y, z, R)
    BY <1>8
  <2>5. 0 % R = 0
    BY <1>1
  <2> HIDE DEF y, z, i, n
  <2>6. Same(y + t, z + t, R) /\ Same(t * i, t * n, R)
    BY <1>1, <2>1, <2>3, <2>4, SameProduct
  <2>7. Same(y + t, 0, R)
    BY <2>2, <2>6, SameAgain
  <2> QED
    BY <2>2, <2>5, <2>7 DEF Same, y
<1>10. m * R = t + q * P /\ m \in Nat
  <2> DEFINE y == t + q * P
  <2>1. y \in Nat
    BY <1>1, <1>6
  <2>2. m = y \div R /\ y % R = 0
    BY <1>2, <1>9
  <2> HIDE DEF y
  <2>3. y = R * m
    BY <1>1, <2>1, <2>2, MultipleIs
  <2>4. m \in Nat
    BY <1>1, <2>1, <2>2
  <2> QED
    BY <1>1, <2>3, <2>4 DEF y
<1> QED
  BY <1>6, <1>10 DEF m, t, R

\* Without the final subtraction: below twice the modulus, and not 0.
LEMMA ProductIs ==
  ASSUME NEW P, Odd(P), NEW a \in Nat, NEW b \in Nat,
         NEW m, m = mont_mult(a, b, P, Factor(P))
  PROVE  /\ m \in Nat /\ Same(m * reducer, a * b, P)
         /\ a * b < reducer * P => m < 2 * P
         /\ a * b > 0 => m > 0
         /\ a * b < 2 * P /\ P < reducer => m <= P
<1> DEFINE R == reducer
           t == a * b
<1>1. P \in Nat \ {0} /\ P >= 3 /\ R \in Nat \ {0} /\ t \in Nat
  BY Radix DEF Odd
<1>2. PICK q \in 0 .. R - 1 : m * R = t + q * P
  BY Product
<1>3. m \in Nat
  BY Product
<1> HIDE DEF R, t
<1>4. q * P = P * q /\ q \in Int /\ t \in Int
  BY <1>1, <1>2
<1>5. Same(t + P * q, t, P)
  BY <1>1, <1>4, SameDiffers
<1>6. Same(m * R, t, P)
  BY <1>2, <1>4, <1>5
<1>7. q * P <= (R - 1) * P /\ (R - 1) * P = R * P - P /\ q * P \in Nat /\ R * P \in Nat
  BY <1>1, <1>2
<1>8. ASSUME t < R * P PROVE m < 2 * P
  <2>1. m * R < 2 * (R * P)
    BY <1>1, <1>2, <1>7, <1>8
  <2> SUFFICES ASSUME m >= 2 * P PROVE FALSE
    BY <1>1, <1>3
  <2>2. m * R >= (2 * P) * R
    BY <1>1, <1>3
  <2>3. (2 * P) * R = 2 * (R * P)
    BY <1>1
  <2> QED
    BY <1>1, <1>3, <2>1, <2>2, <2>3
<1>9. ASSUME t > 0 PROVE m > 0
  BY <1>1, <1>2, <1>3, <1>7, <1>9
<1>10. ASSUME t < 2 * P, P < R PROVE m <= P
  <2>1. m * R < R * P + P
    BY <1>1, <1>2, <1>7, <1>10
  <2> SUFFICES ASSUME m >= P + 1 PROVE FALSE
    BY <1>1, <1>3
  <2>2. m * R >= (P + 1) * R
    BY <1>1, <1>3
  <2>3. (P + 1) * R = R * P + R
    BY <1>1
  <2> QED
    BY <1>1, <1>3, <1>10, <2>1, <2>2, <2>3
<1> QED
  BY <1>3, <1>6, <1>8, <1>9, <1>10 DEF t, R

\* What has an inverse has no divisor in common with the modulus.
Divides(d, x) == \E k \in Int : x = d * k
\* No divisor in common.
Coprime(x, y) == \A d \in Nat \ {0} : Divides(d, x) /\ Divides(d, y) => d = 1

\* What has an inverse has no divisor in common with the modulus.
LEMMA UnitIsCoprime ==
  ASSUME NEW P, Odd(P), NEW a \in Int, NEW u \in Int, Same(u * a, 1, P)
  PROVE  Coprime(P, a)
<1>1. P \in Nat \ {0}
  BY DEF Odd
<1>2. PICK q \in Int : u * a = 1 + P * q
  <2> DEFINE z == u * a
             i == 1
  <2>1. z \in Int /\ i \in Int /\ Same(z, i, P)
    OBVIOUS
  <2> HIDE DEF z, i
  <2>2. \E q \in Int : z = i + P * q
    BY <1>1, <2>1, SameDiffers
  <2> QED
    BY <2>2 DEF z, i
<1>3. ASSUME NEW d \in Nat \ {0}, NEW k \in Int, P = d * k, NEW l \in Int, a = d * l
      PROVE  d = 1
  <2> DEFINE e == u * l - k * q
  <2>1. e \in Int /\ d * e = 1
    <3>1. d * e = u * (d * l) - (d * k) * q
      OBVIOUS
    <3>2. d * e = u * a - P * q
      BY <1>3, <3>1
    <3>3. u * a \in Int /\ P * q \in Int
      BY <1>1
    <3> QED
      BY <1>2, <3>2, <3>3
  <2> HIDE DEF e
  <2>2. e >= 1
    <3> SUFFICES ASSUME e <= 0 PROVE FALSE
      BY <2>1
    <3>1. d * e <= 0
      BY <2>1
    <3> QED
      BY <2>1, <3>1
  <2>3. d * e >= d
    BY <2>1, <2>2
  <2> QED
    BY <2>1, <2>3
<1> QED
  BY <1>3 DEF Coprime, Divides

-----------------------------------------------------------------------------
(***************************************************************************)
(* Squarer.hpp and mont.py invert differently from the hardware's package. *)
(***************************************************************************)

(***************************************************************************)
(* Binary Euclid.  h halves as long as it can.                             *)
(***************************************************************************)
HalfStep(p, P) == <<p[1] \div 2, (IF p[2] % 2 = 0 THEN p[2] ELSE p[2] + P) \div 2>>
\* The function that is u halved as long as it is even, x with it.
IsHalved(h, P) ==
  h = [p \in Nat \X Int |-> IF p[1] > 0 /\ p[1] % 2 = 0 THEN h[HalfStep(p, P)] ELSE p]

\* There is such a function.
LEMMA HalvedExists ==
  ASSUME NEW P \in Nat
  PROVE  \E h : IsHalved(h, P)
<1> DEFINE S == Nat \X Int
           stop == {p \in S : ~(p[1] > 0 /\ p[1] % 2 = 0)}
           pass == [p \in S |-> HalfStep(p, P)]
           out == [p \in S |-> p]
<1>1. pass \in [S -> S] /\ out \in [S -> S]
  <2>1. ASSUME NEW p \in S PROVE HalfStep(p, P) \in S
    <3>1. p[1] \in Nat /\ p[2] \in Int
      OBVIOUS
    <3>2. p[1] \div 2 \in Nat /\ p[2] \div 2 \in Int /\ (p[2] + P) \div 2 \in Int
      BY <3>1
    <3> QED
      BY <3>1, <3>2 DEF HalfStep
  <2> QED
    BY <2>1
<1> HIDE DEF pass, out, stop
<1>2. PICK h : IsLoop(h, S, stop, pass, out)
  <2> HIDE DEF S
  <2> QED
    BY <1>1, TailRecursion
<1> DEFINE B(p) == IF p[1] > 0 /\ p[1] % 2 = 0 THEN h[HalfStep(p, P)] ELSE p
<1>3. h = [p \in S |-> h[p]] /\ \A p \in S : h[p] = B(p)
  <2> HIDE DEF S
  <2> QED
    BY <1>2 DEF IsLoop, stop, out, pass
<1>4. h = [p \in S |-> B(p)]
  <2> HIDE DEF S, B
  <2> QED
    BY <1>3
<1> QED
  BY <1>4 DEF IsHalved

\* p is the odd part of u with what has become of x.
OddPart(p, u, x, a, P) ==
  /\ p \in Nat \X Int
  /\ u > 0 => p[1] \in 1 .. u /\ p[1] % 2 = 1
  /\ u % 2 = 1 => p = <<u, x>>
  /\ x \in 0 .. P - 1 => p[2] \in 0 .. P - 1
  /\ Same(x * a, u, P) => Same(p[2] * a, p[1], P)
  /\ \A d \in Nat \ {0} : Divides(d, p[1]) => Divides(d, u)

\* It stays a solution of x * a = u, and ends in an odd u unless that was 0.
LEMMA OddPartIs ==
  ASSUME NEW P, Odd(P), NEW a \in Int, NEW h, IsHalved(h, P)
  PROVE  \A u \in Nat, x \in Int : OddPart(h[<<u, x>>], u, x, a, P)
<1> DEFINE S == {u \in Nat : \A x \in Int : OddPart(h[<<u, x>>], u, x, a, P)}
<1>0. P \in Nat \ {0} /\ P >= 3 /\ P % 2 = 1
  BY DEF Odd
<1>1. ASSUME NEW u \in Nat, \A k \in 0 .. u - 1 : k \in S PROVE u \in S
  <2> SUFFICES ASSUME NEW x \in Int PROVE OddPart(h[<<u, x>>], u, x, a, P)
    OBVIOUS
  <2> DEFINE p == <<u, x>>
  <2>1. p \in Nat \X Int /\ p[1] = u /\ p[2] = x
    OBVIOUS
  <2>2. h[p] = IF p[1] > 0 /\ p[1] % 2 = 0 THEN h[HalfStep(p, P)] ELSE p
    <3> HIDE DEF p
    <3> QED
      BY <2>1 DEF IsHalved
  <2>3. CASE ~(u > 0 /\ u % 2 = 0)
    <3>1. h[<<u, x>>] = <<u, x>>
      BY <2>1, <2>2, <2>3
    <3>2. u > 0 => u \in 1 .. u /\ u % 2 = 1
      BY <2>3
    <3> QED
      BY <3>1, <3>2 DEF OddPart
  <2>4. CASE u > 0 /\ u % 2 = 0
    <3> DEFINE v == u \div 2
               z == IF x % 2 = 0 THEN x ELSE x + P
               y == z \div 2
               q == h[<<v, y>>]
    <3>1. v \in 0 .. u - 1 /\ 2 * v = u /\ v > 0 /\ v \in Nat
      BY <2>4
    <3>2. z \in Int /\ y \in Int /\ 2 * y = z /\ (x \in 0 .. P - 1 => y \in 0 .. P - 1)
      BY <1>0
    <3>3. h[<<u, x>>] = q
      BY <2>1, <2>2, <2>4 DEF HalfStep
    <3>4. Same(2 * (y * a), x * a, P)
      <4>1. CASE x % 2 = 0
        <5>1. 2 * y = x
          BY <3>2, <4>1
        <5> HIDE DEF y
        <5>2. 2 * (y * a) = x * a
          BY <3>2, <5>1
        <5> QED
          BY <5>2, SameAgain
      <4>2. CASE x % 2 # 0
        <5>1. 2 * y = x + P
          BY <3>2, <4>2
        <5> DEFINE b == x * a
        <5>2. b \in Int
          OBVIOUS
        <5> HIDE DEF y
        <5>3. 2 * (y * a) = b + P * a
          <6>1. (2 * y) * a = x * a + P * a
            BY <1>0, <5>1
          <6> QED
            BY <3>2, <6>1
        <5> HIDE DEF b
        <5>4. Same(b + P * a, b, P)
          BY <1>0, <5>2, SameDiffers
        <5> QED
          BY <5>3, <5>4 DEF b
      <4> QED
        BY <4>1, <4>2
    <3> HIDE DEF v, z, y
    <3>5. OddPart(q, v, y, a, P)
      BY <1>1, <3>1, <3>2
    <3> HIDE DEF q
    <3>6. ASSUME Same(x * a, u, P) PROVE Same(y * a, v, P)
      <4> DEFINE b == y * a
      <4>1. b \in Int /\ Same(2 * b, 2 * v, P)
        BY <3>1, <3>2, <3>4, <3>6, SameAgain
      <4> HIDE DEF b
      <4>2. Same(b, v, P)
        BY <1>0, <3>1, <4>1, Halved
      <4> QED
        BY <4>2 DEF b
    <3>7. ASSUME NEW d \in Nat \ {0}, Divides(d, v) PROVE Divides(d, u)
      <4>1. PICK k \in Int : v = d * k
        BY <3>7 DEF Divides
      <4>2. u = d * (2 * k) /\ 2 * k \in Int
        BY <3>1, <4>1
      <4> QED
        BY <4>2 DEF Divides
    <3>8. q \in Nat \X Int /\ q[1] \in 1 .. v /\ q[1] % 2 = 1
          /\ (y \in 0 .. P - 1 => q[2] \in 0 .. P - 1)
          /\ (Same(y * a, v, P) => Same(q[2] * a, q[1], P))
          /\ \A d \in Nat \ {0} : Divides(d, q[1]) => Divides(d, v)
      BY <3>1, <3>5 DEF OddPart
    <3>9. q[1] \in 1 .. u /\ ~(u % 2 = 1)
      BY <2>4, <3>1, <3>8
    <3> QED
      BY <3>2, <3>3, <3>6, <3>7, <3>8, <3>9 DEF OddPart
  <2> QED
    BY <2>3, <2>4
<1>2. Nat \subseteq S
  <2> HIDE DEF S
  <2> QED
    BY <1>1, StrongInduction
<1> QED
  BY <1>2

\* The lesser is taken from the greater.
Subtracted(p, q, P) ==
  IF p[1] >= q[1] THEN <<p[1] - q[1], fe_sub(p[2], q[2], P), q[1], q[2]>>
  ELSE <<p[1], p[2], q[1] - p[1], fe_sub(q[2], p[2], P)>>

Round(h, s, P) == Subtracted(h[<<s[1], s[2]>>], h[<<s[3], s[4]>>], P)

\* The variables of the loop: u, x1, v and x2.
InvStates == Nat \X Int \X Nat \X Int

\* The function that runs the loop to its end.
IsInverter(g, h, P) ==
  g = [s \in InvStates |-> IF s[1] = 1 THEN s[2]
                           ELSE IF s[3] = 1 THEN s[4] ELSE g[Round(h, s, P)]]

\* There is such a function.
LEMMA InverterExists ==
  ASSUME NEW P, Odd(P), NEW h, IsHalved(h, P)
  PROVE  \E g : IsInverter(g, h, P)
<1> DEFINE stop == {s \in InvStates : s[1] = 1 \/ s[3] = 1}
           pass == [s \in InvStates |-> Round(h, s, P)]
           out == [s \in InvStates |-> IF s[1] = 1 THEN s[2] ELSE s[4]]
<1>1. pass \in [InvStates -> InvStates] /\ out \in [InvStates -> Int]
  <2>1. ASSUME NEW s \in InvStates
        PROVE  Round(h, s, P) \in InvStates /\ s[2] \in Int /\ s[4] \in Int
    <3>1. s[1] \in Nat /\ s[2] \in Int /\ s[3] \in Nat /\ s[4] \in Int /\ P \in Int
      BY DEF InvStates, Odd
    <3> DEFINE p == h[<<s[1], s[2]>>]
               q == h[<<s[3], s[4]>>]
    <3>2. p \in Nat \X Int /\ q \in Nat \X Int
      <4> DEFINE n == 0
      <4>0. n \in Int
        OBVIOUS
      <4> HIDE DEF n
      <4>1. \A u \in Nat, x \in Int : OddPart(h[<<u, x>>], u, x, n, P)
        BY <4>0, OddPartIs
      <4> QED
        BY <3>1, <4>1 DEF OddPart
    <3>3. Round(h, s, P) = Subtracted(p, q, P)
      BY DEF Round
    <3> HIDE DEF p, q
    <3>4. p[1] \in Nat /\ p[2] \in Int /\ q[1] \in Nat /\ q[2] \in Int
      BY <3>2
    <3>5. fe_sub(p[2], q[2], P) \in Int /\ fe_sub(q[2], p[2], P) \in Int
      BY <3>1, <3>4 DEF fe_sub
    <3>6. CASE p[1] >= q[1]
      <4>1. p[1] - q[1] \in Nat
        BY <3>4, <3>6
      <4> QED
        BY <3>1, <3>3, <3>4, <3>5, <3>6, <4>1 DEF Subtracted, InvStates
    <3>7. CASE ~(p[1] >= q[1])
      <4>1. q[1] - p[1] \in Nat
        BY <3>4, <3>7
      <4> QED
        BY <3>1, <3>3, <3>4, <3>5, <3>7, <4>1 DEF Subtracted, InvStates
    <3> QED
      BY <3>6, <3>7, <3>1
  <2> HIDE DEF InvStates
  <2> QED
    BY <2>1
<1> HIDE DEF stop, pass, out
<1>2. PICK g : IsLoop(g, InvStates, stop, pass, out)
  <2> HIDE DEF InvStates
  <2> QED
    BY <1>1, TailRecursion
<1> DEFINE B(s) == IF s[1] = 1 THEN s[2] ELSE IF s[3] = 1 THEN s[4] ELSE g[Round(h, s, P)]
<1>3. g = [s \in InvStates |-> g[s]] /\ \A s \in InvStates : g[s] = B(s)
  <2> HIDE DEF InvStates
  <2> QED
    BY <1>2 DEF IsLoop, stop, out, pass
<1>4. g = [s \in InvStates |-> B(s)]
  <2> HIDE DEF InvStates, B
  <2> QED
    BY <1>3
<1> QED
  BY <1>4 DEF IsInverter

\* What holds of <<u, x1, v, x2>>.
Euclid(s, a, P) ==
  /\ s \in InvStates /\ s[1] > 0 /\ s[3] > 0
  /\ s[2] \in 0 .. P - 1 /\ s[4] \in 0 .. P - 1
  /\ Same(s[2] * a, s[1], P) /\ Same(s[4] * a, s[3], P)
  /\ Coprime(s[1], s[3])

\* A difference modulo P.
LEMMA SubtractionIs ==
  ASSUME NEW P \in Nat \ {0}, NEW a \in Int, NEW x \in 0 .. P - 1, NEW y \in 0 .. P - 1,
         NEW u \in Int, NEW v \in Int, Same(x * a, u, P), Same(y * a, v, P)
  PROVE  fe_sub(x, y, P) \in 0 .. P - 1 /\ Same(fe_sub(x, y, P) * a, u - v, P)
<1> DEFINE d == fe_sub(x, y, P)
           b == x * a
           c == y * a
           w == -v
           e == -c
           m == b + e
<1>1. d \in 0 .. P - 1 /\ d \in Int
  BY DEF fe_sub
<1>2. b \in Int /\ c \in Int /\ w \in Int /\ e \in Int /\ m \in Int /\ u + w = u - v
  OBVIOUS
<1>3. Same(d * a, m, P)
  <2>1. CASE y > x
    <3>1. d * a = m + P * a
      BY <2>1 DEF fe_sub
    <3> HIDE DEF m
    <3>2. Same(m + P * a, m, P)
      BY <1>2, SameDiffers
    <3> QED
      BY <3>1, <3>2
  <2>2. CASE ~(y > x)
    <3>1. d * a = m
      BY <2>2 DEF fe_sub
    <3> QED
      BY <3>1, SameAgain
  <2> QED
    BY <2>1, <2>2
<1>4. Same(b, u, P) /\ Same(c, v, P)
  OBVIOUS
<1> DEFINE n == -1
<1>5. n * c = e /\ n * v = w /\ n \in Int
  BY <1>2
<1> HIDE DEF b, c, e, w, d, n
<1>6. Same(n * c, n * v, P)
  BY <1>2, <1>4, <1>5, SameProduct
<1>7. Same(e, w, P)
  BY <1>5, <1>6
<1>8. Same(b + e, u + e, P) /\ Same(e + u, w + u, P) /\ e + u = u + e /\ w + u = u + w
  <2>1. Same(b + e, u + e, P)
    BY <1>2, <1>4, SameProduct
  <2>2. Same(e + u, w + u, P)
    BY <1>2, <1>7, SameProduct
  <2> QED
    BY <1>2, <2>1, <2>2
<1>9. Same(b + e, u + w, P)
  BY <1>8, SameAgain
<1> QED
  BY <1>1, <1>2, <1>3, <1>9, SameAgain DEF d, m

\* A round makes u + v less.
LEMMA RoundIs ==
  ASSUME NEW P, Odd(P), NEW a \in Int, NEW h, IsHalved(h, P),
         NEW s, Euclid(s, a, P), s[1] # 1, s[3] # 1
  PROVE  /\ Euclid(Round(h, s, P), a, P)
         /\ Round(h, s, P)[1] + Round(h, s, P)[3] < s[1] + s[3]
<1> DEFINE u == s[1]
           v == s[3]
           p == h[<<u, s[2]>>]
           q == h[<<v, s[4]>>]
           t == Round(h, s, P)
<1>0. P \in Nat \ {0} /\ P >= 3
  BY DEF Odd
<1>1. /\ u \in Nat /\ u > 0 /\ v \in Nat /\ v > 0 /\ s[2] \in 0 .. P - 1 /\ s[4] \in 0 .. P - 1
      /\ s[2] \in Int /\ s[4] \in Int
      /\ Same(s[2] * a, u, P) /\ Same(s[4] * a, v, P) /\ Coprime(u, v) /\ u # 1 /\ v # 1
  BY <1>0 DEF Euclid, InvStates
<1>2. t = Subtracted(p, q, P)
  BY DEF Round
<1>3. OddPart(p, u, s[2], a, P) /\ OddPart(q, v, s[4], a, P)
  BY <1>1, OddPartIs
<1> HIDE DEF u, v, p, q
<1>4. /\ p \in Nat \X Int /\ p[1] \in 1 .. u /\ p[2] \in 0 .. P - 1 /\ Same(p[2] * a, p[1], P)
      /\ (u % 2 = 1 => p[1] = u)
      /\ \A d \in Nat \ {0} : Divides(d, p[1]) => Divides(d, u)
  BY <1>1, <1>3 DEF OddPart
<1>5. /\ q \in Nat \X Int /\ q[1] \in 1 .. v /\ q[2] \in 0 .. P - 1 /\ Same(q[2] * a, q[1], P)
      /\ (v % 2 = 1 => q[1] = v)
      /\ \A d \in Nat \ {0} : Divides(d, q[1]) => Divides(d, v)
  BY <1>1, <1>3 DEF OddPart
<1>6. p[1] \in Int /\ q[1] \in Int /\ p[1] \in Nat /\ q[1] \in Nat
  BY <1>4, <1>5
<1>7. p[1] # q[1]
  <2> SUFFICES ASSUME p[1] = q[1] PROVE FALSE
    OBVIOUS
  <2>1. p[1] = 1
    <3>1. Divides(p[1], p[1]) /\ p[1] \in Nat \ {0}
      <4>1. p[1] = p[1] * 1
        BY <1>6
      <4> QED
        BY <1>4, <4>1 DEF Divides
    <3> QED
      BY <1>1, <1>4, <1>5, <3>1 DEF Coprime
  <2>2. u % 2 = 0 /\ v % 2 = 0
    BY <1>1, <1>4, <1>5, <2>1
  <2>3. u = 2 * (u \div 2) /\ v = 2 * (v \div 2) /\ u \div 2 \in Int /\ v \div 2 \in Int
    BY <1>1, <2>2
  <2>4. Divides(2, u) /\ Divides(2, v) /\ 2 \in Nat \ {0}
    BY <2>3 DEF Divides
  <2> QED
    BY <1>1, <2>4 DEF Coprime
<1>8. CASE p[1] > q[1]
  <2> DEFINE w == p[1] - q[1]
  <2>1. t = <<w, fe_sub(p[2], q[2], P), q[1], q[2]>>
    BY <1>2, <1>6, <1>8 DEF Subtracted
  <2>2. fe_sub(p[2], q[2], P) \in 0 .. P - 1 /\ Same(fe_sub(p[2], q[2], P) * a, w, P)
    BY <1>0, <1>4, <1>5, <1>6, SubtractionIs
  <2>3. w \in Nat /\ w > 0 /\ w + q[1] < u + v
    BY <1>1, <1>4, <1>5, <1>6, <1>8
  <2>4. Coprime(w, q[1])
    <3>1. ASSUME NEW d \in Nat \ {0}, Divides(d, w), Divides(d, q[1]) PROVE d = 1
      <4>1. PICK k \in Int : w = d * k
        BY <3>1 DEF Divides
      <4>2. PICK l \in Int : q[1] = d * l
        BY <3>1 DEF Divides
      <4>3. p[1] = d * (k + l) /\ k + l \in Int
        BY <1>6, <4>1, <4>2
      <4>4. Divides(d, p[1])
        BY <4>3 DEF Divides
      <4> QED
        BY <1>1, <1>4, <1>5, <3>1, <4>4 DEF Coprime
    <3> QED
      BY <3>1 DEF Coprime
  <2> HIDE DEF w, t
  <2>5. t[1] = w /\ t[2] = fe_sub(p[2], q[2], P) /\ t[3] = q[1] /\ t[4] = q[2]
    BY <2>1
  <2>6. t \in InvStates
    BY <1>0, <1>5, <2>1, <2>2, <2>3 DEF InvStates
  <2>7. Euclid(t, a, P)
    BY <1>5, <2>2, <2>3, <2>4, <2>5, <2>6 DEF Euclid
  <2> QED
    BY <2>3, <2>5, <2>7 DEF t, u, v
<1>9. CASE p[1] < q[1]
  <2> DEFINE w == q[1] - p[1]
  <2>1. t = <<p[1], p[2], w, fe_sub(q[2], p[2], P)>>
    BY <1>2, <1>6, <1>9 DEF Subtracted
  <2>2. fe_sub(q[2], p[2], P) \in 0 .. P - 1 /\ Same(fe_sub(q[2], p[2], P) * a, w, P)
    BY <1>0, <1>4, <1>5, <1>6, SubtractionIs
  <2>3. w \in Nat /\ w > 0 /\ p[1] + w < u + v
    BY <1>1, <1>4, <1>5, <1>6, <1>9
  <2>4. Coprime(p[1], w)
    <3>1. ASSUME NEW d \in Nat \ {0}, Divides(d, w), Divides(d, p[1]) PROVE d = 1
      <4>1. PICK k \in Int : w = d * k
        BY <3>1 DEF Divides
      <4>2. PICK l \in Int : p[1] = d * l
        BY <3>1 DEF Divides
      <4>3. q[1] = d * (k + l) /\ k + l \in Int
        BY <1>6, <4>1, <4>2
      <4>4. Divides(d, q[1])
        BY <4>3 DEF Divides
      <4> QED
        BY <1>1, <1>4, <1>5, <3>1, <4>4 DEF Coprime
    <3> QED
      BY <3>1 DEF Coprime
  <2> HIDE DEF w, t
  <2>5. t[1] = p[1] /\ t[2] = p[2] /\ t[3] = w /\ t[4] = fe_sub(q[2], p[2], P)
    BY <2>1
  <2>6. t \in InvStates
    BY <1>0, <1>4, <2>1, <2>2, <2>3 DEF InvStates
  <2>7. Euclid(t, a, P)
    BY <1>4, <2>2, <2>3, <2>4, <2>5, <2>6 DEF Euclid
  <2> QED
    BY <2>3, <2>5, <2>7 DEF t, u, v
<1> QED
  BY <1>6, <1>7, <1>8, <1>9

\* It ends, with an inverse.
LEMMA InverterIs ==
  ASSUME NEW P, Odd(P), NEW a \in Int, NEW h, IsHalved(h, P), NEW g, IsInverter(g, h, P),
         NEW s, Euclid(s, a, P)
  PROVE  g[s] \in 0 .. P - 1 /\ Same(g[s] * a, 1, P)
<1> DEFINE Good(z) == g[z] \in 0 .. P - 1 /\ Same(g[z] * a, 1, P)
           S == {n \in Nat : \A z : Euclid(z, a, P) /\ z[1] + z[3] = n => Good(z)}
<1>1. ASSUME NEW n \in Nat, \A k \in 0 .. n - 1 : k \in S PROVE n \in S
  <2> SUFFICES ASSUME NEW z, Euclid(z, a, P), z[1] + z[3] = n PROVE Good(z)
    OBVIOUS
  <2>1. /\ z \in InvStates /\ z[2] \in 0 .. P - 1 /\ z[4] \in 0 .. P - 1
        /\ Same(z[2] * a, z[1], P) /\ Same(z[4] * a, z[3], P)
    BY DEF Euclid
  <2>2. g[z] = IF z[1] = 1 THEN z[2] ELSE IF z[3] = 1 THEN z[4] ELSE g[Round(h, z, P)]
    <3> HIDE DEF InvStates
    <3> QED
      BY <2>1 DEF IsInverter
  <2>3. CASE z[1] = 1 \/ z[3] = 1
    BY <2>1, <2>2, <2>3
  <2>4. CASE z[1] # 1 /\ z[3] # 1
    <3> DEFINE t == Round(h, z, P)
    <3>1. Euclid(t, a, P) /\ t[1] + t[3] < z[1] + z[3]
      BY <2>4, RoundIs
    <3>2. g[z] = g[t]
      BY <2>2, <2>4
    <3> HIDE DEF t
    <3>3. t[1] + t[3] \in 0 .. n - 1
      BY <3>1 DEF Euclid, InvStates
    <3>4. Good(t)
      BY <1>1, <3>1, <3>3
    <3> QED
      BY <3>2, <3>4
  <2> QED
    BY <2>3, <2>4
<1>2. Nat \subseteq S
  <2> HIDE DEF S
  <2> QED
    BY <1>1, StrongInduction
<1>3. s[1] + s[3] \in Nat
  BY DEF Euclid, InvStates
<1> QED
  BY <1>2, <1>3

\* redun_mont_pkg.sv, fe_inv: it inverts whatever has no divisor in common with P.
LEMMA FeInvIs ==
  ASSUME NEW P, Odd(P), NEW a \in 0 .. P - 1, Coprime(P, a)
  PROVE  fe_inv(a, P) \in 0 .. P - 1 /\ Same(fe_inv(a, P) * a, 1, P)
<1> DEFINE h == CHOOSE h : IsHalved(h, P)
           g == CHOOSE g : IsInverter(g, h, P)
           s == <<a, 1, P, 0>>
<1>1. P \in Nat /\ P >= 3 /\ P \in Nat \ {0} /\ a \in Int
  BY DEF Odd
<1>2. fe_inv(a, P) = g[s]
  BY DEF fe_inv, IsInverter, IsHalved, HalfStep, Round, Subtracted, InvStates
<1>3. IsHalved(h, P)
  BY <1>1, HalvedExists
<1> HIDE DEF h
<1>4. IsInverter(g, h, P)
  BY <1>3, InverterExists
<1> HIDE DEF g
<1>5. a # 0
  <2> SUFFICES ASSUME a = 0 PROVE FALSE
    OBVIOUS
  <2>1. P = P * 1 /\ a = P * 0
    BY <1>1
  <2>2. Divides(P, P) /\ Divides(P, a)
    BY <2>1 DEF Divides
  <2> QED
    BY <1>1, <2>2 DEF Coprime
<1>6. Euclid(s, a, P)
  <2>1. s \in InvStates /\ s[1] = a /\ s[2] = 1 /\ s[3] = P /\ s[4] = 0
    BY <1>1 DEF InvStates
  <2>2. Same(1 * a, a, P)
    <3>1. 1 * a = a
      OBVIOUS
    <3> QED
      BY <3>1, SameAgain
  <2>3. Same(0 * a, P, P)
    <3>1. 0 * a = 0 /\ P = P * 1 /\ 0 % P = 0
      BY <1>1
    <3>2. P % P = 0
      BY <1>1, <3>1, MultipleIs
    <3> QED
      BY <3>1, <3>2 DEF Same
  <2>4. Coprime(a, P)
    BY DEF Coprime
  <2> HIDE DEF s
  <2> QED
    BY <1>1, <1>5, <2>1, <2>2, <2>3, <2>4 DEF Euclid
<1> HIDE DEF s
<1> QED
  BY <1>1, <1>2, <1>3, <1>4, <1>6, InverterIs

(***************************************************************************)
(* Plain Euclid.                                                           *)
(***************************************************************************)
Rows == Nat \X Nat \X Int \X Int

Divide(s) == <<s[2], s[1] % s[2], s[4], s[3] - (s[1] \div s[2]) * s[4]>>

\* The function that runs the loop to its end.
IsReciprocal(g, P) ==
  g = [s \in Rows |-> IF s[2] # 0 THEN g[Divide(s)]
                      ELSE IF s[1] = 1 THEN s[3] % P ELSE "none"]

\* There is such a function.
LEMMA ReciprocalExists ==
  ASSUME NEW P \in Nat \ {0}
  PROVE  \E g : IsReciprocal(g, P)
<1> DEFINE stop == {s \in Rows : s[2] = 0}
           pass == [s \in Rows |-> IF s[2] # 0 THEN Divide(s) ELSE s]
           End(s) == IF s[1] = 1 THEN s[3] % P ELSE "none"
           out == [s \in Rows |-> End(s)]
           T == {End(s) : s \in Rows}
<1>1. pass \in [Rows -> Rows] /\ out \in [Rows -> T]
  <2>1. ASSUME NEW s \in Rows, s[2] # 0 PROVE Divide(s) \in Rows
    <3>1. s[1] \in Nat /\ s[2] \in Nat \ {0} /\ s[3] \in Int /\ s[4] \in Int
      BY <2>1 DEF Rows
    <3> DEFINE q == s[1] \div s[2]
               r == s[1] % s[2]
    <3>2. q \in Int /\ r \in Nat
      BY <3>1
    <3>3. Divide(s) = <<s[2], r, s[4], s[3] - q * s[4]>>
      BY DEF Divide
    <3> HIDE DEF q, r
    <3>4. s[3] - q * s[4] \in Int
      BY <3>1, <3>2
    <3> QED
      BY <3>1, <3>2, <3>3, <3>4 DEF Rows
  <2> HIDE DEF Rows, End
  <2> QED
    BY <2>1
<1> HIDE DEF stop, pass, out, T
<1>2. PICK g : IsLoop(g, Rows, stop, pass, out)
  <2> HIDE DEF Rows
  <2> QED
    BY <1>1, TailRecursion
<1> DEFINE B(s) == IF s[2] # 0 THEN g[Divide(s)] ELSE End(s)
<1>3. g = [s \in Rows |-> g[s]] /\ \A s \in Rows : g[s] = B(s)
  <2> HIDE DEF Rows, End
  <2> QED
    BY <1>2 DEF IsLoop, stop, out, pass
<1>4. g = [s \in Rows |-> B(s)]
  <2> HIDE DEF Rows, B
  <2> QED
    BY <1>3
<1> QED
  BY <1>4 DEF IsReciprocal

\* What holds of <<x, y, a, b>>; c is to be inverted.
Row(s, c, P) ==
  /\ s \in Rows /\ s[1] > 0
  /\ Same(s[3] * c, s[1], P) /\ Same(s[4] * c, s[2], P)
  /\ Coprime(s[1], s[2])

\* A division keeps the row's equations, and its second number gets less.
LEMMA DivideIs ==
  ASSUME NEW P \in Nat \ {0}, NEW c \in Int, NEW s, Row(s, c, P), s[2] # 0
  PROVE  Row(Divide(s), c, P) /\ Divide(s)[2] < s[2]
<1> DEFINE x == s[1]
           y == s[2]
           a == s[3]
           b == s[4]
           q == x \div y
           r == x % y
           t == Divide(s)
           e == a - q * b
<1>1. /\ x \in Nat /\ y \in Nat \ {0} /\ a \in Int /\ b \in Int
      /\ Same(a * c, x, P) /\ Same(b * c, y, P) /\ Coprime(x, y)
  BY DEF Row, Rows
<1>2. t = <<y, r, b, e>>
  BY DEF Divide
<1> HIDE DEF x, y, a, b, t
<1>3. x = y * q + r /\ r \in 0 .. y - 1 /\ q \in Int
  <2>1. x \in Int
    BY <1>1
  <2>2. x = y * (x \div y) + (x % y) /\ x % y \in 0 .. y - 1 /\ x \div y \in Int
    BY <1>1, <2>1, Divided
  <2> QED
    BY <2>2
<1> HIDE DEF q, r
<1>4. e \in Int /\ r \in Nat
  BY <1>1, <1>3
<1>5. Same(e * c, r, P)
  <2> DEFINE n == -q
             f == a * c
             g == b * c
             k == n * g
             l == n * y
  <2>1. n \in Int /\ f \in Int /\ g \in Int /\ k \in Int /\ l \in Int
    BY <1>1, <1>3
  <2>2. e * c = f + k
    BY <1>1, <1>3
  <2>3. r = x + l
    BY <1>1, <1>3
  <2>4. Same(f, x, P) /\ Same(g, y, P) /\ x \in Int /\ y \in Int
    BY <1>1
  <2> HIDE DEF n, f, g
  <2>5. Same(n * g, n * y, P)
    BY <2>1, <2>4, SameProduct
  <2>6. Same(k, l, P)
    BY <2>5
  <2> HIDE DEF k, l
  <2>7. Same(f + k, x + k, P)
    BY <2>1, <2>4, SameProduct
  <2>8. Same(k + x, l + x, P)
    BY <2>1, <2>4, <2>6, SameProduct
  <2>9. k + x = x + k /\ l + x = x + l
    BY <2>1, <2>4
  <2> QED
    BY <2>2, <2>3, <2>7, <2>8, <2>9, SameAgain
<1>6. Coprime(y, r)
  <2>1. ASSUME NEW d \in Nat \ {0}, Divides(d, y), Divides(d, r) PROVE d = 1
    <3>1. PICK k \in Int : y = d * k
      BY <2>1 DEF Divides
    <3>2. PICK l \in Int : r = d * l
      BY <2>1 DEF Divides
    <3>3. x = d * (k * q + l) /\ k * q + l \in Int
      BY <1>3, <3>1, <3>2
    <3>4. Divides(d, x)
      BY <3>3 DEF Divides
    <3> QED
      BY <1>1, <2>1, <3>4 DEF Coprime
  <2> QED
    BY <2>1 DEF Coprime
<1> HIDE DEF e
<1>7. t[1] = y /\ t[2] = r /\ t[3] = b /\ t[4] = e /\ t \in Rows
  BY <1>1, <1>2, <1>4 DEF Rows
<1>8. Row(t, c, P)
  BY <1>1, <1>5, <1>6, <1>7 DEF Row
<1> QED
  BY <1>1, <1>3, <1>7, <1>8 DEF t, y

\* mont.py, reciprocal_mod: it finds an inverse of what has no divisor in common.
LEMMA ReciprocalIs ==
  ASSUME NEW P \in Nat \ {0}, NEW c \in Nat, Coprime(P, c)
  PROVE  reciprocal_mod(c, P) \in 0 .. P - 1 /\ Same(reciprocal_mod(c, P) * c, 1, P)
<1> DEFINE g == CHOOSE g : IsReciprocal(g, P)
           s == <<P, c, 0, 1>>
           Good(z) == g[z] \in 0 .. P - 1 /\ Same(g[z] * c, 1, P)
           S == {n \in Nat : \A z : Row(z, c, P) /\ z[2] = n => Good(z)}
<1>1. reciprocal_mod(c, P) = g[s]
  BY DEF reciprocal_mod, IsReciprocal, Divide, Rows
<1>2. IsReciprocal(g, P)
  BY ReciprocalExists
<1> HIDE DEF g
<1>3. ASSUME NEW n \in Nat, \A k \in 0 .. n - 1 : k \in S PROVE n \in S
  <2> SUFFICES ASSUME NEW z, Row(z, c, P), z[2] = n PROVE Good(z)
    OBVIOUS
  <2>1. z \in Rows /\ z[1] \in Nat /\ z[2] \in Nat /\ z[3] \in Int /\ z[1] > 0
    BY DEF Row, Rows
  <2>2. g[z] = IF z[2] # 0 THEN g[Divide(z)] ELSE IF z[1] = 1 THEN z[3] % P ELSE "none"
    <3> HIDE DEF Rows
    <3> QED
      BY <2>1, <1>2 DEF IsReciprocal
  <2>3. CASE z[2] = 0
    <3>1. z[1] = 1
      <4>1. Divides(z[1], z[1]) /\ Divides(z[1], z[2])
        <5>1. z[1] = z[1] * 1 /\ z[2] = z[1] * 0
          BY <2>1, <2>3
        <5> QED
          BY <5>1 DEF Divides
      <4> QED
        BY <2>1, <4>1 DEF Row, Coprime
    <3> DEFINE a == z[3]
               r == a % P
    <3>2. g[z] = r /\ Same(a * c, 1, P) /\ a \in Int
      BY <2>1, <2>2, <2>3, <3>1 DEF Row
    <3>3. Same(a % P, a, P) /\ a % P \in 0 .. P - 1
      <4> HIDE DEF a
      <4> QED
        BY <3>2, SameRemainder
    <3> HIDE DEF a
    <3>4. Same(r, a, P) /\ r \in 0 .. P - 1 /\ r \in Int
      BY <3>3
    <3> HIDE DEF r
    <3>5. Same(r * c, a * c, P)
      BY <3>2, <3>4, SameProduct
    <3>6. Same(r * c, 1, P)
      BY <3>2, <3>5, SameAgain
    <3> QED
      BY <3>2, <3>4, <3>6
  <2>4. CASE z[2] # 0
    <3> DEFINE t == Divide(z)
    <3>1. Row(t, c, P) /\ t[2] < z[2]
      BY <2>4, DivideIs
    <3>2. g[z] = g[t]
      BY <2>2, <2>4
    <3> HIDE DEF t
    <3>3. t[2] \in 0 .. n - 1
      BY <3>1 DEF Row, Rows
    <3>4. Good(t)
      BY <1>3, <3>1, <3>3
    <3> QED
      BY <3>2, <3>4
  <2> QED
    BY <2>3, <2>4
<1>4. Nat \subseteq S
  <2> HIDE DEF S
  <2> QED
    BY <1>3, StrongInduction
<1>5. Row(s, c, P)
  <2>1. s \in Rows /\ s[1] = P /\ s[2] = c /\ s[3] = 0 /\ s[4] = 1
    BY DEF Rows
  <2>2. Same(1 * c, c, P)
    <3>1. 1 * c = c
      OBVIOUS
    <3> QED
      BY <3>1, SameAgain
  <2>3. Same(0 * c, P, P)
    <3>1. 0 * c = 0 /\ P = P * 1 /\ 0 % P = 0
      OBVIOUS
    <3>2. P % P = 0
      BY <3>1, MultipleIs
    <3> QED
      BY <3>1, <3>2 DEF Same
  <2> HIDE DEF s
  <2> QED
    BY <2>1, <2>2, <2>3 DEF Row
<1>6. s[2] = c /\ c \in Nat
  OBVIOUS
<1> HIDE DEF s
<1> QED
  BY <1>1, <1>4, <1>5, <1>6

\* The three inverses of the radix are one, and so are the factors made of them.
THEOREM FactorsAgree ==
  ASSUME NEW P, Odd(P)
  PROVE  /\ fe_inv(reducer % P, P) = InverseOf(P)
         /\ reciprocal_mod(reducer % P, P) = InverseOf(P)
         /\ calculate_mont_factor(P) = Factor(P)
         /\ Mont(P).factor = Factor(P) /\ mont_init(P).factor = Factor(P)
<1> DEFINE c == reducer % P
           u == InverseOf(P)
<1>1. P \in Nat \ {0} /\ reducer \in Int
  BY Radix DEF Odd
<1>2. Same(c, reducer, P) /\ c \in 0 .. P - 1 /\ c \in Nat /\ c \in Int
  <2>1. Same(reducer % P, reducer, P) /\ reducer % P \in 0 .. P - 1
    BY <1>1, SameRemainder
  <2> QED
    BY <1>1, <2>1
<1> HIDE DEF c
<1>3. u \in 0 .. P - 1 /\ u \in Int /\ Same(u * reducer, 1, P)
  BY <1>1, InverseIs
<1> HIDE DEF u
<1>4. Same(u * c, 1, P)
  <2>1. Same(u * c, u * reducer, P)
    BY <1>1, <1>2, <1>3, SameProduct
  <2> QED
    BY <1>3, <2>1, SameAgain
<1>5. Coprime(P, c)
  BY <1>2, <1>3, <1>4, UnitIsCoprime
<1>6. fe_inv(c, P) = u
  <2> DEFINE v == fe_inv(c, P)
  <2>1. v \in 0 .. P - 1 /\ Same(v * c, 1, P)
    BY <1>2, <1>5, FeInvIs
  <2> HIDE DEF v
  <2>2. v = u
    BY <1>1, <1>2, <1>3, <1>4, <2>1, InverseIsUnique
  <2> QED
    BY <2>2 DEF v
<1>7. reciprocal_mod(c, P) = u
  <2> DEFINE v == reciprocal_mod(c, P)
  <2>1. v \in 0 .. P - 1 /\ Same(v * c, 1, P)
    BY <1>1, <1>2, <1>5, ReciprocalIs
  <2> HIDE DEF v
  <2>2. v = u
    BY <1>1, <1>2, <1>3, <1>4, <2>1, InverseIsUnique
  <2> QED
    BY <2>2 DEF v
<1>8. calculate_mont_factor(P) = Factor(P) /\ Mont(P).factor = Factor(P)
  BY <1>6, <1>7 DEF calculate_mont_factor, Mont, Factor, u, c
<1> QED
  BY <1>6, <1>7, <1>8, FactorIs DEF u, c

-----------------------------------------------------------------------------
(***************************************************************************)
(* Words and weights.                                                      *)
(***************************************************************************)
\* The words' weights are powers of 2, and the radix is one word above the last.
LEMMA WordsAre ==
  /\ NUM_WRDS \in Nat \ {0} /\ 2^WRD_BITS \in Nat \ {0} /\ 2^(WRD_BITS + 1) \in Nat \ {0}
  /\ \A k \in 1 .. NUM_WRDS : 2^(WRD_BITS * (k - 1)) \in Nat \ {0}
  /\ reducer = 2^(WRD_BITS * (NUM_WRDS - 1)) * 2^WRD_BITS
<1> DEFINE W == WRD_BITS
           n == NUM_WRDS
<1>1. W \in Nat \ {0} /\ n \in Nat \ {0} /\ reducerbits = n * W /\ reducerbits \in Nat
  BY JobAssumption
<1>2. ASSUME NEW k \in 1 .. n PROVE W * (k - 1) \in Nat /\ W * (k - 1) + W <= reducerbits
  <2>1. k - 1 \in Nat /\ n - k \in Nat
    BY <1>1
  <2> DEFINE j == k - 1
             l == n - k
  <2>2. j \in Nat /\ l \in Nat /\ n = (j + 1) + l
    BY <1>1, <2>1
  <2> HIDE DEF j, l
  <2>3. n * W = W * j + W + W * l /\ W * j \in Nat /\ W * l \in Nat
    BY <1>1, <2>2
  <2>4. W * j \in Nat /\ W * j + W <= reducerbits
    BY <1>1, <2>3
  <2> QED
    BY <2>4 DEF j
<1>3. W \in 0 .. reducerbits /\ W * (n - 1) \in Nat /\ W * (n - 1) + W = reducerbits
  <2>1. n \in 1 .. n /\ W * (n - 1) = n * W - W
    BY <1>1
  <2>2. W * (n - 1) \in Nat /\ W * (n - 1) + W <= reducerbits
    BY <1>2, <2>1
  <2> QED
    BY <1>1, <2>1, <2>2
<1>4. \A k \in 1 .. n : W * (k - 1) \in 0 .. reducerbits
  <2> TAKE k \in 1 .. n
  <2> DEFINE z == W * (k - 1)
  <2>1. z \in Nat /\ z + W <= reducerbits
    BY <1>2
  <2> HIDE DEF z
  <2>2. z \in 0 .. reducerbits
    BY <1>1, <2>1
  <2> QED
    BY <2>2 DEF z
<1>5. \A k \in 1 .. n : 2^(W * (k - 1)) \in Nat \ {0}
  BY <1>4, PowerIs
<1>6. 2^W \in Nat \ {0} /\ 2^(W + 1) \in Nat \ {0}
  BY <1>3, PowerIs
<1>7. 2^reducerbits = 2^(W * (n - 1)) * 2^W
  <2> DEFINE z == W * (n - 1)
  <2>1. z \in Nat /\ z + W = reducerbits /\ W \in Nat
    BY <1>1, <1>3
  <2> HIDE DEF z
  <2>2. z + W <= Top
    BY <1>1, <2>1, PowerIs
  <2>3. 2^(z + W) = 2^z * 2^W
    BY <2>1, <2>2, PowerOfSum
  <2> QED
    BY <2>1, <2>3 DEF z
<1> QED
  BY <1>1, <1>5, <1>6, <1>7 DEF reducer

\* The weight of a word.
WordWeight(k) == 2^(WRD_BITS * (k - 1))

\* g adds up the words, whatever lies above.
Sums(g, words) ==
  g = [k \in 0 .. NUM_WRDS |-> IF k = 0 THEN 0 ELSE g[k - 1] + words[k] * 2^(WRD_BITS * (k - 1))]

\* The sums, step by step.
LEMMA SumsAre ==
  ASSUME NEW words, NEW g, Sums(g, words)
  PROVE  g[0] = 0 /\ \A k \in 1 .. NUM_WRDS : g[k] = g[k - 1] + words[k] * WordWeight(k)
<1>1. NUM_WRDS \in Nat
  BY WordsAre
<1>2. \A k \in 0 .. NUM_WRDS :
        g[k] = IF k = 0 THEN 0 ELSE g[k - 1] + words[k] * 2^(WRD_BITS * (k - 1))
  BY DEF Sums
<1> QED
  BY <1>1, <1>2 DEF WordWeight

\* There are such sums.
LEMMA SumsExist ==
  ASSUME NEW words \in [1 .. NUM_WRDS -> Nat]
  PROVE  \E g \in [0 .. NUM_WRDS -> Nat] : Sums(g, words)
<1> DEFINE Added(k) == IF k \in 1 .. NUM_WRDS THEN words[k] * WordWeight(k) ELSE 0
           h == [s \in Nat \X Nat |-> s[2] + Added(s[1])]
           p == [k \in Nat |-> IF k = 0 THEN 0 ELSE k - 1]
<1>1. NUM_WRDS \in Nat /\ \A k \in Nat : Added(k) \in Nat
  <2>1. ASSUME NEW k \in 1 .. NUM_WRDS PROVE words[k] * WordWeight(k) \in Nat
    <3>1. words[k] \in Nat /\ WordWeight(k) \in Nat
      BY WordsAre DEF WordWeight
    <3> QED
      BY <3>1
  <2> QED
    BY <2>1, WordsAre
<1> HIDE DEF Added
<1>2. h \in [Nat \X Nat -> Nat] /\ \A k, x \in Nat : h[<<k, x>>] = x + Added(k)
  <2>1. ASSUME NEW s \in Nat \X Nat PROVE s[2] + Added(s[1]) \in Nat
    <3>1. s[1] \in Nat /\ s[2] \in Nat
      OBVIOUS
    <3>2. Added(s[1]) \in Nat
      BY <1>1, <3>1
    <3> QED
      BY <3>1, <3>2
  <2>2. \A k, x \in Nat : h[<<k, x>>] = x + Added(k)
    OBVIOUS
  <2> QED
    BY <2>1, <2>2
<1>3. Decreasing(p) /\ \A k \in 1 .. NUM_WRDS : p[k] = k - 1
  BY <1>1 DEF Decreasing
<1> HIDE DEF h, p
<1>4. PICK g \in [0 .. NUM_WRDS -> Nat] : Defines(g, 0, h, p, NUM_WRDS)
  <2> DEFINE a == 0
  <2>1. a \in Nat
    OBVIOUS
  <2> HIDE DEF a
  <2>2. \E g \in [0 .. NUM_WRDS -> Nat] : Defines(g, a, h, p, NUM_WRDS)
    BY <1>1, <1>2, <1>3, <2>1, Recursion
  <2> QED
    BY <2>2 DEF a
<1>5. ASSUME NEW k \in 0 .. NUM_WRDS
      PROVE  g[k] = IF k = 0 THEN 0 ELSE g[k - 1] + words[k] * 2^(WRD_BITS * (k - 1))
  <2>1. CASE k = 0
    BY <1>4, <2>1 DEF Defines
  <2>2. CASE k # 0
    <3>1. k \in 1 .. NUM_WRDS /\ k \in Nat /\ k - 1 \in 0 .. NUM_WRDS
      BY <1>1, <2>2
    <3>2. g[k] = h[<<k, g[k - 1]>>] /\ g[k - 1] \in Nat
      BY <1>3, <1>4, <3>1 DEF Defines
    <3> QED
      BY <1>2, <2>2, <3>1, <3>2 DEF Added, WordWeight
  <2> QED
    BY <2>1, <2>2
<1>6. g = [k \in 0 .. NUM_WRDS |-> g[k]]
  BY <1>4
<1>7. Sums(g, words)
  BY <1>5, <1>6 DEF Sums
<1> QED
  BY <1>4, <1>7

\* What mont_mult leaves fits, so that no bit is lost with the last redundant one.
LEMMA WordsAddUp ==
  ASSUME NEW v \in Nat, v < reducer, NEW words \in Redundant(v)
  PROVE  reduce_polynomial(words) = v
<1> DEFINE Rec(g) == [k \in 0 .. NUM_WRDS |-> IF k = 0 THEN 0
             ELSE g[k - 1] + (IF k = NUM_WRDS THEN words[k] % 2^WRD_BITS ELSE words[k])
                             * 2^(WRD_BITS * (k - 1))]
           Full(g) == [k \in 0 .. NUM_WRDS |-> IF k = 0 THEN 0
             ELSE g[k - 1] + words[k] * 2^(WRD_BITS * (k - 1))]
           f == CHOOSE g : g = Full(g)
           r == CHOOSE g : g = Rec(g)
           n == NUM_WRDS
           B == 2^WRD_BITS
           Y == WordWeight(n)
<1>1. v = f[n] /\ words \in [1 .. NUM_WRDS -> 0 .. 2^(WRD_BITS + 1) - 1]
  BY DEF Redundant
<1>2. reduce_polynomial(words) = r[n]
  BY DEF reduce_polynomial
<1>3. words \in [1 .. NUM_WRDS -> Nat] /\ n \in Nat \ {0} /\ B \in Nat \ {0}
      /\ Y \in Nat \ {0} /\ reducer = Y * B
  BY <1>1, WordsAre DEF WordWeight
<1>4. PICK s \in [0 .. NUM_WRDS -> Nat] : Sums(s, words)
  BY <1>3, SumsExist
<1>5. \A g : g = Full(g) <=> Sums(g, words)
  BY DEF Sums
<1>6. Sums(f, words)
  <2> HIDE DEF Full
  <2> QED
    BY <1>4, <1>5
<1> HIDE DEF f, r, Full
<1>7. f[0] = 0 /\ \A k \in 1 .. n : f[k] = f[k - 1] + words[k] * WordWeight(k)
  BY <1>6, SumsAre
<1>8. \A k \in Nat : k <= n => f[k] \in Nat
  <2> DEFINE S == {k \in Nat : k <= n => f[k] \in Nat}
  <2>1. 0 \in S
    BY <1>7
  <2>2. ASSUME NEW k \in Nat, k \in S PROVE k + 1 \in S
    <3> SUFFICES ASSUME k + 1 <= n PROVE f[k + 1] \in Nat
      OBVIOUS
    <3>1. k + 1 \in 1 .. n /\ (k + 1) - 1 = k /\ f[k] \in Nat
      BY <1>3, <2>2
    <3>2. words[k + 1] \in Nat /\ WordWeight(k + 1) \in Nat
      BY <1>3, <3>1, WordsAre DEF WordWeight
    <3>3. words[k + 1] * WordWeight(k + 1) \in Nat
      BY <3>2
    <3> QED
      BY <1>7, <3>1, <3>3
  <2>3. Nat \subseteq S
    <3> HIDE DEF S
    <3> QED
      BY <2>1, <2>2, Induction
  <2> QED
    BY <2>3
<1>9. words[n] \in Nat /\ words[n] < B
  <2>1. n \in 1 .. n /\ n - 1 \in Nat /\ n - 1 <= n /\ words[n] \in Nat
    BY <1>3
  <2>2. v = f[n - 1] + words[n] * Y /\ f[n - 1] \in Nat
    BY <1>1, <1>7, <1>8, <2>1
  <2>3. words[n] * Y < Y * B
    BY <1>3, <2>1, <2>2
  <2> DEFINE w == words[n]
  <2> SUFFICES ASSUME w >= B PROVE FALSE
    BY <1>3, <2>1
  <2>4. w * Y >= B * Y
    BY <1>3, <2>1
  <2> QED
    BY <1>3, <2>1, <2>3, <2>4
<1>10. words[n] % B = words[n]
  <2> DEFINE w == words[n]
  <2>1. w \in 0 .. B - 1 /\ B \in Nat \ {0}
    BY <1>3, <1>9
  <2> HIDE DEF w, B
  <2>2. w % B = w
    BY <2>1, SmallRemainder
  <2> QED
    BY <2>2 DEF w, B
<1>11. \A g : Rec(g) = Full(g)
  BY <1>10 DEF Full
<1>12. f = r
  BY <1>11 DEF f, r
<1> QED
  BY <1>1, <1>2, <1>12

-----------------------------------------------------------------------------
(***************************************************************************)
(* The numbers.                                                            *)
(***************************************************************************)
\* n squarings of x, as check_job does them.
Squares(x, N, last) ==
  LET squares[n \in 0..last] == IF n = 0 THEN x ELSE (squares[n - 1] * squares[n - 1]) % N
  IN  squares

\* The squarings are numbers, each from the one before.
LEMMA SquaresAre ==
  ASSUME NEW N \in Nat \ {0}, NEW x \in Nat, NEW last \in Nat
  PROVE  /\ \A n \in 0 .. last : Squares(x, N, last)[n] \in Nat
         /\ Squares(x, N, last)[0] = x
         /\ \A n \in 0 .. last : n > 0 =>
              Squares(x, N, last)[n] = (Squares(x, N, last)[n - 1] * Squares(x, N, last)[n - 1]) % N
<1> DEFINE Rec(g) == [n \in 0 .. last |-> IF n = 0 THEN x ELSE (g[n - 1] * g[n - 1]) % N]
           h == [s \in Nat \X Nat |-> (s[2] * s[2]) % N]
           p == [k \in Nat |-> IF k = 0 THEN 0 ELSE k - 1]
           q == CHOOSE g : g = Rec(g)
<1>1. Squares(x, N, last) = q
  BY DEF Squares
<1>2. last \in Nat
  OBVIOUS
<1>3. h \in [Nat \X Nat -> Nat] /\ \A k, y \in Nat : h[<<k, y>>] = (y * y) % N
  <2>1. ASSUME NEW y \in Nat PROVE (y * y) % N \in Nat
    <3> DEFINE z == y * y
    <3>1. z \in Int
      OBVIOUS
    <3> HIDE DEF z
    <3>2. z % N \in 0 .. N - 1
      BY <3>1, Divided
    <3> QED
      BY <3>2 DEF z
  <2>2. \A k, y \in Nat : h[<<k, y>>] = (y * y) % N
    OBVIOUS
  <2>3. ASSUME NEW s \in Nat \X Nat PROVE (s[2] * s[2]) % N \in Nat
    <3>1. s[2] \in Nat
      OBVIOUS
    <3> QED
      BY <2>1, <3>1
  <2> QED
    BY <2>2, <2>3
<1>4. Decreasing(p) /\ \A k \in 1 .. last : p[k] = k - 1
  BY <1>2 DEF Decreasing
<1> HIDE DEF h, p
<1>5. PICK g \in [0 .. last -> Nat] : Defines(g, x, h, p, last)
  BY <1>2, <1>3, <1>4, Recursion
<1>6. ASSUME NEW n \in 0 .. last
      PROVE  g[n] = IF n = 0 THEN x ELSE (g[n - 1] * g[n - 1]) % N
  <2>1. CASE n = 0
    BY <1>5, <2>1 DEF Defines
  <2>2. CASE n # 0
    <3>1. n \in 1 .. last /\ n \in Nat /\ n - 1 \in 0 .. last
      BY <1>2, <2>2
    <3>2. g[n] = h[<<n, g[n - 1]>>] /\ g[n - 1] \in Nat
      BY <1>4, <1>5, <3>1 DEF Defines
    <3>3. h[<<n, g[n - 1]>>] = (g[n - 1] * g[n - 1]) % N
      BY <1>3, <3>1, <3>2
    <3> QED
      BY <2>2, <3>2, <3>3
  <2> QED
    BY <2>1, <2>2
<1>7. g = Rec(g)
  <2>1. g = [n \in 0 .. last |-> g[n]]
    BY <1>5
  <2>2. Rec(g) = [n \in 0 .. last |-> g[n]]
    BY <1>6
  <2> QED
    BY <2>1, <2>2
<1>8. q = Rec(q)
  <2> HIDE DEF Rec
  <2> QED
    BY <1>7
<1> HIDE DEF q
<1>9. \A n \in 0 .. last : q[n] = IF n = 0 THEN x ELSE (q[n - 1] * q[n - 1]) % N
  BY <1>8
<1>10. \A n \in Nat : n <= last => q[n] \in Nat
  <2> DEFINE S == {n \in Nat : n <= last => q[n] \in Nat}
  <2>1. 0 \in S
    BY <1>2, <1>9
  <2>2. ASSUME NEW n \in Nat, n \in S PROVE n + 1 \in S
    <3> SUFFICES ASSUME n + 1 <= last PROVE q[n + 1] \in Nat
      OBVIOUS
    <3>1. n + 1 \in 0 .. last /\ n + 1 # 0 /\ (n + 1) - 1 = n /\ q[n] \in Nat
      BY <1>2, <2>2
    <3>2. q[n + 1] = h[<<n, q[n]>>]
      BY <1>3, <1>9, <3>1
    <3> QED
      BY <1>3, <3>1, <3>2
  <2>3. Nat \subseteq S
    <3> HIDE DEF S
    <3> QED
      BY <2>1, <2>2, Induction
  <2> QED
    BY <2>3
<1> QED
  BY <1>1, <1>2, <1>9, <1>10

\* v stands for x: it is x in Montgomery form, up to the modulus.
StandsFor(v, x, N) == v \in 1 .. 2 * N - 1 /\ Same(v, x * reducer, N)

\* A modulus that leaves the two bits of Montgomery's bound.
Sized(N) == Odd(N) /\ 4 * N <= reducer

\* The radix can be cancelled.
LEMMA RadixCancels ==
  ASSUME NEW N, Odd(N), NEW x \in Int, NEW y \in Int, Same(x * reducer, y * reducer, N)
  PROVE  Same(x, y, N)
<1> DEFINE u == InverseOf(N)
           R == reducer
<1>1. N \in Nat \ {0} /\ R \in Int /\ u \in Int /\ Same(u * R, 1, N)
  BY Radix, InverseIs DEF Odd
<1>2. R * u = u * R
  BY <1>1
<1>3. Same(R * u, 1, N) /\ Same(x * R, y * R, N)
  BY <1>1, <1>2
<1> HIDE DEF R, u
<1> QED
  BY <1>1, <1>3, Cancelled

\* to_mont.
LEMMA ToMont ==
  ASSUME NEW N, Sized(N), NEW x \in 1 .. reducer - 1,
         NEW v, v = mont_mult(x, (reducer * reducer) % N, N, Factor(N))
  PROVE  StandsFor(v, x, N)
<1> DEFINE R == reducer
           s == R * R
           c == s % N
           t == x * c
<1>1. Odd(N) /\ N \in Nat \ {0} /\ N >= 3 /\ R \in Nat \ {0} /\ R \in Int
  BY Radix DEF Sized, Odd
<1>2. s \in Int /\ x \in Nat /\ x \in Int /\ x <= R - 1 /\ x >= 1
  BY <1>1
<1>3. Same(c, s, N) /\ c \in 0 .. N - 1
  <2> HIDE DEF s
  <2> QED
    BY <1>1, <1>2, SameRemainder
<1>4. c # 0
  <2> SUFFICES ASSUME c = 0 PROVE FALSE
    OBVIOUS
  <2> DEFINE z == 0
             u == InverseOf(N)
  <2>1. z \in Int /\ z * R = z /\ u * z = z /\ Same(z, s, N)
    BY <1>1, <1>3, InverseIs
  <2>2. Same(R * R, z * R, N)
    BY <2>1, SameAgain
  <2> HIDE DEF z
  <2>3. Same(R, z, N)
    BY <1>1, <2>1, <2>2, RadixCancels
  <2>4. u \in Int /\ Same(u * R, 1, N)
    BY <1>1, InverseIs
  <2>5. Same(u * R, u * z, N)
    BY <1>1, <2>1, <2>3, <2>4, SameProduct
  <2>6. Same(1, z, N)
    BY <2>1, <2>4, <2>5, SameAgain
  <2>7. 1 % N = 1 /\ 0 % N = 0
    BY <1>1
  <2> QED
    BY <2>6, <2>7 DEF Same, z
<1>5. v = mont_mult(x, c, N, Factor(N))
  OBVIOUS
<1> HIDE DEF c, R
<1>6. c \in Nat /\ c \in Int /\ c >= 1 /\ c <= N - 1
  BY <1>1, <1>3, <1>4
<1>7. t \in Nat /\ t > 0 /\ t < R * N
  <2>1. x * c >= 1
    BY <1>2, <1>6
  <2>2. x * c <= R * c /\ R * c <= R * (N - 1) /\ R * (N - 1) = R * N - R
    BY <1>1, <1>2, <1>6
  <2> QED
    BY <1>1, <1>2, <1>6, <2>1, <2>2
<1>8. v \in Nat /\ Same(v * R, t, N) /\ v > 0 /\ v < 2 * N
  BY <1>1, <1>2, <1>5, <1>6, <1>7, ProductIs DEF R
<1>9. Same(v, x * R, N)
  <2> DEFINE w == x * R
  <2>1. w \in Int /\ v \in Int /\ x * s = w * R
    BY <1>1, <1>2, <1>8
  <2>2. Same(x * c, x * s, N)
    <3> HIDE DEF s
    <3> QED
      BY <1>1, <1>2, <1>3, <1>6, SameProduct
  <2>3. Same(v * R, w * R, N)
    BY <1>8, <2>1, <2>2, SameAgain
  <2> HIDE DEF w
  <2>4. Same(v, w, N)
    BY <1>1, <2>1, <2>3, RadixCancels DEF R
  <2> QED
    BY <2>4 DEF w
<1> QED
  BY <1>1, <1>8, <1>9 DEF StandsFor, R

\* from_mont.
LEMMA FromMont ==
  ASSUME NEW N, Sized(N), NEW x \in Int, NEW v, StandsFor(v, x, N),
         NEW y, y = mont_mult(v, 1, N, Factor(N))
  PROVE  y \in 1 .. N /\ Same(y, x, N)
<1> DEFINE R == reducer
           i == 1
<1>1. Odd(N) /\ N \in Nat \ {0} /\ N >= 3 /\ R \in Nat \ {0} /\ R \in Int /\ N < R
  BY Radix DEF Sized, Odd
<1>2. v \in Nat /\ v > 0 /\ v < 2 * N /\ Same(v, x * R, N)
  BY <1>1 DEF StandsFor
<1>3. i \in Nat /\ v * i = v /\ y = mont_mult(v, i, N, Factor(N))
  BY <1>2
<1> HIDE DEF i
<1>4. y \in Nat /\ Same(y * R, v, N) /\ y > 0 /\ y <= N
  <2> DEFINE t == v * i
  <2>1. t = v /\ t > 0 /\ t < 2 * N
    BY <1>2, <1>3
  <2>2. y \in Nat /\ Same(y * R, t, N) /\ (t < 2 * N /\ N < R => y <= N) /\ (t > 0 => y > 0)
    BY <1>1, <1>2, <1>3, ProductIs
  <2> QED
    BY <1>1, <2>1, <2>2
<1> HIDE DEF R
<1>5. Same(y * R, x * R, N) /\ y \in Int
  BY <1>2, <1>4, SameAgain
<1>6. Same(y, x, N)
  BY <1>1, <1>5, RadixCancels DEF R
<1> QED
  BY <1>1, <1>4, <1>6

\* A squaring.
LEMMA Squaring ==
  ASSUME NEW N, Sized(N), NEW x \in Nat, NEW v, StandsFor(v, x, N),
         NEW w, w = mont_mult(v, v, N, Factor(N))
  PROVE  StandsFor(w, (x * x) % N, N)
<1> DEFINE R == reducer
           s == x * x
           c == s % N
           z == x * R
           t == v * v
<1>1. Odd(N) /\ N \in Nat \ {0} /\ N >= 3 /\ R \in Nat \ {0} /\ R \in Int /\ 4 * N <= R
  BY Radix DEF Sized, Odd
<1>2. v \in Nat /\ v \in Int /\ v > 0 /\ v <= 2 * N - 1 /\ Same(v, z, N) /\ z \in Int
  BY <1>1 DEF StandsFor
<1>3. Same(c, s, N) /\ c \in 0 .. N - 1 /\ s \in Int
  <2>1. s \in Int
    OBVIOUS
  <2> HIDE DEF s
  <2> QED
    BY <1>1, <2>1, SameRemainder
<1>4. c \in Int
  BY <1>3
<1> HIDE DEF R, c
<1>5. t \in Nat /\ t > 0 /\ t < R * N
  <2>1. v * v >= v * 1 /\ v * v <= (2 * N) * v
    BY <1>1, <1>2
  <2>2. (2 * N) * v <= (2 * N) * (2 * N - 1)
    BY <1>1, <1>2
  <2>3. (2 * N) * (2 * N - 1) = (4 * N) * N - 2 * N
    BY <1>1
  <2>4. (4 * N) * N <= R * N
    BY <1>1
  <2> QED
    BY <1>1, <1>2, <2>1, <2>2, <2>3, <2>4
<1>6. w \in Nat /\ Same(w * R, t, N) /\ w > 0 /\ w < 2 * N
  BY <1>1, <1>2, <1>5, ProductIs DEF R
<1>7. Same(w, c * R, N)
  <2> DEFINE e == s * R
  <2>1. e \in Int /\ z * z = e * R /\ w \in Int
    BY <1>1, <1>3, <1>6
  <2>2. Same(v * v, z * v, N) /\ Same(z * v, z * z, N)
    <3> HIDE DEF z
    <3> QED
      BY <1>1, <1>2, SameProduct
  <2>3. Same(w * R, e * R, N)
    BY <1>6, <2>1, <2>2, SameAgain
  <2>4. Same(c * R, s * R, N)
    <3> HIDE DEF s
    <3> QED
      BY <1>1, <1>3, <1>4, SameProduct
  <2>5. Same(c * R, e, N)
    BY <2>4
  <2> HIDE DEF e
  <2>6. Same(w, e, N)
    BY <1>1, <2>1, <2>3, RadixCancels DEF R
  <2> QED
    BY <2>5, <2>6, SameAgain
<1> QED
  BY <1>1, <1>6, <1>7 DEF StandsFor, R, c

-----------------------------------------------------------------------------
(***************************************************************************)
(* mont.py's products and powers.                                          *)
(***************************************************************************)
\* What its asserts let through.
OrError(x, c, P) == x = AssertionError \/ (x \in 0 .. P - 1 /\ Same(x, c * reducer, P))

\* An error stays one.
LEMMA ErrorStays ==
  ASSUME NEW P, NEW x, NEW y, x = AssertionError \/ y = AssertionError
  PROVE  multiply(x, y, Mont(P)) = AssertionError
BY DEF multiply

\* A product is exact modulo P, and reduced, or an error.
LEMMA MultiplyIs ==
  ASSUME NEW P, Odd(P), NEW x \in Int, NEW y \in Int,
         NEW m, m = multiply(x, y, Mont(P))
  PROVE  /\ m \in Int
         /\ x \in Nat /\ y \in Nat =>
              m = AssertionError \/ (m \in 0 .. P - 1 /\ Same(m * reducer, x * y, P))
<1> DEFINE R == reducer
           f == Factor(P)
           t == x * y
           q == ((t % R) * f) % R
           r == mont_mult(x, y, P, f)
<1>1. P \in Nat \ {0} /\ R \in Nat \ {0} /\ f \in Nat
  BY Radix, FactorIs DEF Odd
<1>2. Mont(P).modulus = P /\ Mont(P).factor = f
  BY FactorsAgree DEF Mont
<1>3. r = (t + q * P) \div R
  BY DEF mont_mult
<1>4. r \in Int
  <2>1. t \in Int
    OBVIOUS
  <2> HIDE DEF t
  <2>2. t % R \in 0 .. R - 1
    BY <1>1, <2>1, Divided
  <2> DEFINE e == t % R
             w == e * f
  <2>3. w \in Int
    BY <1>1, <2>2
  <2> HIDE DEF w
  <2>4. w % R \in 0 .. R - 1
    BY <1>1, <2>3, Divided
  <2>5. q \in Int
    BY <1>1, <2>4 DEF w
  <2> HIDE DEF q
  <2> DEFINE z == t + q * P
  <2>6. z \in Int
    BY <1>1, <2>1, <2>5
  <2> HIDE DEF z
  <2>7. z \div R \in Int
    BY <1>1, <2>6, Divided
  <2> QED
    BY <1>3, <2>7 DEF z
<1>5. m = IF AssertionError \in {x, y} THEN AssertionError
          ELSE IF r < P THEN r ELSE AssertionError
  BY <1>2 DEF multiply
<1>6. m \in Int
  BY <1>4, <1>5 DEF AssertionError
<1>7. ASSUME x \in Nat, y \in Nat, m # AssertionError
      PROVE  m \in 0 .. P - 1 /\ Same(m * reducer, x * y, P)
  <2>1. m = r /\ r < P
    BY <1>5, <1>7
  <2>2. r \in Nat /\ Same(r * reducer, x * y, P)
    BY <1>7, ProductIs
  <2> HIDE DEF r
  <2> QED
    BY <1>1, <2>1, <2>2
<1> QED
  BY <1>5, <1>6, <1>7

\* Products of what stands for numbers.
LEMMA ProductStands ==
  ASSUME NEW P, Odd(P), NEW a \in Int, NEW b \in Int,
         NEW x \in Int, NEW y \in Int, OrError(x, a, P), OrError(y, b, P),
         NEW m, m = multiply(x, y, Mont(P))
  PROVE  m \in Int /\ OrError(m, a * b, P)
<1>1. m \in Int /\ (x = AssertionError \/ y = AssertionError => m = AssertionError)
  BY MultiplyIs, ErrorStays
<1>2. ASSUME x # AssertionError, y # AssertionError, m # AssertionError
      PROVE  m \in 0 .. P - 1 /\ Same(m, (a * b) * reducer, P)
  <2> DEFINE R == reducer
             c == a * R
             d == b * R
             e == (a * b) * R
  <2>1. P \in Nat \ {0} /\ R \in Int
    BY Radix DEF Odd
  <2>2. x \in Nat /\ y \in Nat /\ Same(x, c, P) /\ Same(y, d, P)
    BY <1>2 DEF OrError
  <2>3. m \in 0 .. P - 1 /\ Same(m * R, x * y, P)
    BY <1>2, <2>2, MultiplyIs
  <2>4. c \in Int /\ d \in Int /\ e \in Int /\ c * d = e * R /\ m \in Int
    BY <2>1, <1>1
  <2> HIDE DEF c, d, e
  <2>5. Same(x * y, c * y, P) /\ Same(c * y, c * d, P)
    BY <2>1, <2>2, <2>4, SameProduct
  <2>6. Same(m * R, e * R, P)
    BY <2>3, <2>4, <2>5, SameAgain
  <2>7. Same(m, e, P)
    BY <2>4, <2>6, RadixCancels
  <2> QED
    BY <2>3, <2>7 DEF e
<1> QED
  BY <1>1, <1>2 DEF OrError

\* convert_in and convert_out.
LEMMA ConvertIs ==
  ASSUME NEW P, Odd(P), NEW a \in Nat
  PROVE  /\ convert_in(a, Mont(P)) \in Int /\ OrError(convert_in(a, Mont(P)), a, P)
         /\ \A x \in Int : OrError(x, a, P) =>
              \/ convert_out(x, Mont(P)) = AssertionError
              \/ convert_out(x, Mont(P)) \in 0 .. P - 1 /\ Same(convert_out(x, Mont(P)), a, P)
<1> DEFINE R == reducer
           s == R * R
           u == s % P
           b == a * R
           i == 1
           m == convert_in(a, Mont(P))
<1>1. P \in Nat \ {0} /\ R \in Int /\ s \in Int /\ b \in Int /\ i \in Nat /\ a * s = b * R
      /\ a \in Int /\ i \in Int
  BY Radix DEF Odd
<1>2. Same(u, s, P) /\ u \in 0 .. P - 1
  <2> HIDE DEF s
  <2> QED
    BY <1>1, SameRemainder
<1>3. u \in Nat /\ u \in Int /\ Mont(P).reciprocal_sq = u
  BY <1>1, <1>2 DEF Mont
<1>4. m = multiply(a, u, Mont(P))
  BY <1>3 DEF convert_in
<1> HIDE DEF u, s, m, i, b
<1>5. m \in Int /\ (m = AssertionError \/ (m \in 0 .. P - 1 /\ Same(m * R, a * u, P)))
  BY <1>1, <1>3, <1>4, MultiplyIs
<1>6. Same(a * u, a * s, P)
  BY <1>1, <1>2, <1>3, SameProduct
<1>7. ASSUME m # AssertionError PROVE Same(m, b, P)
  <2>1. Same(m * R, b * R, P)
    BY <1>1, <1>5, <1>6, <1>7, SameAgain
  <2> QED
    BY <1>1, <1>5, <2>1, RadixCancels
<1>8. OrError(m, a, P)
  BY <1>5, <1>7 DEF OrError, b
<1>9. ASSUME NEW x \in Int, OrError(x, a, P), convert_out(x, Mont(P)) # AssertionError
      PROVE  convert_out(x, Mont(P)) \in 0 .. P - 1 /\ Same(convert_out(x, Mont(P)), a, P)
  <2> DEFINE y == convert_out(x, Mont(P))
  <2>1. y = multiply(x, i, Mont(P)) /\ i \in Int
    BY <1>1 DEF convert_out, i
  <2>2. x # AssertionError /\ y # AssertionError
    BY <1>9, <2>1, ErrorStays
  <2>3. x \in Nat /\ Same(x, b, P)
    BY <1>9, <2>2 DEF OrError, b
  <2> HIDE DEF y
  <2>4. y \in 0 .. P - 1 /\ Same(y * R, x * i, P)
    BY <1>1, <2>1, <2>2, <2>3, MultiplyIs
  <2>7. x * i = x
    BY <2>3 DEF i
  <2>5. Same(y * R, a * R, P) /\ y \in Int
    BY <2>3, <2>4, <2>7, SameAgain DEF b
  <2>6. Same(y, a, P)
    BY <2>5, RadixCancels
  <2> QED
    BY <2>4, <2>6 DEF y
<1> QED
  BY <1>5, <1>8, <1>9 DEF m

\* The variables of pow's loop: x, y and z.
PowStates == Int \X Nat \X Int

\* A pass of pow's loop, and its result.
Times(s, P) == <<multiply(s[1], s[1], Mont(P)), s[2] \div 2,
                 IF s[2] % 2 = 1 THEN multiply(s[3], s[1], Mont(P)) ELSE s[3]>>
Result(s) == IF s[1] = AssertionError THEN s[1] ELSE s[3]

\* The function that runs the loop to its end.
IsPower(g, P) == g = [s \in PowStates |-> IF s[2] = 0 THEN Result(s) ELSE g[Times(s, P)]]

\* Whatever the numbers, a pass gives numbers.
LEMMA TimesIs ==
  ASSUME NEW P, Odd(P), NEW s \in PowStates
  PROVE  Times(s, P) \in PowStates /\ Result(s) \in Int
<1>1. s[1] \in Int /\ s[2] \in Nat /\ s[3] \in Int
  BY DEF PowStates
<1>2. multiply(s[1], s[1], Mont(P)) \in Int /\ multiply(s[3], s[1], Mont(P)) \in Int
  BY <1>1, MultiplyIs
<1>3. s[2] \div 2 \in Nat
  BY <1>1
<1> DEFINE z == IF s[2] % 2 = 1 THEN multiply(s[3], s[1], Mont(P)) ELSE s[3]
<1>4. z \in Int
  BY <1>1, <1>2
<1> HIDE DEF z
<1>5. Times(s, P) = <<multiply(s[1], s[1], Mont(P)), s[2] \div 2, z>>
  BY DEF Times, z
<1>6. Result(s) \in Int
  BY <1>1 DEF Result
<1> QED
  BY <1>2, <1>3, <1>4, <1>5, <1>6 DEF PowStates

\* There is such a function.
LEMMA PowerExists ==
  ASSUME NEW P, Odd(P)
  PROVE  \E g : IsPower(g, P)
<1> DEFINE stop == {s \in PowStates : s[2] = 0}
           pass == [s \in PowStates |-> Times(s, P)]
           out == [s \in PowStates |-> Result(s)]
           S == PowStates
<1> HIDE DEF S
<1>1. pass \in [S -> S] /\ out \in [S -> Int]
  BY TimesIs DEF S
<1> HIDE DEF stop, pass, out
<1>2. PICK g : IsLoop(g, S, stop, pass, out)
  BY <1>1, TailRecursion
<1>3. \A s \in S : /\ s \in stop <=> s[2] = 0
                   /\ pass[s] = Times(s, P) /\ out[s] = Result(s)
  BY DEF stop, pass, out, S
<1>4. g = [s \in S |-> g[s]]
      /\ \A s \in S : g[s] = IF s[2] = 0 THEN Result(s) ELSE g[Times(s, P)]
  BY <1>2, <1>3 DEF IsLoop
<1>5. g = [s \in S |-> IF s[2] = 0 THEN Result(s) ELSE g[Times(s, P)]]
  BY <1>4
<1> QED
  BY <1>5 DEF IsPower, S

\* Squaring n times is raising to the power 2^n.
LEMMA PowIs ==
  ASSUME NEW P, Odd(P), NEW c \in Nat, NEW x0 \in Int, OrError(x0, c, P),
         NEW n \in 0 .. t_final * test_iterations
  PROVE  /\ pow(x0, 2^n, Mont(P)) \in Int
         /\ OrError(pow(x0, 2^n, Mont(P)),
                    Squares(c, P, t_final * test_iterations)[n], P)
<1> DEFINE g == CHOOSE g : IsPower(g, P)
           T == t_final * test_iterations
           q == Squares(c, P, T)
           z == reducer % P
           i == 1
           Good(v, k) == v \in Int /\ OrError(v, q[k], P)
           S == {m \in Nat : \A k \in Nat, x \in Int :
                   k + m <= T /\ Good(x, k) => Good(g[<<x, 2^m, z>>], k + m)}
<1>1. P \in Nat \ {0} /\ P >= 3 /\ T \in Nat /\ reducer \in Int
  <2>1. t_final \in Nat /\ test_iterations \in Nat
    BY JobAssumption
  <2> QED
    BY <2>1, Radix DEF Odd
<1>2. z \in Int /\ OrError(z, i, P)
  <2>1. Same(z, reducer, P) /\ z \in 0 .. P - 1
    BY <1>1, SameRemainder
  <2>2. i * reducer = reducer
    BY <1>1
  <2> QED
    BY <1>1, <2>1, <2>2 DEF OrError
<1>3. pow(x0, 2^n, Mont(P)) = g[<<x0, 2^n, z>>]
  BY DEF pow, IsPower, Times, Result, PowStates, Mont
<1>4. IsPower(g, P)
  BY PowerExists
<1> HIDE DEF g, T, q, z
<1>5. \A s \in PowStates : g[s] = IF s[2] = 0 THEN Result(s) ELSE g[Times(s, P)]
  BY <1>4 DEF IsPower
<1>6. /\ \A k \in 0 .. T : q[k] \in Nat
      /\ q[0] = c
      /\ \A k \in 0 .. T : k > 0 => q[k] = (q[k - 1] * q[k - 1]) % P
  BY <1>1, SquaresAre DEF q
<1>7. ASSUME NEW k \in 0 .. T, NEW x \in Int, Good(x, k)
      PROVE  LET y == multiply(x, x, Mont(P))
             IN  y \in Int /\ (k + 1 <= T => Good(y, k + 1))
  <2> DEFINE y == multiply(x, x, Mont(P))
             a == q[k]
             b == q[k + 1]
             t == a * a
  <2>1. a \in Int /\ t \in Int /\ y \in Int
    <3>1. a \in Nat
      BY <1>6
    <3>2. y \in Int
      BY MultiplyIs
    <3> HIDE DEF a, y
    <3> QED
      BY <3>1, <3>2
  <2>2. OrError(y, t, P)
    <3> HIDE DEF y
    <3>1. y = multiply(x, x, Mont(P))
      BY DEF y
    <3>2. OrError(x, a, P)
      BY <1>7
    <3> HIDE DEF a
    <3> QED
      BY <2>1, <3>1, <3>2, ProductStands
  <2>3. ASSUME k + 1 <= T PROVE Good(y, k + 1)
    <3>1. b = t % P
      <4>1. k + 1 \in 0 .. T /\ k + 1 > 0 /\ (k + 1) - 1 = k
        BY <1>1, <2>3
      <4> QED
        BY <1>6, <4>1
    <3> HIDE DEF t, y, b
    <3>2. Same(b, t, P) /\ b \in Int
      BY <1>1, <2>1, <3>1, SameRemainder
    <3>3. Same(b * reducer, t * reducer, P)
      BY <1>1, <2>1, <3>2, SameProduct
    <3>4. OrError(y, b, P)
      BY <2>2, <3>3, SameAgain DEF OrError
    <3> QED
      BY <2>1, <3>4 DEF b
  <2> QED
    BY <2>1, <2>3
<1>8. 0 \in S
  <2> SUFFICES ASSUME NEW k \in Nat, NEW x \in Int, k <= T, Good(x, k)
               PROVE  Good(g[<<x, 2^0, z>>], k)
    BY <1>1
  <2> DEFINE s == <<x, 1, z>>
             y == multiply(x, x, Mont(P))
             w == multiply(z, x, Mont(P))
             r == <<y, 0, w>>
  <2>1. 2^0 = 1
    BY PowerIs
  <2>2. y \in Int /\ w \in Int
    BY <1>2, MultiplyIs
  <2>3. s \in PowStates /\ r \in PowStates /\ Times(s, P) = r
    <3>1. 1 % 2 = 1 /\ 1 \div 2 = 0
      OBVIOUS
    <3> QED
      BY <1>2, <2>2, <3>1 DEF PowStates, Times
  <2>4. g[s] = g[r] /\ g[r] = IF y = AssertionError THEN y ELSE w
    BY <1>5, <2>3 DEF Result
  <2>5. OrError(w, q[k], P)
    <3>1. q[k] \in Int /\ i * q[k] = q[k] /\ i \in Int
      BY <1>1, <1>6
    <3>2. OrError(x, q[k], P) /\ w = multiply(z, x, Mont(P))
      OBVIOUS
    <3> HIDE DEF i, w
    <3>3. OrError(w, i * q[k], P)
      BY <1>2, <3>1, <3>2, ProductStands
    <3> QED
      BY <3>1, <3>3
  <2> QED
    BY <2>1, <2>2, <2>4, <2>5 DEF OrError
<1>9. ASSUME NEW m \in Nat, m \in S PROVE m + 1 \in S
  <2> SUFFICES ASSUME NEW k \in Nat, NEW x \in Int, k + (m + 1) <= T, Good(x, k)
               PROVE  Good(g[<<x, 2^(m + 1), z>>], k + (m + 1))
    BY <1>1
  <2> DEFINE p == 2^m
             e == 2^(m + 1)
             s == <<x, e, z>>
             y == multiply(x, x, Mont(P))
  <2>1. m \in 0 .. T /\ k \in 0 .. T /\ (k + 1) + m = k + (m + 1) /\ k + 1 \in Nat /\ k + 1 <= T
        /\ (k + 1) + m <= T
    BY <1>1
  <2>2. p \in Nat \ {0} /\ e = 2 * p
    BY <2>1, PowerIs DEF T
  <2> HIDE DEF p, e
  <2>3. e % 2 = 0 /\ e \div 2 = p /\ e # 0 /\ e \in Nat
    <3>1. 2 \in Nat \ {0} /\ e \in Int /\ p \in Int /\ e # 0 /\ e \in Nat
      BY <2>2
    <3> QED
      BY <2>2, <3>1, MultipleIs
  <2>4. y \in Int /\ Good(y, k + 1)
    BY <1>7, <2>1
  <2> HIDE DEF y, Good
  <2>5. s \in PowStates /\ Times(s, P) = <<y, p, z>>
    BY <1>2, <2>3 DEF PowStates, Times, y
  <2>6. g[s] = g[<<y, p, z>>]
    BY <1>5, <2>3, <2>5
  <2>7. Good(g[<<y, p, z>>], (k + 1) + m)
    BY <1>9, <2>1, <2>4 DEF p
  <2> QED
    BY <2>1, <2>6, <2>7 DEF e
<1>10. Nat \subseteq S
  <2> HIDE DEF S
  <2> QED
    BY <1>8, <1>9, Induction
<1>11. Good(x0, 0)
  BY <1>6
<1>12. n \in Nat /\ 0 + n <= T /\ 0 + n = n
  BY <1>1 DEF T
<1>13. Good(g[<<x0, 2^n, z>>], 0 + n)
  <2> HIDE DEF Good
  <2> QED
    BY <1>10, <1>11, <1>12
<1> QED
  BY <1>3, <1>12, <1>13 DEF T, q

-----------------------------------------------------------------------------
(***************************************************************************)
(* What the kernel is told.                                                *)
(***************************************************************************)
\* What a launch writes to a data register.
Arg(r) == IF r = "input0" THEN 0 ELSE IF r = "input_mem_0" THEN 1
          ELSE IF r = "input_mem_1" THEN 2
          ELSE IF r \in {"output_mem_0", "intermediates_mem_0"} THEN 3 ELSE 4

\* The n-th write of a launch has been made.
Told(n) == n < step \/ (n = step /\ wstate = "WRRESP")

\* The write under way is the launch's next; what has been told is in the registers.
Arguments ==
  /\ waddr \in {AP_CTRL, GIE, IER, ISR} \cup DataRegisters
  /\ wstate \in {"WRDATA", "WRRESP"} => waddr = writes[step][1]
  /\ int_data \in [DataRegisters -> 0 .. 4]
  /\ \A n \in 1 .. Last : Told(n) /\ writes[n][1] \in DataRegisters =>
       int_data[writes[n][1]] = Arg(writes[n][1])

\* Every write of a launch to a data register says what Arg says, and all of
\* them come before the start.
LEMMA ArgumentWrites ==
  ASSUME polls \in BOOLEAN
  PROVE  /\ \A n \in 1 .. Last :
              /\ writes[n][1] \in {AP_CTRL, GIE, IER, ISR} \cup DataRegisters
              /\ writes[n][1] \in DataRegisters => writes[n][2] = Arg(writes[n][1])
         /\ \A r \in DataRegisters : \E n \in 1 .. Last : n < Start /\ writes[n][1] = r
<1> DEFINE enables == << <<GIE, 1>>, <<IER, 1>> >>
           args == << <<"input0", 0>>,
     <<"input_mem_0", IN_ADDR[1]>>, <<"input_mem_1", IN_ADDR[2]>>,
     <<"output_mem_0", OUT_ADDR[1]>>, <<"output_mem_1", OUT_ADDR[2]>>,
     <<"intermediates_mem_0", OUT_ADDR[1]>>, <<"intermediates_mem_1", OUT_ADDR[2]>>,
     <<AP_CTRL, 1>> >>
<1>1. CASE polls
  <2>1. writes = args /\ Last = 8 /\ Start = 8
    BY <1>1 DEF writes, Launch, IN_ADDR, OUT_ADDR, Last, Start
  <2>2. \A n \in 1 .. 8 :
          /\ args[n][1] \in {AP_CTRL, GIE, IER, ISR} \cup DataRegisters
          /\ args[n][1] \in DataRegisters => args[n][2] = Arg(args[n][1])
    BY DEF AP_CTRL, DataRegisters, Arg, IN_ADDR, OUT_ADDR
  <2>3. /\ args[1][1] = "input0" /\ args[2][1] = "input_mem_0" /\ args[3][1] = "input_mem_1"
        /\ args[4][1] = "output_mem_0" /\ args[5][1] = "output_mem_1"
        /\ args[6][1] = "intermediates_mem_0" /\ args[7][1] = "intermediates_mem_1"
    OBVIOUS
  <2> HIDE DEF args
  <2> QED
    BY <2>1, <2>2, <2>3 DEF DataRegisters
<1>2. CASE ~polls
  <2>1. writes = enables \o args \o << <<ISR, 1>> >> /\ Last = 11 /\ Start = 10
    BY <1>2 DEF writes, Launch, Last, Start
  <2>2. /\ writes[1] = <<GIE, 1>> /\ writes[2] = <<IER, 1>>
        /\ writes[3] = <<"input0", 0>>
        /\ writes[4] = <<"input_mem_0", IN_ADDR[1]>> /\ writes[5] = <<"input_mem_1", IN_ADDR[2]>>
        /\ writes[6] = <<"output_mem_0", OUT_ADDR[1]>>
        /\ writes[7] = <<"output_mem_1", OUT_ADDR[2]>>
        /\ writes[8] = <<"intermediates_mem_0", OUT_ADDR[1]>>
        /\ writes[9] = <<"intermediates_mem_1", OUT_ADDR[2]>>
        /\ writes[10] = <<AP_CTRL, 1>> /\ writes[11] = <<ISR, 1>>
    BY <2>1
  <2> HIDE DEF args, enables
  <2>3. ASSUME NEW n \in 1 .. 11
        PROVE  /\ writes[n][1] \in {AP_CTRL, GIE, IER, ISR} \cup DataRegisters
               /\ writes[n][1] \in DataRegisters => writes[n][2] = Arg(writes[n][1])
    <3>1. n \in {1, 2, 3, 4, 5, 6, 7, 8, 9, 10, 11}
      OBVIOUS
    <3> QED
      BY <2>2, <3>1 DEF AP_CTRL, GIE, IER, ISR, DataRegisters, Arg, IN_ADDR, OUT_ADDR
  <2>4. /\ writes[3][1] = "input0" /\ writes[4][1] = "input_mem_0"
        /\ writes[5][1] = "input_mem_1"
        /\ writes[6][1] = "output_mem_0" /\ writes[7][1] = "output_mem_1"
        /\ writes[8][1] = "intermediates_mem_0" /\ writes[9][1] = "intermediates_mem_1"
    BY <2>2
  <2>5. ASSUME NEW r \in DataRegisters
        PROVE  \E n \in 1 .. Last : n < Start /\ writes[n][1] = r
    <3>1. \E n \in 3 .. 9 : writes[n][1] = r
      BY <2>4 DEF DataRegisters
    <3>2. \A n \in 3 .. 9 : n \in 1 .. Last /\ n < Start
      BY <2>1
    <3> QED
      BY <3>1, <3>2
  <2>6. 1 .. Last = 1 .. 11
    BY <2>1
  <2> QED
    BY <2>3, <2>5, <2>6
<1> QED
  BY <1>1, <1>2

\* Before the first launch nothing has been told.
LEMMA InitArguments == Init => Arguments
<1> SUFFICES ASSUME Init PROVE Arguments
  OBVIOUS
<1>1. step = 0 /\ wstate = "WRRESET" /\ waddr = AP_CTRL
      /\ int_data = [r \in DataRegisters |-> 0]
  BY DEF Init, ControlInit
<1>2. \A n \in 1 .. Last : ~Told(n)
  BY <1>1 DEF Told
<1>3. int_data \in [DataRegisters -> 0 .. 4]
  BY <1>1
<1> QED
  BY <1>1, <1>2, <1>3 DEF Arguments

\* An edge writes to the register that was addressed, what the launch says.
LEMMA ArgumentsStep ==
  ASSUME OnTheBus, Arguments, NEW areset \in BOOLEAN, NEW bus \in Offers, Clk(areset, bus)
  PROVE  Arguments'
<1> DEFINE written == IF bus.wvalid /\ wready THEN waddr ELSE None
<1>1. /\ polls' = polls /\ pc' = pc
      /\ areset => step = 0
      /\ wstate' = IF areset THEN "WRRESET" ELSE wnext(bus.aw # None, bus.wvalid, bus.bready)
      /\ waddr' = IF bus.aw # None /\ awready THEN bus.aw ELSE waddr
      /\ step' = IF SeesDone(bus) THEN 0
                 ELSE IF bvalid /\ bus.bready THEN step + 1 ELSE step
  BY EdgeEffects
<1>2. int_data' = [r \in DataRegisters |-> IF areset THEN 0
                                          ELSE IF r = written THEN bus.wdata ELSE int_data[r]]
  BY DEF Clk, ControlClk, DataRegistersNext
<1>3. Last' = Last /\ Start' = Start /\ writes' = writes /\ Last \in Nat
  BY <1>1 DEF Last, Start, writes
<1>4. OnTheBus'
  BY OnTheBusStep
<1>5. /\ Len(writes) = Last
      /\ \A n \in 1 .. Last :
           /\ writes[n][1] \in {AP_CTRL, GIE, IER, ISR} \cup DataRegisters
           /\ writes[n][1] \in DataRegisters => writes[n][2] = Arg(writes[n][1])
  BY Writes, ArgumentWrites DEF OnTheBus
<1>6. /\ bus.aw # None => step \in 1 .. Last /\ bus.aw = writes[step][1]
      /\ bus.wvalid => step \in 1 .. Last /\ bus.wdata = writes[step][2]
      /\ bus.ar # None => step = Last + 1
  <2>1. /\ bus.aw \in {None} \cup (IF Writing THEN {writes[step][1]} ELSE {})
        /\ bus.wvalid \in IF Writing THEN BOOLEAN ELSE {FALSE}
        /\ bus.wdata \in IF Writing THEN {writes[step][2]} ELSE {0}
    BY DEF Offers
  <2>2. Writing => step \in 1 .. Last
    BY <1>5 DEF Writing
  <2> QED
    BY <2>1, <2>2, Offer
<1>7. /\ wstate \in {"WRDATA", "WRRESP"} => step \in 1 .. Last /\ waddr = writes[step][1]
      /\ step \in 0 .. Last + 1 /\ (rstate = "RDDATA" => step = Last + 1)
      /\ (wstate' \in {"WRDATA", "WRRESP"} => step' \in 1 .. Last)
  BY <1>3, <1>4 DEF OnTheBus, Arguments
<1>8. waddr' \in {AP_CTRL, GIE, IER, ISR} \cup DataRegisters
  BY <1>1, <1>5, <1>6 DEF Arguments
<1>9. wstate' \in {"WRDATA", "WRRESP"} => waddr' = writes'[step'][1]
  <2> SUFFICES ASSUME wstate' \in {"WRDATA", "WRRESP"} PROVE waddr' = writes[step'][1]
    BY <1>3
  <2>1. ~SeesDone(bus)
    BY <1>1, <1>7
  <2>2. CASE wstate = "WRIDLE"
    <3>1. bus.aw # None
      BY <1>1, <2>2 DEF wnext
    <3> QED
      BY <1>1, <1>6, <2>1, <2>2, <3>1 DEF awready, bvalid
  <2>3. CASE wstate = "WRDATA"
    BY <1>1, <1>7, <2>1, <2>3 DEF awready, bvalid
  <2>4. CASE wstate = "WRRESP"
    <3>1. ~bus.bready
      BY <1>1, <2>4 DEF wnext
    <3> QED
      BY <1>1, <1>7, <2>1, <2>4, <3>1 DEF awready, bvalid
  <2>5. wstate # "WRRESET"
    BY <1>1 DEF wnext
  <2> QED
    BY <2>2, <2>3, <2>4, <2>5 DEF OnTheBus
<1>10. written \in DataRegisters => bus.wdata = Arg(written)
  BY <1>5, <1>6, <1>7 DEF wready, None, DataRegisters
<1> HIDE DEF written
<1>11. int_data' \in [DataRegisters -> 0 .. 4]
  <2>1. \A r \in DataRegisters : Arg(r) \in 0 .. 4 /\ int_data[r] \in 0 .. 4
    BY DEF Arg, Arguments
  <2> QED
    BY <1>2, <1>10, <2>1
<1>12. ASSUME NEW n \in 1 .. Last, Told(n)', writes[n][1] \in DataRegisters
       PROVE  int_data'[writes[n][1]] = Arg(writes[n][1])
  <2> DEFINE r == writes[n][1]
  <2>1. step' # 0
    BY <1>3, <1>12 DEF Told
  <2>2. ~areset /\ ~SeesDone(bus)
    BY <1>1, <1>7, <2>1, <1>4 DEF bvalid, OnTheBus
  <2>3. r = written \/ int_data[r] = Arg(r)
    <3>1. CASE Told(n)
      BY <1>12, <3>1 DEF Arguments
    <3>2. CASE ~Told(n)
      <4>1. n = step /\ wstate = "WRDATA" /\ bus.wvalid
        BY <1>1, <1>3, <1>7, <1>12, <2>2, <3>2 DEF Told, wnext, bvalid, OnTheBus
      <4> QED
        BY <1>7, <4>1 DEF written, wready
    <3> QED
      BY <3>1, <3>2
  <2> QED
    BY <1>2, <1>10, <1>12, <2>2, <2>3
<1> QED
  BY <1>3, <1>8, <1>9, <1>11, <1>12 DEF Arguments

\* Of the host's steps only Chunk touches what Arguments is about.
LEMMA ArgumentsKept ==
  ASSUME IInv, Arguments, Chunk \/ NextTest \/ Finish \/ Returned \/ UNCHANGED vars
  PROVE  Arguments'
<1>1. UNCHANGED control_vars /\ polls' = polls
      /\ (step' = step \/ (Chunk /\ step' = 1))
  BY DEF Chunk, NextTest, Finish, Returned, vars, runtime_vars
<1>2. Last' = Last /\ writes' = writes
  BY <1>1 DEF Last, writes
<1>3. CASE step' = step
  BY <1>1, <1>2, <1>3 DEF Arguments, Told, control_vars
<1>4. CASE Chunk /\ step' = 1
  <2>1. pc # "compute_job"
    BY <1>4 DEF Chunk
  <2>2. wstate \notin {"WRDATA", "WRRESP"}
    BY <2>1 DEF IInv, OnTheBus
  <2>3. \A n \in 1 .. Last : ~Told(n)'
    BY <1>1, <1>4, <2>2 DEF Told, control_vars, Last
  <2> QED
    BY <1>1, <1>2, <2>2, <2>3 DEF Arguments, control_vars
<1> QED
  BY <1>1, <1>3, <1>4

\* When the start is seen, and from then on, the kernel's addresses are right.
LEMMA AddressesTold ==
  ASSUME IInv, Arguments, Starting \/ Launched
  PROVE  /\ <<int_data["input_mem_0"], int_data["input_mem_1"]>> = IN_ADDR
         /\ <<int_data["output_mem_0"], int_data["output_mem_1"]>> = OUT_ADDR
<1>1. \A n \in 1 .. Last : n < Start => Told(n)
  <2>1. step \in Int /\ Start \in Int /\ Last \in Int
    BY DEF IInv, OnTheBus, Start, Last
  <2>2. step >= Start
    <3>1. Starting \/ Launched
      OBVIOUS
    <3>2. Starting => step = Start
      BY DEF Starting
    <3>3. Launched => step >= Start
      BY DEF Launched
    <3> QED
      BY <2>1, <3>1, <3>2, <3>3
  <2> QED
    BY <2>1, <2>2 DEF Told
<1>2. \A r \in DataRegisters : int_data[r] = Arg(r)
  <2>1. \A r \in DataRegisters : \E n \in 1 .. Last : n < Start /\ writes[n][1] = r
    BY ArgumentWrites DEF IInv, OnTheBus
  <2> QED
    BY <1>1, <2>1 DEF Arguments
<1> QED
  BY <1>2 DEF DataRegisters, Arg, IN_ADDR, OUT_ADDR

-----------------------------------------------------------------------------
(***************************************************************************)
(* The data's invariant.                                                   *)
(***************************************************************************)
\* The chunk's squarings in software: check_job's.
Chain(n) == Squares(msu_sq_in, modulus, t_final)[n]

\* The host's constants are those of its modulus.
Constants ==
  /\ Sized(modulus) /\ factor = Factor(modulus)
  /\ reciprocal_sq = (reducer * reducer) % modulus

\* Inputs, and the values a chunk may start from or leave behind.
HostData ==
  /\ hw_emu \in BOOLEAN /\ intermediate_iters \in Nat \ {0}
  /\ sq_in \in 0 .. reducer - 1 /\ rand_state \in 0 .. modulus - 1
  /\ sq_in = 0 => rand_state # 0
  /\ test \in 0 .. test_iterations /\ iter \in Nat /\ failures \in {0, 1}
  /\ pc \in {"loop", "compute_job", "return"}
  /\ pc # "return" => test < test_iterations /\ failures = 0
  /\ pc # "compute_job" /\ jobs > 0 => sq_out \in 1 .. modulus
  /\ failures > 0 => sq_out = modulus

\* A job, and its answer when the kernel has written it.
JobData ==
  /\ iter < t_final /\ msu_sq_in \in 1 .. reducer - 1
  /\ in_buffer = pack(run_t_final, msu_sq_in)
  /\ ended = jobs => \E v \in 1 .. 2 * modulus - 1 : \E words \in Redundant(v) :
       /\ out_buffer = [t_current |-> run_t_final - 1, words |-> words]
       /\ StandsFor(v, Chain(run_t_final), modulus)

KernelData ==
  /\ value \in 0 .. 2 * modulus - 1 /\ squared \in 0 .. t_final
  /\ kernel = "read" => in_addr = IN_ADDR
  /\ kernel = "square" =>
       /\ request = in_buffer /\ squared \in 0 .. run_t_final
       /\ StandsFor(value, Chain(squared), modulus)

\* Everything there is to say of the data.
Data ==
  /\ {int_gie, int_ier, int_isr} \subseteq BOOLEAN
  /\ Constants /\ HostData /\ KernelData
  /\ pc = "compute_job" => JobData

\* How far the job has come.
Place ==
  IF ended = jobs THEN run_t_final
  ELSE IF begun = jobs /\ kernel = "square" THEN squared ELSE 0

\* The residue is that of the chunk's squarings so far; none is counted twice.
Where ==
  IF pc = "compute_job"
  THEN /\ Place \in 0 .. run_t_final /\ residue = Chain(Place) % modulus
       /\ squarings = test * t_final + iter + Place
  ELSE /\ residue = (IF sq_in # 0 THEN sq_in ELSE rand_state) % modulus
       /\ squarings = test * t_final + Min(iter, t_final)

\* At the start: the constants are computed, no job is under way.
LEMMA InitData == Init => Data
<1> SUFFICES ASSUME Init PROVE Data
  OBVIOUS
<1>1. HostInit /\ jobs = 0 /\ ended = 0 /\ kernel = "idle" /\ value = 0 /\ squared = 0
      /\ int_gie = FALSE /\ int_ier = FALSE /\ int_isr = FALSE
  BY DEF Init, ControlInit
<1>2. PICK input \in Inputs : modulus = input[1] /\ sq_in = input[2]
  BY <1>1 DEF HostInit
<1>3. Sized(modulus) /\ modulus \in Nat /\ modulus >= 3 /\ sq_in \in 0 .. reducer - 1
  BY <1>2, JobAssumption DEF Sized, Odd
<1>4. Constants
  <2>1. factor = mont_init(modulus).factor /\ reciprocal_sq = mont_init(modulus).reciprocal_sq
    BY <1>1 DEF HostInit
  <2>2. mont_init(modulus).factor = Factor(modulus)
    BY <1>3, FactorsAgree DEF Sized
  <2>3. mont_init(modulus).reciprocal_sq = (reducer * reducer) % modulus
    BY DEF mont_init
  <2> QED
    BY <1>3, <2>1, <2>2, <2>3 DEF Constants
<1>5. HostData
  <2>1. intermediate_iters \in Nat \ {0}
    BY <1>1, JobAssumption DEF HostInit
  <2>2. rand_state \in 0 .. modulus - 1 /\ (sq_in = 0 => rand_state # 0)
    BY <1>1, <1>3 DEF HostInit
  <2>3. test = 0 /\ iter = 0 /\ failures = 0 /\ pc = "loop" /\ hw_emu \in BOOLEAN
    BY <1>1 DEF HostInit
  <2>4. test_iterations \in Nat \ {0}
    BY JobAssumption
  <2> QED
    BY <1>1, <1>3, <2>1, <2>2, <2>3, <2>4 DEF HostData
<1>6. KernelData
  BY <1>1, <1>3, JobAssumption DEF KernelData
<1>7. pc # "compute_job"
  BY <1>1 DEF HostInit
<1> QED
  BY <1>1, <1>4, <1>5, <1>6, <1>7 DEF Data

-----------------------------------------------------------------------------
(***************************************************************************)
(* Inside a job.                                                           *)
(***************************************************************************)
\* Which phase the kernel's and the runtime's doings belong to.
LEMMA PhaseIs ==
  ASSUME IInv
  PROVE  /\ kernel \in {"read", "square"} => Running /\ pc = "compute_job" /\ Launched
         /\ kernel = "idle" /\ ap_start_pulse =>
              Starting /\ ended # jobs /\ begun # jobs /\ pc = "compute_job"
         /\ kernel = "done" => ended = jobs
         /\ step = 0 => kernel = "idle" /\ ended = jobs /\ begun = jobs /\ ~ap_start_pulse
<1>1. Phase /\ Counts /\ OnTheBus
  BY DEF IInv
<1>2. kernel \in {"read", "square"} => Running
  BY <1>1 DEF Phase, Resting, Starting, Ending, Ended, Done, Reported
<1>3. Running \/ Starting => step # 0
  <2>1. step = 0 => ~Launched
    BY DEF Launched, Start
  <2>2. step = 0 => ~Starting
    BY DEF Starting, Start
  <2> QED
    BY <2>1, <2>2 DEF Running
<1>4. kernel = "idle" /\ ap_start_pulse => Starting
  BY <1>1 DEF Phase, Resting, Running, Ending, Ended, Done, Reported, Registers, ap_start_pulse
<1>5. Starting => ended # jobs /\ begun # jobs
  BY <1>1 DEF Starting, Counts
<1>6. kernel = "done" => ended = jobs
  BY <1>1 DEF Phase, Resting, Starting, Running, Ending, Ended, Done, Reported
<1>7. step # 0 => pc = "compute_job"
  BY <1>1 DEF OnTheBus
<1>8. step = 0 => Resting
  <2>1. step = 0 => ~Launched
    BY DEF Launched, Start
  <2>2. step = 0 => ~Starting /\ ~Reported
    BY DEF Starting, Start, Reported, Launched
  <2> QED
    BY <1>1, <2>1, <2>2 DEF Phase, Running, Ending, Ended, Done
<1>9. Resting /\ step = 0 => kernel = "idle" /\ ended = jobs /\ begun = jobs /\ ~ap_start_pulse
  BY DEF Resting, Registers, ap_start_pulse
<1>10. Running => Launched
  BY DEF Running
<1> QED
  BY <1>2, <1>3, <1>4, <1>5, <1>6, <1>7, <1>8, <1>9, <1>10

\* A chunk is not empty and does not go beyond the last iteration.
LEMMA RunLength ==
  ASSUME intermediate_iters \in Nat \ {0}, iter \in Nat, iter < t_final
  PROVE  /\ run_t_final \in 1 .. t_final /\ run_t_final \in Nat
         /\ iter + run_t_final = Min(iter + intermediate_iters, t_final)
BY JobAssumption DEF run_t_final, Min

\* What Squares says of the chunk under way.
LEMMA ChainIs ==
  ASSUME Constants, msu_sq_in \in 1 .. reducer - 1
  PROVE  /\ Chain(0) = msu_sq_in
         /\ \A n \in 0 .. t_final : Chain(n) \in Nat
         /\ \A n \in 0 .. t_final : n > 0 => Chain(n) = (Chain(n - 1) * Chain(n - 1)) % modulus
<1>1. modulus \in Nat \ {0} /\ msu_sq_in \in Nat /\ t_final \in Nat
  BY JobAssumption DEF Constants, Sized, Odd
<1> QED
  BY <1>1, SquaresAre DEF Chain

\* The answer, back in the host's hands.
LEMMA Unpacked ==
  ASSUME Constants, NEW x \in Int, NEW v \in 1 .. 2 * modulus - 1, NEW words \in Redundant(v),
         StandsFor(v, x, modulus), NEW n
  PROVE  /\ unpack([t_current |-> n, words |-> words]) \in 1 .. modulus
         /\ Same(unpack([t_current |-> n, words |-> words]), x, modulus)
<1>1. Sized(modulus) /\ modulus \in Nat /\ modulus >= 3 /\ 4 * modulus <= reducer
  BY DEF Constants, Sized, Odd
<1>2. v \in Nat /\ v < reducer
  BY <1>1, Radix
<1>3. reduce_polynomial(words) = v
  BY <1>2, WordsAddUp
<1>4. unpack([t_current |-> n, words |-> words]) = mont_mult(v, 1, modulus, Factor(modulus))
  BY <1>3 DEF unpack, from_mont, Constants
<1> QED
  BY <1>1, <1>4, FromMont

\* What depends on the host's variables alone stays when they do.
LEMMA HostStays ==
  ASSUME UNCHANGED host_vars
  PROVE  /\ pc' = pc /\ modulus' = modulus /\ run_t_final' = run_t_final
         /\ \A n : Chain(n)' = Chain(n)
         /\ Constants' = Constants
         /\ jobs' = jobs => HostData' = HostData
         /\ pack(run_t_final, msu_sq_in)' = pack(run_t_final, msu_sq_in)
         /\ iter' = iter /\ msu_sq_in' = msu_sq_in /\ test' = test
<1>1. /\ modulus' = modulus /\ factor' = factor /\ reciprocal_sq' = reciprocal_sq
      /\ hw_emu' = hw_emu /\ intermediate_iters' = intermediate_iters /\ sq_in' = sq_in
      /\ rand_state' = rand_state /\ test' = test /\ iter' = iter /\ pc' = pc
      /\ msu_sq_in' = msu_sq_in /\ sq_out' = sq_out /\ failures' = failures
  BY DEF host_vars
<1>2. run_t_final' = run_t_final
  BY <1>1 DEF run_t_final
<1>3. ASSUME NEW n PROVE Chain(n)' = Chain(n)
  BY <1>1 DEF Chain
<1>4. Constants' = Constants
  BY <1>1 DEF Constants
<1>5. jobs' = jobs => HostData' = HostData
  BY <1>1 DEF HostData
<1>6. pack(run_t_final, msu_sq_in)' = pack(run_t_final, msu_sq_in)
  BY <1>1, <1>2 DEF pack, to_mont
<1> QED
  BY <1>1, <1>2, <1>3, <1>4, <1>5, <1>6

\* The kernel reads the request and begins with the chunk's input.
LEMMA ReadsRequest ==
  ASSUME IInv, Arguments, Data, KernelReads
  PROVE  /\ request' = in_buffer /\ squared' = 0 /\ kernel' = "square"
         /\ in_buffer = pack(run_t_final, msu_sq_in)
         /\ StandsFor(value', Chain(0), modulus)
<1>1. kernel = "read"
  BY DEF KernelReads
<1>2. pc = "compute_job"
  BY <1>1, PhaseIs
<1>3. JobData /\ Constants /\ in_addr = IN_ADDR
  BY <1>1, <1>2 DEF Data, KernelData
<1>4. request' = in_buffer /\ value' = request'.sq_in /\ squared' = request'.t_start
      /\ kernel' = "square"
  BY <1>3 DEF KernelReads
<1>5. in_buffer = pack(run_t_final, msu_sq_in) /\ msu_sq_in \in 1 .. reducer - 1
  BY <1>3 DEF JobData
<1>6. value' = to_mont(msu_sq_in) /\ squared' = 0
  BY <1>4, <1>5 DEF pack
<1>7. Sized(modulus)
      /\ to_mont(msu_sq_in)
         = mont_mult(msu_sq_in, (reducer * reducer) % modulus, modulus, Factor(modulus))
  BY <1>3 DEF Constants, to_mont
<1>8. StandsFor(value', msu_sq_in, modulus)
  BY <1>5, <1>6, <1>7, ToMont
<1> QED
  BY <1>3, <1>4, <1>5, <1>6, <1>8, ChainIs

\* A squaring of the kernel is one of the software's.
LEMMA SquaresOnce ==
  ASSUME IInv, Data, KernelSquares
  PROVE  /\ squared \in 0 .. run_t_final - 1 /\ squared' = squared + 1
         /\ StandsFor(value', Chain(squared + 1), modulus)
<1>1. kernel = "square" /\ squared # request.t_final /\ squared' = squared + 1
      /\ value' = mont_mult(value, value, modulus, calculate_mont_factor(modulus))
  BY DEF KernelSquares
<1>2. pc = "compute_job"
  BY <1>1, PhaseIs
<1>3. JobData /\ Constants /\ request = in_buffer /\ squared \in 0 .. run_t_final
      /\ StandsFor(value, Chain(squared), modulus)
      /\ iter \in Nat /\ intermediate_iters \in Nat \ {0}
  BY <1>1, <1>2 DEF Data, KernelData, HostData
<1>4. run_t_final \in 1 .. t_final /\ run_t_final \in Nat /\ t_final \in Nat
  BY <1>3, RunLength, JobAssumption DEF JobData
<1>5. request.t_final = run_t_final
  BY <1>3 DEF JobData, pack
<1>6. squared \in 0 .. run_t_final - 1
  BY <1>1, <1>3, <1>4, <1>5
<1>7. Sized(modulus) /\ Odd(modulus)
  BY <1>3 DEF Constants, Sized
<1>8. value' = mont_mult(value, value, modulus, Factor(modulus))
  BY <1>1, <1>7, FactorsAgree
<1> DEFINE x == Chain(squared)
           w == value'
<1>9. x \in Nat /\ Chain(squared + 1) = (x * x) % modulus
  <2>1. squared \in 0 .. t_final /\ squared + 1 \in 0 .. t_final /\ squared + 1 > 0
        /\ (squared + 1) - 1 = squared
    BY <1>4, <1>6
  <2>2. msu_sq_in \in 1 .. reducer - 1
    BY <1>3 DEF JobData
  <2> QED
    BY <1>3, <2>1, <2>2, ChainIs
<1>10. StandsFor(value, x, modulus) /\ w = mont_mult(value, value, modulus, Factor(modulus))
  BY <1>3, <1>8
<1> HIDE DEF x, w
<1>11. StandsFor(w, (x * x) % modulus, modulus)
  BY <1>7, <1>9, <1>10, Squaring
<1> QED
  BY <1>1, <1>6, <1>9, <1>11 DEF w

\* The answer is written where the host will read it.
LEMMA WritesAnswer ==
  ASSUME IInv, Arguments, Data, KernelWrites
  PROVE  /\ squared = run_t_final /\ ended' = ended + 1
         /\ \E words \in Redundant(value) :
              out_buffer' = [t_current |-> run_t_final - 1, words |-> words]
         /\ StandsFor(value, Chain(run_t_final), modulus)
<1>1. kernel = "square" /\ squared = request.t_final /\ ended' = ended + 1
  BY DEF KernelWrites
<1>2. pc = "compute_job" /\ Launched
  BY <1>1, PhaseIs
<1>3. JobData /\ request = in_buffer /\ StandsFor(value, Chain(squared), modulus)
  BY <1>1, <1>2 DEF Data, KernelData
<1>4. squared = run_t_final
  BY <1>1, <1>3 DEF JobData, pack
<1>5. <<int_data["output_mem_0"], int_data["output_mem_1"]>> = OUT_ADDR
  BY <1>2, AddressesTold
<1>6. \E words \in Redundant(value) : out_buffer' = [t_current |-> squared - 1, words |-> words]
  BY <1>5 DEF KernelWrites
<1> QED
  BY <1>1, <1>3, <1>4, <1>6

\* The interrupt registers are bits.
LEMMA InterruptsAreBits ==
  ASSUME {int_gie, int_ier, int_isr} \subseteq BOOLEAN,
         NEW areset \in BOOLEAN, NEW bus \in Offers, Clk(areset, bus)
  PROVE  {int_gie', int_ier', int_isr'} \subseteq BOOLEAN
<1>1. PICK written : InterruptRegisters(areset, written, bus.wdata)
  BY DEF Clk, ControlClk
<1>2. int_gie' \in BOOLEAN
  BY <1>1 DEF InterruptRegisters
<1>3. int_ier' \in BOOLEAN
  BY <1>1 DEF InterruptRegisters
<1>4. int_isr' \in BOOLEAN
  BY <1>1 DEF InterruptRegisters
<1> QED
  BY <1>2, <1>3, <1>4

\* What the kernel does on an edge, in each of its states.
LEMMA KernelCases ==
  ASSUME Kernel
  PROVE  \/ KernelReads \/ KernelSquares \/ KernelWrites
         \/ /\ kernel = "idle" /\ ap_start_pulse /\ kernel' = "read" /\ begun' = begun + 1
            /\ in_addr' = <<int_data["input_mem_0"], int_data["input_mem_1"]>>
            /\ UNCHANGED <<request, value, squared, out_buffer, ended>>
         \/ /\ kernel' \in {"idle", kernel} /\ (kernel = "square" => kernel' = "square")
            /\ (kernel' # "idle" => in_addr' = in_addr)
            /\ UNCHANGED <<request, value, squared, out_buffer, begun, ended>>
BY DEF Kernel, KernelMoves, KernelIdle, KernelWaits, KernelDone, ap_done_i, kernel_vars

\* An edge keeps the data in order.
LEMMA DataClock ==
  ASSUME IInv, Arguments, Data, NEW areset \in BOOLEAN, NEW bus \in Offers, Clk(areset, bus)
  PROVE  Data'
<1>1. /\ UNCHANGED host_vars /\ Kernel
      /\ jobs' = jobs /\ in_buffer' = in_buffer
  BY DEF Clk, Runtime
<1>2. {int_gie', int_ier', int_isr'} \subseteq BOOLEAN
  BY InterruptsAreBits DEF Data
<1>3. Constants' /\ HostData'
  BY <1>1, HostStays DEF Data
<1>4. /\ pc' = pc /\ modulus' = modulus /\ run_t_final' = run_t_final /\ iter' = iter
      /\ msu_sq_in' = msu_sq_in
      /\ \A n : Chain(n)' = Chain(n)
      /\ pack(run_t_final, msu_sq_in)' = pack(run_t_final, msu_sq_in)
  BY <1>1, HostStays
<1>5. modulus \in Nat \ {0} /\ t_final \in Nat /\ iter \in Nat /\ intermediate_iters \in Nat \ {0}
  BY JobAssumption DEF Data, Constants, HostData, Sized, Odd
<1>6. pc = "compute_job" => JobData /\ run_t_final \in 1 .. t_final /\ run_t_final \in Nat
  BY <1>5, RunLength DEF Data, JobData
<1>7. ASSUME out_buffer' = out_buffer, ended' = ended, pc = "compute_job" PROVE JobData'
  <2>1. \A v \in 1 .. 2 * modulus - 1 :
          StandsFor(v, Chain(run_t_final), modulus)'
          = StandsFor(v, Chain(run_t_final), modulus)
    BY <1>4
  <2> QED
    BY <1>1, <1>4, <1>6, <1>7, <2>1 DEF JobData
<1>8. CASE KernelReads
  <2>1. /\ request' = in_buffer' /\ squared' = 0 /\ kernel' = "square"
        /\ StandsFor(value', Chain(0), modulus)
    BY <1>1, <1>8, ReadsRequest
  <2>2. pc = "compute_job"
    BY <1>8, PhaseIs DEF KernelReads
  <2>3. Chain(squared)' = Chain(0)
    BY <1>4, <2>1
  <2>4. StandsFor(value, Chain(squared), modulus)'
    BY <1>4, <2>1, <2>3
  <2>5. value' \in 0 .. 2 * modulus' - 1
    BY <1>4, <1>5, <2>1 DEF StandsFor
  <2>6. KernelData'
    BY <1>4, <1>5, <1>6, <2>1, <2>2, <2>4, <2>5 DEF KernelData
  <2>7. JobData'
    BY <1>7, <1>8, <2>2 DEF KernelReads
  <2> QED
    BY <1>2, <1>3, <2>6, <2>7 DEF Data
<1>9. CASE KernelSquares
  <2>1. squared \in 0 .. run_t_final - 1 /\ squared' = squared + 1
        /\ StandsFor(value', Chain(squared + 1), modulus)
    BY <1>9, SquaresOnce
  <2>2. pc = "compute_job" /\ kernel = "square" /\ kernel' = kernel /\ request' = request
        /\ request = in_buffer
    BY <1>9, PhaseIs DEF KernelSquares, Data, KernelData
  <2>3. Chain(squared)' = Chain(squared + 1)
    BY <1>4, <2>1
  <2>4. StandsFor(value, Chain(squared), modulus)'
    BY <1>4, <2>1, <2>3
  <2>5. value' \in 0 .. 2 * modulus' - 1
    BY <1>4, <1>5, <2>1 DEF StandsFor
  <2>6. squared' \in 0 .. run_t_final /\ squared' \in 0 .. t_final
    BY <1>5, <1>6, <2>1, <2>2
  <2>7. KernelData'
    BY <1>1, <1>4, <2>2, <2>4, <2>5, <2>6 DEF KernelData
  <2>8. JobData'
    BY <1>7, <1>9, <2>2 DEF KernelSquares
  <2> QED
    BY <1>2, <1>3, <2>7, <2>8 DEF Data
<1>10. CASE KernelWrites
  <2>1. /\ \E words \in Redundant(value) :
             out_buffer' = [t_current |-> run_t_final - 1, words |-> words]
        /\ StandsFor(value, Chain(run_t_final), modulus)
    BY <1>10, WritesAnswer
  <2>2. kernel' = "done" /\ value' = value /\ squared' = squared
        /\ value \in 0 .. 2 * modulus - 1 /\ squared \in 0 .. t_final
    BY <1>10 DEF KernelWrites, Data, KernelData
  <2>3. KernelData'
    BY <1>4, <2>2 DEF KernelData
  <2>4. pc = "compute_job" => JobData'
    <3> SUFFICES ASSUME pc = "compute_job" PROVE JobData'
      OBVIOUS
    <3>1. value \in 1 .. 2 * modulus' - 1
      BY <1>4, <2>1 DEF StandsFor
    <3>2. PICK words \in Redundant(value) :
            out_buffer' = [t_current |-> run_t_final' - 1, words |-> words]
      BY <1>4, <2>1
    <3>3. StandsFor(value, Chain(run_t_final)', modulus')
      BY <1>4, <2>1
    <3>4. iter' < t_final /\ msu_sq_in' \in 1 .. reducer - 1
          /\ in_buffer' = pack(run_t_final, msu_sq_in)'
      BY <1>1, <1>4, <1>6 DEF JobData
    <3> QED
      BY <3>1, <3>2, <3>3, <3>4 DEF JobData
  <2> QED
    BY <1>2, <1>3, <1>4, <2>3, <2>4 DEF Data
<1>11. CASE /\ kernel = "idle" /\ ap_start_pulse /\ kernel' = "read" /\ begun' = begun + 1
            /\ in_addr' = <<int_data["input_mem_0"], int_data["input_mem_1"]>>
            /\ UNCHANGED <<request, value, squared, out_buffer, ended>>
  <2>1. in_addr' = IN_ADDR
    BY <1>11, PhaseIs, AddressesTold
  <2>2. KernelData'
    BY <1>4, <1>11, <2>1 DEF KernelData, Data
  <2>3. pc = "compute_job" => JobData'
    BY <1>7, <1>11
  <2> QED
    BY <1>2, <1>3, <1>4, <2>2, <2>3 DEF Data
<1>12. CASE /\ kernel' \in {"idle", kernel} /\ (kernel = "square" => kernel' = "square")
            /\ (kernel' # "idle" => in_addr' = in_addr)
            /\ UNCHANGED <<request, value, squared, out_buffer, begun, ended>>
  <2>1. StandsFor(value, Chain(squared), modulus)' = StandsFor(value, Chain(squared), modulus)
    <3>1. Chain(squared)' = Chain(squared)
      BY <1>4, <1>12
    <3> QED
      BY <1>4, <1>12, <3>1
  <2>2. KernelData'
    BY <1>1, <1>4, <1>12, <2>1 DEF KernelData, Data
  <2>3. pc = "compute_job" => JobData'
    BY <1>7, <1>12
  <2> QED
    BY <1>2, <1>3, <1>4, <2>2, <2>3 DEF Data
<1> QED
  BY <1>1, <1>8, <1>9, <1>10, <1>11, <1>12, KernelCases

-----------------------------------------------------------------------------
(***************************************************************************)
(* The host's steps.                                                       *)
(***************************************************************************)
\* Between two jobs, and in a job that is over.
LEMMA JobIsOver ==
  ASSUME IInv, step = 0 \/ pc # "compute_job"
  PROVE  step = 0 /\ kernel = "idle" /\ ended = jobs /\ begun = jobs /\ jobs \in Nat
<1>1. step = 0
  BY DEF IInv, OnTheBus
<1> QED
  BY <1>1, PhaseIs DEF IInv, Counts

\* A chunk is packed as JobData has it, and the kernel has not begun.
LEMMA DataChunk ==
  ASSUME IInv, Data, Chunk
  PROVE  Data' /\ ended' # jobs'
         /\ msu_sq_in' = (IF sq_in # 0 THEN sq_in ELSE rand_state)
<1>1. /\ pc = "loop" /\ test < test_iterations /\ iter < t_final
      /\ msu_sq_in' = (IF sq_in # 0 THEN sq_in ELSE rand_state)
      /\ in_buffer' = pack(run_t_final, msu_sq_in')
      /\ pc' = "compute_job" /\ jobs' = jobs + 1
      /\ UNCHANGED <<modulus, factor, reciprocal_sq, hw_emu, intermediate_iters, sq_in,
                     rand_state, test, iter, sq_out, failures>>
      /\ UNCHANGED control_vars /\ UNCHANGED kernel_vars
  BY DEF Chunk
<1>2. kernel = "idle" /\ ended = jobs /\ jobs \in Nat
  BY <1>1, JobIsOver
<1>3. kernel' = "idle" /\ ended' # jobs' /\ value' = value /\ squared' = squared
  BY <1>1, <1>2 DEF kernel_vars
<1>4. {int_gie', int_ier', int_isr'} \subseteq BOOLEAN
  BY <1>1 DEF Data, control_vars
<1>5. Constants'
  BY <1>1 DEF Data, Constants
<1>6. HostData'
  BY <1>1 DEF Data, HostData
<1>7. KernelData'
  BY <1>1, <1>3 DEF Data, KernelData
<1>8. modulus \in Nat /\ modulus < reducer /\ 0 < modulus
  BY Radix DEF Data, Constants, Sized, Odd
<1>9. msu_sq_in' \in 1 .. reducer - 1
  BY <1>1, <1>8, Radix DEF Data, HostData
<1>10. in_buffer' = pack(run_t_final, msu_sq_in)'
  <2>1. run_t_final' = run_t_final
    BY <1>1 DEF run_t_final
  <2> QED
    BY <1>1, <2>1 DEF pack, to_mont
<1>11. JobData'
  BY <1>1, <1>3, <1>9, <1>10 DEF JobData
<1> QED
  BY <1>1, <1>3, <1>4, <1>5, <1>6, <1>7, <1>11 DEF Data

\* What Finish finds in the answer's buffer.
LEMMA AnswerIs ==
  ASSUME IInv, Data, pc = "compute_job", ended = jobs
  PROVE  /\ unpack(out_buffer) \in 1 .. modulus
         /\ Same(unpack(out_buffer), Chain(run_t_final), modulus)
         /\ out_buffer.t_current + 1 = run_t_final
         /\ Chain(run_t_final) \in 0 .. modulus - 1
<1>1. JobData /\ Constants /\ iter \in Nat /\ intermediate_iters \in Nat \ {0}
  BY DEF Data, HostData
<1>2. run_t_final \in 1 .. t_final /\ run_t_final \in Nat
  BY <1>1, RunLength DEF JobData
<1>3. PICK v \in 1 .. 2 * modulus - 1 : \E words \in Redundant(v) :
        /\ out_buffer = [t_current |-> run_t_final - 1, words |-> words]
        /\ StandsFor(v, Chain(run_t_final), modulus)
  BY <1>1 DEF JobData
<1>4. PICK words \in Redundant(v) :
        /\ out_buffer = [t_current |-> run_t_final - 1, words |-> words]
        /\ StandsFor(v, Chain(run_t_final), modulus)
  BY <1>3
<1>5. out_buffer.t_current + 1 = run_t_final
  BY <1>2, <1>4
<1>6. msu_sq_in \in 1 .. reducer - 1 /\ t_final \in Nat
  BY <1>1, JobAssumption DEF JobData
<1>7. /\ Chain(run_t_final) \in Nat /\ Chain(run_t_final - 1) \in Nat
      /\ Chain(run_t_final) = (Chain(run_t_final - 1) * Chain(run_t_final - 1)) % modulus
  <2>1. run_t_final \in 0 .. t_final /\ run_t_final - 1 \in 0 .. t_final /\ run_t_final > 0
    BY <1>2, <1>6
  <2> QED
    BY <1>1, <1>6, <2>1, ChainIs
<1>8. Chain(run_t_final) \in 0 .. modulus - 1
  <2> DEFINE x == Chain(run_t_final - 1)
             z == x * x
  <2>1. z \in Int /\ modulus \in Nat \ {0} /\ Chain(run_t_final) = z % modulus
    BY <1>1, <1>7 DEF Constants, Sized, Odd
  <2> HIDE DEF z
  <2> QED
    BY <2>1, Divided
<1> DEFINE x == Chain(run_t_final)
           n == run_t_final - 1
<1>9. x \in Int /\ StandsFor(v, x, modulus) /\ out_buffer = [t_current |-> n, words |-> words]
  BY <1>4, <1>7
<1> HIDE DEF x, n
<1>10. unpack(out_buffer) \in 1 .. modulus /\ Same(unpack(out_buffer), x, modulus)
  BY <1>1, <1>9, Unpacked
<1> QED
  BY <1>5, <1>8, <1>10 DEF x

\* check_job compares with the chunk's squarings.
LEMMA ExpectedIs == expected = Chain(run_t_final)
BY DEF expected, Chain, Squares

\* An answer is right, or the modulus.
LEMMA DataFinish ==
  ASSUME IInv, Data, Finish
  PROVE  Data'
<1>1. /\ pc = "compute_job" /\ step = 0
      /\ sq_out' = unpack(out_buffer)
      /\ failures' = (IF hw_emu /\ sq_out' # expected THEN failures + 1 ELSE failures)
      /\ iter' = iter + intermediate_iters
      /\ sq_in' = sq_out'
      /\ pc' = (IF failures' > 0 THEN "return" ELSE "loop")
      /\ UNCHANGED <<modulus, factor, reciprocal_sq, hw_emu, intermediate_iters,
                     rand_state, test>>
      /\ UNCHANGED <<runtime_vars, control_vars, kernel_vars>>
  BY DEF Finish
<1>2. ended = jobs /\ kernel = "idle"
  BY <1>1, JobIsOver
<1>3. /\ sq_out' \in 1 .. modulus /\ Same(sq_out', expected, modulus)
      /\ expected \in 0 .. modulus - 1
  BY <1>1, <1>2, AnswerIs, ExpectedIs
<1>4. modulus \in Nat \ {0} /\ modulus < reducer /\ reducer \in Nat
  BY Radix DEF Data, Constants, Sized, Odd
<1>5. sq_out' # expected => sq_out' = modulus
  <2> DEFINE y == sq_out'
             e == expected
  <2> SUFFICES ASSUME y # modulus PROVE y = e
    OBVIOUS
  <2>1. y \in 0 .. modulus - 1 /\ e \in 0 .. modulus - 1 /\ Same(y, e, modulus)
    BY <1>3, <1>4
  <2> HIDE DEF y, e
  <2>2. y % modulus = y /\ e % modulus = e
    BY <1>4, <2>1, SmallRemainder
  <2> QED
    BY <2>1, <2>2 DEF Same
<1>6. {int_gie', int_ier', int_isr'} \subseteq BOOLEAN
  BY <1>1 DEF Data, control_vars
<1>7. Constants'
  BY <1>1 DEF Data, Constants
<1>8. sq_in' \in 0 .. reducer' - 1 /\ sq_in' # 0 /\ iter' \in Nat
  BY <1>1, <1>3, <1>4 DEF Data, HostData
<1>9. failures = 0 /\ failures' \in {0, 1} /\ (failures' > 0 => sq_out' = modulus)
  BY <1>1, <1>5 DEF Data, HostData
<1>10. HostData'
  BY <1>1, <1>3, <1>8, <1>9 DEF Data, HostData
<1>11. KernelData'
  BY <1>1, <1>2 DEF Data, KernelData, kernel_vars
<1>12. pc' # "compute_job"
  BY <1>1
<1> QED
  BY <1>6, <1>7, <1>10, <1>11, <1>12 DEF Data

\* The next test goes on from the same value.
LEMMA DataNextTest ==
  ASSUME IInv, Data, NextTest
  PROVE  Data'
<1>1. /\ pc = "loop" /\ test < test_iterations
      /\ test' = test + 1 /\ iter' = 0
      /\ pc' = (IF test' = test_iterations THEN "return" ELSE "loop")
      /\ UNCHANGED <<modulus, factor, reciprocal_sq, hw_emu, intermediate_iters, sq_in,
                     rand_state, sq_out, failures>>
      /\ UNCHANGED <<runtime_vars, control_vars, kernel_vars>>
  BY DEF NextTest
<1>2. kernel = "idle"
  BY <1>1, JobIsOver
<1>3. {int_gie', int_ier', int_isr'} \subseteq BOOLEAN /\ Constants'
  BY <1>1 DEF Data, control_vars, Constants
<1>4. HostData'
  BY <1>1, JobAssumption DEF Data, HostData, runtime_vars
<1>5. KernelData'
  BY <1>1, <1>2 DEF Data, KernelData, kernel_vars
<1>6. pc' # "compute_job"
  BY <1>1
<1> QED
  BY <1>3, <1>4, <1>5, <1>6 DEF Data

\* A step that changes nothing.
LEMMA DataStutter ==
  ASSUME Data, UNCHANGED vars
  PROVE  Data'
<1>1. UNCHANGED host_vars /\ UNCHANGED runtime_vars /\ UNCHANGED control_vars
      /\ UNCHANGED kernel_vars
  BY DEF vars
<1>2. /\ pc' = pc /\ modulus' = modulus /\ run_t_final' = run_t_final /\ iter' = iter
      /\ msu_sq_in' = msu_sq_in /\ jobs' = jobs
      /\ \A n : Chain(n)' = Chain(n)
      /\ Constants' = Constants /\ HostData' = HostData
      /\ pack(run_t_final, msu_sq_in)' = pack(run_t_final, msu_sq_in)
  BY <1>1, HostStays DEF runtime_vars
<1>3. KernelData' = KernelData
  <2>1. StandsFor(value, Chain(squared), modulus)' = StandsFor(value, Chain(squared), modulus)
    <3>1. squared' = squared /\ value' = value
      BY <1>1 DEF kernel_vars
    <3>2. Chain(squared)' = Chain(squared)
      BY <1>2, <3>1
    <3> QED
      BY <1>2, <3>1, <3>2
  <2> QED
    BY <1>1, <1>2, <2>1 DEF KernelData, kernel_vars, runtime_vars
<1>4. JobData' = JobData
  <2>1. \A v : StandsFor(v, Chain(run_t_final), modulus)'
               = StandsFor(v, Chain(run_t_final), modulus)
    BY <1>2
  <2> QED
    BY <1>1, <1>2, <2>1 DEF JobData, kernel_vars, runtime_vars
<1> QED
  BY <1>1, <1>2, <1>3, <1>4 DEF Data, control_vars

-----------------------------------------------------------------------------
(* The data's invariant, and what it gives *)

\* The whole.
Invariant == IInv /\ Arguments /\ Data

\* What is said of phases, arguments and data is inductive together.
LEMMA InvariantHolds == Spec => []Invariant
<1>1. Init => Invariant
  BY InitIInv, InitArguments, InitData DEF Invariant
<1>2. Invariant /\ [Next]_vars => Invariant'
  <2> SUFFICES ASSUME Invariant, [Next]_vars PROVE Invariant'
    OBVIOUS
  <2>1. IInv /\ Arguments /\ Data /\ OnTheBus
    BY DEF Invariant, IInv
  <2>2. ASSUME NEW areset \in BOOLEAN, NEW bus \in Offers, Clk(areset, bus)
        PROVE  Invariant'
    BY <2>1, <2>2, ClockStep, ArgumentsStep, DataClock DEF Invariant
  <2>3. CASE Chunk
    BY <2>1, <2>3, ChunkStep, ArgumentsKept, DataChunk DEF Invariant
  <2>4. CASE NextTest
    BY <2>1, <2>4, OtherStep, ArgumentsKept, DataNextTest DEF Invariant
  <2>5. CASE Finish
    BY <2>1, <2>5, OtherStep, ArgumentsKept, DataFinish DEF Invariant
  <2>6. CASE Returned \/ UNCHANGED vars
    <3>1. UNCHANGED vars
      BY <2>6 DEF Returned
    <3> QED
      BY <2>1, <3>1, OtherStep, ArgumentsKept, DataStutter DEF Invariant
  <2> QED
    BY <2>2, <2>3, <2>4, <2>5, <2>6 DEF Next, Clock
<1> QED
  BY <1>1, <1>2, PTL DEF Spec

\* Every variable stays in its type.
THEOREM TypeCorrect == Spec => []TypeOK
<1>1. ASSUME Invariant PROVE TypeOK
  <2>1. IInv /\ Arguments /\ Data
    BY <1>1 DEF Invariant
  <2>2. /\ wstate \in {"WRRESET", "WRIDLE", "WRDATA", "WRRESP"}
        /\ rstate \in {"RDRESET", "RDIDLE", "RDDATA"}
        /\ step \in 0 .. Len(writes) + 1
    BY <2>1, Writes DEF IInv, OnTheBus
  <2>3. waddr \in {AP_CTRL, GIE, IER, ISR} \cup DataRegisters
        /\ int_data \in [DataRegisters -> 0 .. 4]
    BY <2>1 DEF Arguments
  <2>4. {int_ap_start, int_ap_done, ap_start_r, ap_idle_r, ap_done_r} \subseteq BOOLEAN
        /\ kernel \in {"idle", "read", "square", "done"}
    BY <2>1 DEF IInv, Phase, Resting, Starting, Running, Ending, Ended, Done, Reported, Registers
  <2>5. /\ {int_gie, int_ier, int_isr} \subseteq BOOLEAN
        /\ value \in 0 .. 2 * modulus - 1 /\ squared \in 0 .. t_final
        /\ test \in 0 .. test_iterations /\ failures \in {0, 1}
        /\ pc \in {"loop", "compute_job", "return"}
    BY <2>1 DEF Data, KernelData, HostData
  <2> QED
    BY <2>2, <2>3, <2>4, <2>5 DEF TypeOK
<1>2. Invariant => TypeOK
  BY <1>1
<1> QED
  BY InvariantHolds, <1>2, PTL

\* No answer is zero, and check_job objects to the modulus alone.
THEOREM ZeroNeverComes == Spec => []ZeroIsNoInput
<1>1. Invariant => ZeroIsNoInput
  BY DEF Invariant, Data, HostData, ZeroIsNoInput
<1> QED
  BY InvariantHolds, <1>1, PTL

-----------------------------------------------------------------------------
(***************************************************************************)
(* Where the computation is.                                               *)
(***************************************************************************)
LEMMA WhereIs == Invariant => Where
<1> SUFFICES ASSUME Invariant PROVE Where
  OBVIOUS
<1>1. IInv /\ Data /\ Constants /\ HostData /\ KernelData
  BY DEF Invariant, Data
<1>2. CASE pc # "compute_job"
  <2> DEFINE s == test * t_final
             m == Min(iter, t_final)
  <2>1. s \in Int /\ m \in Int
    BY <1>1, JobAssumption DEF HostData, Min
  <2>2. squarings = s + m + 0
    BY <1>2 DEF squarings
  <2>3. squarings = s + m
    <3> HIDE DEF s, m
    <3> QED
      BY <2>1, <2>2
  <2> QED
    BY <1>2, <2>3 DEF Where, residue
<1>3. CASE pc = "compute_job"
  <2>1. JobData /\ iter \in Nat /\ intermediate_iters \in Nat \ {0}
    BY <1>1, <1>3 DEF Data, HostData
  <2>2. /\ run_t_final \in 1 .. t_final /\ run_t_final \in Nat /\ Min(iter, t_final) = iter
        /\ t_final \in Nat
    BY <2>1, RunLength, JobAssumption DEF JobData, Min
  <2>3. squarings = test * t_final + iter + Place /\ Place \in 0 .. run_t_final
    <3>1. CASE ended = jobs
      BY <1>1, <1>3, <2>2, <3>1, AnswerIs DEF squarings, Place
    <3>2. CASE ended # jobs
      BY <1>1, <1>3, <2>2, <3>2 DEF squarings, Place, KernelData
    <3> QED
      BY <3>1, <3>2
  <2>4. Sized(modulus) /\ msu_sq_in \in 1 .. reducer - 1 /\ msu_sq_in \in Int
        /\ Chain(0) = msu_sq_in
    BY <1>1, <2>1, ChainIs, Radix DEF JobData, Constants
  <2>5. ASSUME NEW x \in Int, NEW v, StandsFor(v, x, modulus)
        PROVE  from_mont(v) % modulus = x % modulus
    <3>1. from_mont(v) = mont_mult(v, 1, modulus, Factor(modulus))
      BY <1>1 DEF from_mont, Constants
    <3> QED
      BY <2>4, <2>5, <3>1, FromMont DEF Same
  <2>6. residue = Chain(Place) % modulus
    <3>1. CASE ended = jobs
      BY <1>1, <1>3, <3>1, AnswerIs DEF residue, Place, Same
    <3>2. CASE ended # jobs /\ begun = jobs /\ kernel = "square"
      <4>1. squared \in 0 .. t_final /\ StandsFor(value, Chain(squared), modulus)
        BY <1>1, <3>2 DEF KernelData
      <4>2. Chain(squared) \in Int
        BY <1>1, <2>4, <4>1, ChainIs
      <4> QED
        BY <1>3, <2>5, <3>2, <4>1, <4>2 DEF residue, Place
    <3>3. CASE ended # jobs /\ ~(begun = jobs /\ kernel = "square")
      <4>1. in_buffer.sq_in
            = mont_mult(msu_sq_in, (reducer * reducer) % modulus, modulus, Factor(modulus))
        BY <1>1, <2>1 DEF JobData, pack, to_mont, Constants
      <4>2. StandsFor(in_buffer.sq_in, msu_sq_in, modulus)
        BY <2>4, <4>1, ToMont
      <4> QED
        BY <1>3, <2>4, <2>5, <3>3, <4>2 DEF residue, Place
    <3> QED
      BY <3>1, <3>2, <3>3
  <2> QED
    BY <1>3, <2>3, <2>6 DEF Where
<1> QED
  BY <1>2, <1>3

\* An edge leaves the place, or takes it one squaring on.
LEMMA PlaceMoves ==
  ASSUME IInv, Arguments, Data, pc = "compute_job",
         NEW areset \in BOOLEAN, NEW bus \in Offers, Clk(areset, bus)
  PROVE  Place' = Place \/ (Place' = Place + 1 /\ Place \in 0 .. run_t_final - 1)
<1>1. UNCHANGED host_vars /\ Kernel /\ jobs' = jobs
  BY DEF Clk, Runtime
<1>2. run_t_final' = run_t_final
  BY <1>1, HostStays
<1>3. jobs \in Int /\ ended \in Int /\ begun \in Int
  BY DEF IInv, Counts
<1>4. kernel \in {"read", "square"} => ended = jobs - 1 /\ begun = jobs /\ ended # jobs
  <2>1. kernel \in {"read", "square"} => Running /\ Launched
    BY PhaseIs
  <2>2. Running => ended = jobs - 1
    BY DEF Running
  <2>3. Launched => begun = jobs
    BY DEF Launched
  <2> QED
    BY <1>3, <2>1, <2>2, <2>3
<1>5. CASE KernelReads
  <2>1. kernel = "read" /\ ended' = ended /\ begun' = begun
    BY <1>5 DEF KernelReads
  <2>2. kernel' = "square" /\ squared' = 0
    BY <1>5, ReadsRequest
  <2> QED
    BY <1>1, <1>4, <2>1, <2>2 DEF Place
<1>6. CASE KernelSquares
  <2>1. kernel = "square" /\ kernel' = kernel /\ ended' = ended /\ begun' = begun
    BY <1>6 DEF KernelSquares
  <2>2. squared \in 0 .. run_t_final - 1 /\ squared' = squared + 1
    BY <1>6, SquaresOnce
  <2> QED
    BY <1>1, <1>4, <2>1, <2>2 DEF Place
<1>7. CASE KernelWrites
  <2>1. kernel = "square" /\ squared = run_t_final /\ ended' = ended + 1
    BY <1>7, WritesAnswer DEF KernelWrites
  <2> QED
    BY <1>1, <1>2, <1>3, <1>4, <2>1 DEF Place
<1>8. CASE /\ kernel = "idle" /\ ap_start_pulse /\ kernel' = "read" /\ begun' = begun + 1
           /\ in_addr' = <<int_data["input_mem_0"], int_data["input_mem_1"]>>
           /\ UNCHANGED <<request, value, squared, out_buffer, ended>>
  <2>1. ended # jobs
    BY <1>8, PhaseIs
  <2> QED
    BY <1>1, <1>8, <2>1 DEF Place
<1>9. CASE /\ kernel' \in {"idle", kernel} /\ (kernel = "square" => kernel' = "square")
           /\ (kernel' # "idle" => in_addr' = in_addr)
           /\ UNCHANGED <<request, value, squared, out_buffer, begun, ended>>
  BY <1>1, <1>2, <1>9 DEF Place
<1> QED
  BY <1>1, <1>5, <1>6, <1>7, <1>8, <1>9, KernelCases

\* One pass of vdf_basic.py's loop.
Pass ==
  /\ squarings < t_final * test_iterations
  /\ residue' = (residue * residue) % modulus
  /\ squarings' = squarings + 1
  /\ modulus' = modulus

\* Nothing of the loop changes.
Stay == residue' = residue /\ squarings' = squarings /\ modulus' = modulus

\* The squaring that is under way is not one too many.
LEMMA StillToDo ==
  ASSUME NEW i \in Nat, i < test_iterations, NEW j \in Int, j < t_final
  PROVE  i * t_final + j < t_final * test_iterations
<1>1. t_final \in Nat /\ test_iterations \in Nat
  BY JobAssumption
<1>2. (i + 1) * t_final <= test_iterations * t_final
  BY <1>1
<1>3. (i + 1) * t_final = i * t_final + t_final
        /\ test_iterations * t_final = t_final * test_iterations
  BY <1>1
<1>4. i * t_final \in Int /\ t_final * test_iterations \in Int
  BY <1>1
<1> QED
  BY <1>1, <1>2, <1>3, <1>4

\* Squaring a residue and squaring what it is of.
LEMMA ResidueSquared ==
  ASSUME NEW N \in Nat \ {0}, NEW c \in Nat, NEW r, r = c % N
  PROVE  ((c * c) % N) % N = (r * r) % N /\ r \in 0 .. N - 1
<1> DEFINE z == c * c
           w == r * r
<1>1. Same(r, c, N) /\ r \in 0 .. N - 1
  <2>1. c \in Int
    OBVIOUS
  <2>2. Same(c % N, c, N) /\ c % N \in 0 .. N - 1
    BY <2>1, SameRemainder
  <2> QED
    BY <2>2
<1>2. z \in Int /\ w \in Int /\ r \in Int /\ c \in Int
  BY <1>1
<1>3. Same(r * r, c * r, N) /\ Same(c * r, c * c, N)
  BY <1>1, <1>2, SameProduct
<1>4. Same(w, z, N)
  BY <1>3, SameAgain
<1> HIDE DEF z, w
<1>5. Same(z % N, z, N)
  BY <1>2, SameRemainder
<1> QED
  BY <1>1, <1>4, <1>5 DEF Same, z, w

\* An edge is a pass of vdf_basic.py's loop or none of it.
LEMMA ClockPass ==
  ASSUME Invariant, Invariant', NEW areset \in BOOLEAN, NEW bus \in Offers, Clk(areset, bus)
  PROVE  Pass \/ Stay
<1>1. IInv /\ Arguments /\ Data /\ Constants /\ HostData
  BY DEF Invariant, Data
<1>2. Where /\ Where'
  <2>1. Where
    BY WhereIs
  <2>2. Where'
    BY WhereIs, PTL
  <2> QED
    BY <2>1, <2>2
<1>3. UNCHANGED host_vars
  BY DEF Clk
<1>4. /\ pc' = pc /\ modulus' = modulus /\ run_t_final' = run_t_final /\ test' = test
      /\ iter' = iter /\ \A n : Chain(n)' = Chain(n)
      /\ sq_in' = sq_in /\ rand_state' = rand_state
  BY <1>3, HostStays DEF host_vars
<1>5. CASE pc # "compute_job"
  BY <1>2, <1>4, <1>5 DEF Where, Stay, Min
<1>6. CASE pc = "compute_job"
  <2>1. /\ residue = Chain(Place) % modulus /\ squarings = test * t_final + iter + Place
        /\ residue' = Chain(Place') % modulus
        /\ squarings' = test * t_final + iter + Place'
        /\ Place \in 0 .. run_t_final
    <3>1. Chain(Place)' = Chain(Place')
      BY <1>4
    <3> QED
      BY <1>2, <1>4, <1>6, <3>1 DEF Where
  <2>2. CASE Place' = Place
    BY <1>4, <2>1, <2>2 DEF Stay
  <2>3. CASE Place' = Place + 1 /\ Place \in 0 .. run_t_final - 1
    <3>1. JobData /\ iter \in Nat /\ intermediate_iters \in Nat \ {0}
      BY <1>1, <1>6 DEF Data, HostData
    <3>2. run_t_final \in 1 .. t_final /\ iter + run_t_final <= t_final /\ t_final \in Nat
      BY <3>1, RunLength, JobAssumption DEF JobData, Min
    <3>3. test \in Nat /\ test < test_iterations
      BY <1>1, <1>6 DEF HostData
    <3> DEFINE n == Place
               j == iter + n
               s == test * t_final
    <3>4. n \in 0 .. run_t_final - 1 /\ j \in Int /\ j < t_final /\ s \in Int
      BY <2>3, <3>1, <3>2, <3>3
    <3>5. squarings < t_final * test_iterations
      <4>1. s + j < t_final * test_iterations
        BY <3>3, <3>4, StillToDo
      <4>2. s + j = squarings
        <5>1. squarings = s + iter + n
          BY <2>1
        <5> HIDE DEF s, n
        <5> QED
          BY <5>1, <3>1, <3>4
      <4> QED
        BY <4>1, <4>2
    <3>6. squarings' = squarings + 1
      <4>1. squarings = s + iter + n /\ squarings' = s + iter + (n + 1)
        BY <2>1, <2>3
      <4> HIDE DEF s, n
      <4> QED
        BY <4>1, <3>1, <3>4
    <3>7. Chain(n) \in Nat /\ Chain(n + 1) = (Chain(n) * Chain(n)) % modulus
      <4>1. n \in 0 .. t_final /\ n + 1 \in 0 .. t_final /\ n + 1 > 0 /\ (n + 1) - 1 = n
        BY <3>2, <3>4
      <4>2. msu_sq_in \in 1 .. reducer - 1
        BY <3>1 DEF JobData
      <4> HIDE DEF n
      <4> QED
        BY <1>1, <4>1, <4>2, ChainIs
    <3>8. residue' = (residue * residue) % modulus
      <4> DEFINE c == Chain(n)
                 r == residue
      <4>1. r = c % modulus /\ residue' = ((c * c) % modulus) % modulus
        BY <2>1, <2>3, <3>7
      <4>2. modulus \in Nat \ {0} /\ c \in Nat
        BY <1>1, <3>7 DEF Constants, Sized, Odd
      <4> HIDE DEF c, r
      <4>3. ((c * c) % modulus) % modulus = (r * r) % modulus
        BY <4>1, <4>2, ResidueSquared
      <4> QED
        BY <4>1, <4>3 DEF r
    <3> QED
      BY <1>4, <3>5, <3>6, <3>8 DEF Pass
  <2> QED
    BY <1>1, <1>6, <2>2, <2>3, PlaceMoves
<1> QED
  BY <1>5, <1>6

\* Between chunks and tests nothing is squared and nothing lost.
LEMMA HostPass ==
  ASSUME Invariant, Invariant', Chunk \/ NextTest \/ Finish \/ UNCHANGED vars
  PROVE  Stay
<1>1. IInv /\ Data /\ Constants /\ HostData /\ modulus \in Nat \ {0}
  BY DEF Invariant, Data, Constants, Sized, Odd
<1>2. Where /\ Where'
  <2>1. Where
    BY WhereIs
  <2>2. Where'
    BY WhereIs, PTL
  <2> QED
    BY <2>1, <2>2
<1>3. t_final \in Nat \ {0} /\ test_iterations \in Nat /\ test \in Nat /\ iter \in Nat
      /\ intermediate_iters \in Nat \ {0} /\ test * t_final \in Nat
  BY <1>1, JobAssumption DEF HostData
<1>4. CASE Chunk
  <2>1. /\ pc = "loop" /\ iter < t_final /\ pc' = "compute_job" /\ modulus' = modulus
        /\ test' = test /\ iter' = iter /\ kernel' = kernel
    BY <1>4 DEF Chunk, kernel_vars
  <2>2. ended' # jobs' /\ msu_sq_in' = (IF sq_in # 0 THEN sq_in ELSE rand_state)
        /\ kernel = "idle"
    BY <1>1, <1>4, <2>1, DataChunk, JobIsOver
  <2>3. Place' = 0
    BY <2>1, <2>2 DEF Place
  <2>4. Chain(Place)' = msu_sq_in'
    <3>1. msu_sq_in' \in Nat
      BY <1>1, <2>2 DEF HostData
    <3>2. Squares(msu_sq_in', modulus, t_final)[0] = msu_sq_in'
      BY <1>1, <1>3, <3>1, SquaresAre
    <3> QED
      BY <2>1, <2>3, <3>2 DEF Chain
  <2>5. residue' = residue
    BY <1>2, <2>1, <2>2, <2>4 DEF Where
  <2>6. squarings' = squarings
    <3>1. squarings' = test * t_final + iter + 0 /\ squarings = test * t_final + iter
      <4>1. Min(iter, t_final) = iter
        BY <1>3, <2>1 DEF Min
      <4>2. squarings' = test * t_final + iter + 0
        BY <1>2, <2>1, <2>3 DEF Where
      <4>3. squarings = test * t_final + iter
        BY <1>2, <2>1, <4>1 DEF Where
      <4> QED
        BY <4>2, <4>3
    <3> DEFINE s == test * t_final
    <3>2. s \in Nat /\ squarings' = s + iter + 0 /\ squarings = s + iter
      BY <1>3, <3>1
    <3> HIDE DEF s
    <3> QED
      BY <1>3, <3>2
  <2> QED
    BY <2>1, <2>5, <2>6 DEF Stay
<1>5. CASE NextTest
  <2>1. /\ pc = "loop" /\ iter >= t_final /\ pc' # "compute_job" /\ modulus' = modulus
        /\ test' = test + 1 /\ iter' = 0 /\ sq_in' = sq_in /\ rand_state' = rand_state
    BY <1>5 DEF NextTest
  <2>2. squarings = test * t_final + t_final /\ squarings' = (test + 1) * t_final + 0
    <3>1. Min(iter, t_final) = t_final /\ Min(0, t_final) = 0
      BY <1>3, <2>1 DEF Min
    <3> QED
      BY <1>2, <2>1, <3>1 DEF Where
  <2>3. (test + 1) * t_final + 0 = test * t_final + t_final
    BY <1>3
  <2> QED
    BY <1>2, <2>1, <2>2, <2>3 DEF Where, Stay
<1>6. CASE Finish
  <2>1. /\ pc = "compute_job" /\ step = 0 /\ pc' # "compute_job" /\ modulus' = modulus
        /\ test' = test /\ iter' = iter + intermediate_iters /\ sq_in' = unpack(out_buffer)
    BY <1>6 DEF Finish
  <2>2. ended = jobs
    BY <1>1, <2>1, JobIsOver
  <2>3. Place = run_t_final /\ iter < t_final
    BY <1>1, <2>1, <2>2 DEF Place, Data, JobData
  <2>4. sq_in' \in 1 .. modulus /\ Same(sq_in', Chain(run_t_final), modulus)
    BY <1>1, <2>1, <2>2, AnswerIs
  <2>5. sq_in' # 0
    BY <1>1, <2>4
  <2>6. residue' = residue
    BY <1>2, <2>1, <2>3, <2>4, <2>5 DEF Where, Same
  <2>7. squarings' = squarings
    <3>1. iter + run_t_final = Min(iter + intermediate_iters, t_final) /\ run_t_final \in Nat
      BY <1>3, <2>3, RunLength
    <3>2. squarings = test * t_final + iter + run_t_final
          /\ squarings' = test * t_final + Min(iter + intermediate_iters, t_final)
      BY <1>2, <2>1, <2>3 DEF Where
    <3> DEFINE s == test * t_final
    <3>3. s \in Nat /\ squarings = s + iter + run_t_final /\ squarings' = s + (iter + run_t_final)
      BY <1>3, <3>1, <3>2
    <3> HIDE DEF s
    <3> QED
      BY <1>3, <3>1, <3>3
  <2> QED
    BY <2>1, <2>6, <2>7 DEF Stay
<1>7. CASE UNCHANGED vars
  <2>1. UNCHANGED host_vars /\ UNCHANGED <<sq_in, rand_state, kernel, squared, jobs, begun, ended>>
    BY <1>7 DEF vars, host_vars, runtime_vars, kernel_vars
  <2>2. /\ pc' = pc /\ modulus' = modulus /\ run_t_final' = run_t_final /\ test' = test
        /\ iter' = iter /\ \A n : Chain(n)' = Chain(n)
    BY <2>1, HostStays
  <2>3. Place' = Place
    BY <2>1, <2>2 DEF Place
  <2>4. Chain(Place)' = Chain(Place)
    BY <2>2, <2>3
  <2> QED
    BY <1>2, <2>1, <2>2, <2>3, <2>4 DEF Where, Stay, Min
<1> QED
  BY <1>4, <1>5, <1>6, <1>7

\* Every step is a pass of the loop or changes nothing of it.
LEMMA NextPass == Invariant /\ Invariant' /\ [Next]_vars => Pass \/ Stay
<1> SUFFICES ASSUME Invariant, Invariant', [Next]_vars PROVE Pass \/ Stay
  OBVIOUS
<1>1. ASSUME NEW areset \in BOOLEAN, NEW bus \in Offers, Clk(areset, bus) PROVE Pass \/ Stay
  BY <1>1, ClockPass
<1>2. CASE Chunk \/ NextTest \/ Finish \/ UNCHANGED vars
  BY <1>2, HostPass
<1>3. CASE Returned
  BY <1>3, HostPass DEF Returned
<1> QED
  BY <1>1, <1>2, <1>3 DEF Next, Clock

\* vdf_basic.py's x * x % N.
LEMMA PassIsSquare ==
  ASSUME modulus \in Nat \ {0}, residue \in 0 .. modulus - 1, Pass
  PROVE  Vdf!Square
<1> DEFINE N == modulus
           r == residue
<1>1. N \in Nat \ {0} /\ r \in 0 .. N - 1
  OBVIOUS
<1>2. residue' = (r * r) % N /\ squarings' = squarings + 1 /\ modulus' = modulus
      /\ squarings < t_final * test_iterations
  BY DEF Pass
<1> HIDE DEF r, N
<1>3. r % N = r /\ r \in Nat
  BY <1>1, SmallRemainder
<1>4. MulMod(r % N, r % N, N) = (r * r) % N
  BY <1>1, <1>3, MulModIs
<1>5. Vdf!MulMod(r % N, r % N, N) = MulMod(r % N, r % N, N)
  BY DEF Vdf!MulMod, Vdf!AddMod, MulMod, AddMod
<1> QED
  BY <1>2, <1>4, <1>5 DEF Vdf!Square, r, N

\* The program, through chunks, conversions and buffers, is the loop of vdf_basic.py.
THEOREM DoesTheLoop == Spec => ImplementsVdf
<1>1. Init => Vdf!Init
  <2> SUFFICES ASSUME Init PROVE Vdf!Init
    OBVIOUS
  <2>1. Invariant
    BY InitIInv, InitArguments, InitData DEF Invariant
  <2>2. Where /\ modulus \in Nat \ {0} /\ HostData
    BY <2>1, WhereIs DEF Invariant, Data, Constants, Sized, Odd
  <2>3. pc = "loop" /\ test = 0 /\ iter = 0
    BY DEF Init, HostInit
  <2>4. squarings = 0
    <3>1. Min(0, t_final) = 0 /\ 0 * t_final = 0
      BY JobAssumption DEF Min
    <3> QED
      BY <2>2, <2>3, <3>1 DEF Where
  <2>5. residue \in Nat
    <3> DEFINE z == IF sq_in # 0 THEN sq_in ELSE rand_state
    <3>1. z \in Int /\ residue = z % modulus
      BY <2>2, <2>3, Radix DEF Where, HostData
    <3> HIDE DEF z
    <3> QED
      BY <2>2, <3>1, Divided
  <2> QED
    BY <2>2, <2>4, <2>5 DEF Vdf!Init
<1>2. Invariant => modulus \in Nat \ {0} /\ residue \in 0 .. modulus - 1
  <2> SUFFICES ASSUME Invariant PROVE modulus \in Nat \ {0} /\ residue \in 0 .. modulus - 1
    OBVIOUS
  <2>1. Where /\ modulus \in Nat \ {0} /\ HostData /\ Constants
        /\ (pc = "compute_job" => JobData)
    BY WhereIs DEF Invariant, Data, Constants, Sized, Odd
  <2> DEFINE z == IF sq_in # 0 THEN sq_in ELSE rand_state
             c == Chain(Place)
  <2>2. pc # "compute_job" => z \in Int /\ residue = z % modulus
    BY <2>1, Radix DEF Where, HostData
  <2>3. ASSUME pc = "compute_job" PROVE c \in Int /\ residue = c % modulus
    <3>1. Place \in 0 .. t_final
      BY <2>1, <2>3, RunLength, JobAssumption DEF Where, JobData, HostData
    <3> QED
      BY <2>1, <2>3, <3>1, ChainIs DEF Where, JobData
  <2> HIDE DEF z, c
  <2>4. pc # "compute_job" => residue \in 0 .. modulus - 1
    BY <2>1, <2>2, Divided
  <2>5. pc = "compute_job" => residue \in 0 .. modulus - 1
    BY <2>1, <2>3, Divided
  <2> QED
    BY <2>1, <2>4, <2>5
<1>3. Invariant /\ Invariant' /\ [Next]_vars => [Vdf!Square]_(Vdf!vars)
  <2>1. Invariant /\ Pass => Vdf!Square
    BY <1>2, PassIsSquare
  <2>2. Stay => UNCHANGED Vdf!vars
    BY DEF Stay, Vdf!vars
  <2> QED
    BY <2>1, <2>2, NextPass
<1> QED
  BY <1>1, <1>3, InvariantHolds, PTL DEF Spec, ImplementsVdf, Vdf!Spec

\* The squarings that were asked for.
Goal == t_final * test_iterations

\* The residue is what vdf_basic.py's loop has made of the seed.
FromSeed ==
  /\ seed \in Nat /\ squarings \in 0 .. Goal
  /\ residue = Squares(seed % modulus, modulus, Goal)[squarings]

\* The seed is kept.
LEMMA SeedStays == [Next]_vars => seed' = seed
BY DEF Next, Chunk, NextTest, Finish, Clock, Clk, Returned, vars, host_vars

\* The seed's squarings, step by step.
LEMMA SeedIs ==
  ASSUME modulus \in Nat \ {0}, seed \in Nat
  PROVE  /\ seed % modulus \in 0 .. modulus - 1 /\ Goal \in Nat
         /\ LET q == Squares(seed % modulus, modulus, Goal)
            IN  /\ q[0] = seed % modulus
                /\ \A n \in 0 .. Goal : n > 0 => q[n] = (q[n - 1] * q[n - 1]) % modulus
<1>1. Goal \in Nat
  <2>1. t_final \in Nat /\ test_iterations \in Nat
    BY JobAssumption
  <2> QED
    BY <2>1 DEF Goal
<1> DEFINE x == seed % modulus
           q == Squares(x, modulus, Goal)
<1>2. x \in 0 .. modulus - 1
  <2>1. seed \in Int
    OBVIOUS
  <2> QED
    BY <2>1, Divided
<1>3. x \in Nat
  BY <1>2
<1> HIDE DEF x
<1>4. /\ q[0] = x
      /\ \A n \in 0 .. Goal : n > 0 => q[n] = (q[n - 1] * q[n - 1]) % modulus
  BY <1>1, <1>3, SquaresAre
<1> QED
  BY <1>1, <1>2, <1>4 DEF x

\* One pass more is one squaring more of the seed.
LEMMA SeedStep == Invariant /\ Invariant' /\ FromSeed /\ [Next]_vars => FromSeed'
<1> SUFFICES ASSUME Invariant, Invariant', FromSeed, [Next]_vars PROVE FromSeed'
  OBVIOUS
<1>1. seed' = seed /\ (Pass \/ Stay) /\ modulus \in Nat \ {0}
  <2>1. modulus \in Nat \ {0}
    BY DEF Invariant, Data, Constants, Sized, Odd
  <2>2. seed' = seed
    BY SeedStays
  <2>3. Pass \/ Stay
    BY NextPass
  <2> QED
    BY <2>1, <2>2, <2>3
<1>2. CASE Stay
  BY <1>1, <1>2 DEF Stay, FromSeed
<1>3. CASE Pass
  <2> DEFINE q == Squares(seed % modulus, modulus, Goal)
             n == squarings + 1
  <2>1. /\ squarings < Goal /\ residue' = (residue * residue) % modulus
        /\ squarings' = n /\ modulus' = modulus
    BY <1>3 DEF Pass, Goal
  <2>2. squarings \in 0 .. Goal /\ residue = q[squarings] /\ Goal \in Nat
        /\ \A k \in 0 .. Goal : k > 0 => q[k] = (q[k - 1] * q[k - 1]) % modulus
    BY <1>1, SeedIs DEF FromSeed
  <2> HIDE DEF q
  <2>3. n \in 0 .. Goal /\ n > 0 /\ n - 1 = squarings
    BY <2>1, <2>2
  <2>4. residue' = q[n]
    BY <2>1, <2>2, <2>3
  <2> QED
    BY <1>1, <2>1, <2>3, <2>4 DEF FromSeed, q, Goal
<1> QED
  BY <1>1, <1>2, <1>3

\* Between two chunks the host has what mont.py's pow makes of the seed.
THEOREM AnswersArePowers == Spec => []AnswerIsPow
<1>1. Init => FromSeed
  <2> SUFFICES ASSUME Init PROVE FromSeed
    OBVIOUS
  <2>1. Invariant
    BY InitIInv, InitArguments, InitData DEF Invariant
  <2>2. Where /\ modulus \in Nat \ {0} /\ HostData
    BY <2>1, WhereIs DEF Invariant, Data, Constants, Sized, Odd
  <2>3. pc = "loop" /\ test = 0 /\ iter = 0 /\ seed = (IF sq_in = 0 THEN rand_state ELSE sq_in)
    BY DEF Init, HostInit
  <2>4. squarings = 0
    <3>1. Min(0, t_final) = 0 /\ 0 * t_final = 0
      BY JobAssumption DEF Min
    <3> QED
      BY <2>2, <2>3, <3>1 DEF Where
  <2>5. residue = seed % modulus
    BY <2>2, <2>3 DEF Where
  <2>6. seed \in Nat
    BY <2>2, <2>3, Radix DEF HostData
  <2> QED
    BY <2>2, <2>4, <2>5, <2>6, SeedIs DEF FromSeed
<1>2. Invariant /\ FromSeed => AnswerIsPow
  <2> SUFFICES ASSUME Invariant, FromSeed, pc # "compute_job"
               PROVE  LET mont   == Mont(modulus)
                          answer == convert_out(pow(convert_in(seed % modulus, mont),
                                                    2^squarings, mont), mont)
                      IN  answer # AssertionError => residue = answer
    BY DEF AnswerIsPow
  <2> DEFINE P == modulus
             a == seed % P
             x == convert_in(a, Mont(P))
             w == pow(x, 2^squarings, Mont(P))
             y == convert_out(w, Mont(P))
             z == IF sq_in # 0 THEN sq_in ELSE rand_state
             n == squarings
             q == Squares(a, P, Goal)
             r == q[n]
  <2> SUFFICES ASSUME y # AssertionError PROVE residue = y
    OBVIOUS
  <2>1. Odd(P) /\ P \in Nat \ {0} /\ HostData
    BY DEF Invariant, Data, Constants, Sized, Odd
  <2>2. a \in Nat /\ n \in 0 .. Goal /\ residue = r
    BY <2>1, SeedIs DEF FromSeed
  <2>3. residue \in 0 .. P - 1
    <3>1. z \in Int /\ residue = z % P
      BY <2>1, WhereIs, Radix DEF Where, HostData
    <3> HIDE DEF z, P
    <3> QED
      BY <2>1, <3>1, Divided
  <2>4. r \in Nat /\ r \in 0 .. P - 1
    BY <2>1, <2>2, <2>3
  <2>5. x \in Int /\ OrError(x, a, P)
    BY <2>1, <2>2, ConvertIs
  <2> HIDE DEF x, a, P
  <2>6. w \in Int /\ OrError(w, r, P)
    BY <2>1, <2>2, <2>5, PowIs DEF Goal
  <2> HIDE DEF w, r
  <2>7. y \in 0 .. P - 1 /\ Same(y, r, P)
    BY <2>1, <2>4, <2>6, ConvertIs
  <2> HIDE DEF y
  <2>8. y % P = y /\ r % P = r
    BY <2>1, <2>4, <2>7, SmallRemainder
  <2> QED
    BY <2>2, <2>7, <2>8 DEF Same
<1> QED
  BY <1>1, <1>2, SeedStep, InvariantHolds, PTL DEF Spec
=============================================================================
