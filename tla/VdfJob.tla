------------------------------- MODULE VdfJob -------------------------------
(***************************************************************************)
(* A whole computation, from main.cpp to the kernel and back.  The host    *)
(* cuts it into chunks; a chunk goes through Squarer.hpp into Montgomery   *)
(* form and into device memory; the OpenCL runtime writes the registers,   *)
(* waits for done, by polling or by interrupt, and brings the answer back. *)
(*                                                                         *)
(* An action is a step of the host, or an edge of ap_clk with a step of    *)
(* the runtime on the bus.  The runtime is not in the repository: it is    *)
(* taken to run the commands of its queue in order, as OpenCL does.  The   *)
(* kernel is what the other modules make of it: it reads a request at the  *)
(* address it was started with, squares, writes the answer, is done once.  *)
(***************************************************************************)
EXTENDS Mont, VdfControl, Sequences

CONSTANTS
  Inputs,           \* pairs <<modulus, sq_in>> of the command line; sq_in 0: not given
  Intermediates,    \* the values of -t; 0: not given
  t_final,          \* -f
  test_iterations,  \* -i
  WRD_BITS          \* bits of a word

NUM_WRDS == reducerbits \div WRD_BITS

\* The words fill the radix, one of them beyond the modulus; an input fits the buffers.
ASSUME JobAssumption ==
  /\ t_final \in Nat \ {0} /\ test_iterations \in Nat \ {0}
  /\ Intermediates \subseteq Nat
  /\ {WRD_BITS, NUM_WRDS, reducerbits} \subseteq Nat \ {0}
  /\ reducerbits = NUM_WRDS * WRD_BITS
  /\ \A input \in Inputs :
       /\ input[1] \in Nat /\ input[1] % 2 = 1 /\ input[1] >= 3
       /\ 4 * input[1] <= reducer /\ input[2] \in 0 .. reducer - 1

VARIABLES
  \* main.cpp, MSU.cpp, Squarer.hpp
  modulus, factor, reciprocal_sq, hw_emu, intermediate_iters,
  sq_in, rand_state, test, iter, pc, msu_sq_in, sq_out, failures, seed,
  \* device memory, and the runtime's place in a job
  in_buffer, out_buffer, step, polls,
  \* the kernel
  kernel, in_addr, request, value, squared,
  \* history: jobs given to the runtime, launched, begun by the kernel, ended
  jobs, launches, begun, ended

host_vars == <<modulus, factor, reciprocal_sq, hw_emu, intermediate_iters, sq_in, rand_state,
               test, iter, pc, msu_sq_in, sq_out, failures, seed>>
runtime_vars == <<in_buffer, step, polls, jobs, launches>>
kernel_vars == <<kernel, in_addr, request, value, squared, out_buffer, begun, ended>>
vars == <<control_vars, host_vars, runtime_vars, kernel_vars>>

\* The buffers' addresses; neither half is what the registers hold at reset.
IN_ADDR  == <<1, 2>>
OUT_ADDR == <<3, 4>>
Junk     == <<>>

Min(a, b) == IF a <= b THEN a ELSE b

-----------------------------------------------------------------------------
(* The host *)

\* Squarer.hpp: the request is t_start, t_final and the value in Montgomery form.
to_mont(x)   == mont_mult(x, reciprocal_sq, modulus, factor)
from_mont(x) == mont_mult(x, 1, modulus, factor)
pack(n, x)   == [t_start |-> 0, t_final |-> n, sq_in |-> to_mont(x)]

\* Mutant: words are masked as if they had no redundant bit.
reduce_polynomial_masked(words) ==
  LET sum[k \in 0..NUM_WRDS] == IF k = 0 THEN 0
        ELSE sum[k - 1] + (words[k] % 2^WRD_BITS) * 2^(WRD_BITS * (k - 1))
  IN  sum[NUM_WRDS]

(***************************************************************************)
(* Words of WRD_BITS bits and a redundant one, combined.  The last word    *)
(* comes without its redundant bit: the answer's buffer is sized for the   *)
(* count and the words, without the 16 bits of the seed between them.      *)
(***************************************************************************)
reduce_polynomial(words) ==
  LET received(k) == IF k = NUM_WRDS THEN words[k] % 2^WRD_BITS ELSE words[k]
      sum[k \in 0..NUM_WRDS] == IF k = 0 THEN 0
        ELSE sum[k - 1] + received(k) * 2^(WRD_BITS * (k - 1))
  IN  sum[NUM_WRDS]

unpack(answer) == from_mont(reduce_polynomial(answer.words))

\* Mutant: the last chunk is as long as the others.
run_t_final_unclipped == intermediate_iters

\* The length of the next chunk.
run_t_final ==
  IF intermediate_iters + iter > t_final THEN t_final - iter ELSE intermediate_iters

HostInit ==
  /\ \E input \in Inputs : modulus = input[1] /\ sq_in = input[2]
  /\ factor = mont_init(modulus).factor
  /\ reciprocal_sq = mont_init(modulus).reciprocal_sq
  /\ hw_emu \in BOOLEAN
  /\ \E n \in Intermediates : intermediate_iters = IF n = 0 THEN t_final ELSE n
  /\ rand_state \in IF sq_in = 0 THEN 1..modulus - 1 ELSE {0}
  /\ seed = IF sq_in = 0 THEN rand_state ELSE sq_in
  /\ test = 0 /\ iter = 0 /\ failures = 0 /\ pc = "loop"
  /\ msu_sq_in = 0 /\ sq_out = 0

\* A chunk: run_fixed from sq_in, or run_random if there is none.
Chunk ==
  /\ pc = "loop" /\ test < test_iterations /\ iter < t_final
  /\ msu_sq_in' = IF sq_in # 0 THEN sq_in ELSE rand_state
  /\ in_buffer' = pack(run_t_final, msu_sq_in')
  /\ pc' = "compute_job"
  /\ step' = 1 /\ jobs' = jobs + 1
  /\ UNCHANGED <<modulus, factor, reciprocal_sq, hw_emu, intermediate_iters, sq_in, rand_state,
                 test, iter, sq_out, failures, seed, polls, launches, control_vars, kernel_vars>>

NextTest ==
  /\ pc = "loop" /\ test < test_iterations /\ iter >= t_final
  /\ test' = test + 1 /\ iter' = 0
  /\ pc' = IF test' = test_iterations THEN "return" ELSE "loop"
  /\ UNCHANGED <<modulus, factor, reciprocal_sq, hw_emu, intermediate_iters, sq_in, rand_state,
                 msu_sq_in, sq_out, failures, seed, runtime_vars, control_vars, kernel_vars>>

\* MSU::check_job: the same squarings in software.
expected ==
  LET squares[n \in 0..t_final] == IF n = 0 THEN msu_sq_in
                                   ELSE (squares[n - 1] * squares[n - 1]) % modulus
  IN  squares[run_t_final]

-----------------------------------------------------------------------------
(* The runtime: the writes of a launch, in order *)

Launch(interrupts) ==
  (IF interrupts THEN << <<GIE, 1>>, <<IER, 1>> >> ELSE <<>>) \o
  << <<"input0", 0>>,
     <<"input_mem_0", IN_ADDR[1]>>, <<"input_mem_1", IN_ADDR[2]>>,
     <<"output_mem_0", OUT_ADDR[1]>>, <<"output_mem_1", OUT_ADDR[2]>>,
     <<"intermediates_mem_0", OUT_ADDR[1]>>, <<"intermediates_mem_1", OUT_ADDR[2]>>,
     <<AP_CTRL, 1>> >>
  \o (IF interrupts THEN << <<ISR, 1>> >> ELSE <<>>)

\* The write that is next: the interrupt is acknowledged when it has come.
writes  == Launch(~polls)
Writing == /\ step \in 1..Len(writes)
           /\ writes[step][1] = ISR => interrupt
\* It reads when its writes have been answered.
Reading == step > Len(writes)

\* What it may offer on the bus.
Offers ==
  [aw     : {None} \cup (IF Writing THEN {writes[step][1]} ELSE {}),
   wvalid : IF Writing THEN BOOLEAN ELSE {FALSE},
   wdata  : IF Writing THEN {writes[step][2]} ELSE {0},
   bready : BOOLEAN,
   ar     : {None} \cup (IF Reading THEN {AP_CTRL} ELSE {}),
   rready : BOOLEAN]

\* The bits of a word read from the control register.
start_bit == rdata_r % 2 = 1
done_bit  == (rdata_r \div 2) % 2 = 1
idle_bit  == (rdata_r \div 4) % 2 = 1

\* Done is in the word that the runtime takes.
SeesDone(bus) == rvalid /\ bus.rready /\ done_bit

Runtime(bus) ==
  /\ step' = IF SeesDone(bus) THEN 0
             ELSE IF bvalid /\ bus.bready THEN step + 1 ELSE step
  /\ launches' = IF bus.wvalid /\ wready /\ waddr = AP_CTRL THEN launches + 1 ELSE launches
  /\ UNCHANGED <<in_buffer, polls, jobs>>

(***************************************************************************)
(* The queue is empty: the answer is in host memory.  compute_job unpacks  *)
(* it, check_job compares it, and main goes on from it.                    *)
(***************************************************************************)
Finish ==
  /\ pc = "compute_job" /\ step = 0
  /\ sq_out' = unpack(out_buffer)
  /\ failures' = IF hw_emu /\ sq_out' # expected THEN failures + 1 ELSE failures
  /\ iter' = iter + intermediate_iters
  /\ sq_in' = sq_out'
  /\ pc' = IF failures' > 0 THEN "return" ELSE "loop"
  /\ UNCHANGED <<modulus, factor, reciprocal_sq, hw_emu, intermediate_iters, rand_state, test,
                 msu_sq_in, seed, runtime_vars, control_vars, kernel_vars>>

-----------------------------------------------------------------------------
(* The kernel *)

\* Sequences of words that stand for v.
Redundant(v) ==
  {words \in [1..NUM_WRDS -> 0..2^(WRD_BITS + 1) - 1] :
     v = LET sum[k \in 0..NUM_WRDS] == IF k = 0 THEN 0
               ELSE sum[k - 1] + words[k] * 2^(WRD_BITS * (k - 1))
         IN  sum[NUM_WRDS]}

KernelIdle ==
  /\ kernel = "idle"
  /\ IF ap_start_pulse
     THEN /\ kernel' = "read"
          /\ in_addr' = <<int_data["input_mem_0"], int_data["input_mem_1"]>>
          /\ begun' = begun + 1
     ELSE UNCHANGED <<kernel, in_addr, begun>>
  /\ UNCHANGED <<request, value, squared, out_buffer, ended>>

KernelReads ==
  /\ kernel = "read"
  /\ request' = IF in_addr = IN_ADDR THEN in_buffer ELSE Junk
  /\ request' # Junk
  /\ value' = request'.sq_in
  /\ squared' = request'.t_start
  /\ kernel' = "square"
  /\ UNCHANGED <<in_addr, out_buffer, begun, ended>>

\* redun_mont, with the constants of its package.
KernelSquares ==
  /\ kernel = "square" /\ squared # request.t_final
  /\ value' = mont_mult(value, value, modulus, calculate_mont_factor(modulus))
  /\ squared' = squared + 1
  /\ UNCHANGED <<kernel, in_addr, request, out_buffer, begun, ended>>

\* The write master takes the other address when it is started.  The count in
\* the answer is the one before the last squaring; the host does not look at it.
KernelWrites ==
  /\ kernel = "square" /\ squared = request.t_final
  /\ \E words \in Redundant(value) :
       out_buffer' = IF <<int_data["output_mem_0"], int_data["output_mem_1"]>> = OUT_ADDR
                     THEN [t_current |-> squared - 1, words |-> words] ELSE out_buffer
  /\ kernel' = "done"
  /\ ended' = ended + 1
  /\ UNCHANGED <<in_addr, request, value, squared, begun>>

\* ap_done_i is high for one edge.
ap_done_i == kernel = "done"

KernelDone ==
  /\ ap_done_i
  /\ kernel' = "idle"
  /\ UNCHANGED <<in_addr, request, value, squared, out_buffer, begun, ended>>

KernelWaits == kernel \in {"read", "square"} /\ UNCHANGED kernel_vars

KernelMoves == KernelReads \/ KernelSquares \/ KernelWrites
Kernel == KernelIdle \/ KernelWaits \/ KernelMoves \/ KernelDone

-----------------------------------------------------------------------------
Init ==
  /\ ControlInit /\ HostInit
  /\ in_buffer = Junk /\ out_buffer = Junk /\ step = 0 /\ polls \in BOOLEAN
  /\ kernel = "idle" /\ in_addr = <<0, 0>> /\ request = Junk /\ value = 0 /\ squared = 0
  /\ jobs = 0 /\ launches = 0 /\ begun = 0 /\ ended = 0

\* An edge; the platform may hold reset until the first job.
Clk(areset, bus) ==
  /\ areset => launches = 0 /\ step = 0
  /\ ControlClk(areset, bus, ap_done_i)
  /\ Runtime(bus)
  /\ Kernel
  /\ UNCHANGED host_vars

Clock == \E areset \in BOOLEAN, bus \in Offers : Clk(areset, bus)

Returned == pc = "return" /\ UNCHANGED vars

Next == Chunk \/ NextTest \/ Finish \/ Clock \/ Returned

Spec == Init /\ [][Next]_vars

(***************************************************************************)
(* The clock ticks, the host's program runs on, the bus and the runtime    *)
(* get on with what they have offered or are offered, and so does the      *)
(* kernel.                                                                 *)
(***************************************************************************)
Offered(handshake(_)) == \E bus \in Offers : handshake(bus) /\ Clk(FALSE, bus)

WriteMoves(bus) ==
  (awready /\ bus.aw # None) \/ (wready /\ bus.wvalid) \/ (bvalid /\ bus.bready)
ReadMoves(bus) == (arready /\ bus.ar # None) \/ (rvalid /\ bus.rready)

FairSpec ==
  /\ Spec
  /\ WF_vars(Chunk \/ NextTest \/ Finish)
  /\ WF_vars(Clock)
  /\ WF_vars(Offered(WriteMoves))
  /\ WF_vars(Offered(ReadMoves))
  /\ WF_vars(Clock /\ KernelMoves)

-----------------------------------------------------------------------------
(* Properties *)

TypeOK ==
  /\ wstate \in {"WRRESET", "WRIDLE", "WRDATA", "WRRESP"}
  /\ rstate \in {"RDRESET", "RDIDLE", "RDDATA"}
  /\ waddr \in {AP_CTRL, GIE, IER, ISR} \cup DataRegisters
  /\ {int_ap_start, int_ap_done, int_gie, int_ier, int_isr,
      ap_start_r, ap_idle_r, ap_done_r} \subseteq BOOLEAN
  /\ int_data \in [DataRegisters -> 0..4]
  /\ kernel \in {"idle", "read", "square", "done"}
  /\ step \in 0..Len(writes) + 1
  /\ value \in 0..2 * modulus - 1 /\ squared \in 0..t_final
  /\ test \in 0..test_iterations /\ failures \in {0, 1}
  /\ pc \in {"loop", "compute_job", "return"}

(***************************************************************************)
(* Every launch starts the kernel once, and the done that the runtime      *)
(* takes is that of the job it has launched: it is not the last one's,     *)
(* seen again, nor does a read that comes with it lose it.  A word that    *)
(* shows done shows the kernel idle and start cleared, though the three    *)
(* bits live in two modules.                                               *)
(***************************************************************************)
EachLaunchOneJob ==
  /\ launches = begun + (IF ap_start_pulse THEN 1 ELSE 0)
  /\ pc = "compute_job" /\ step = 0 => launches = jobs /\ ended = jobs
  /\ rvalid /\ done_bit => idle_bit /\ ~start_bit

\* The value under way, wherever it is, out of Montgomery form.
residue ==
  (IF pc # "compute_job" THEN (IF sq_in # 0 THEN sq_in ELSE rand_state)
   ELSE IF ended = jobs THEN unpack(out_buffer)
   ELSE IF begun = jobs /\ kernel = "square" THEN from_mont(value)
   ELSE from_mont(in_buffer.sq_in)) % modulus

squarings ==
  test * t_final + Min(iter, t_final) +
  (IF pc # "compute_job" THEN 0
   ELSE IF ended = jobs THEN out_buffer.t_current + 1
   ELSE IF begun = jobs /\ kernel = "square" THEN squared ELSE 0)

Vdf == INSTANCE VdfBasic WITH
         N <- modulus, x <- residue, i <- squarings,
         Seeds <- Nat, t <- t_final * test_iterations

(***************************************************************************)
(* Through all chunks and tests, conversions and buffers, the program does *)
(* the loop of vdf_basic.py: one squaring after the other, none left out   *)
(* or repeated where chunks meet, and no more than were asked for.         *)
(***************************************************************************)
ImplementsVdf == Vdf!Spec

(***************************************************************************)
(* Between two chunks the host's value is what mont.py's pow makes of the  *)
(* seed, when its assertions hold: three ways to invert the radix and two  *)
(* to raise to a power agree.                                              *)
(***************************************************************************)
AnswerIsPow ==
  pc # "compute_job" =>
    LET mont   == Mont(modulus)
        answer == convert_out(pow(convert_in(seed % modulus, mont), 2^squarings, mont), mont)
    IN  answer # AssertionError => residue = answer

(***************************************************************************)
(* main.cpp takes an answer of zero for "no input" and would go on from a  *)
(* random one.  No input gives zero: without the final subtraction the     *)
(* answer to a multiple of the modulus is the modulus.  check_job takes    *)
(* that for a failure, and nothing else.                                   *)
(***************************************************************************)
ZeroIsNoInput ==
  /\ jobs > 0 /\ pc # "compute_job" => sq_out \in 1..modulus
  /\ failures > 0 => sq_out = modulus

\* The program returns, whatever the chunks and the pace of bus and kernel.
ProgramReturns == <>(pc = "return")
=============================================================================
