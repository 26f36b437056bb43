# A TLA+ model of vdf-fpga

This directory specifies and checks the design in this repository: an FPGA
kernel that evaluates a verifiable delay function by repeated squaring modulo a
1024-bit number, `x, x^2, x^4, ...`, and the host program that feeds it. A VDF
is only worth something if the answer after 2^30 squarings is exactly right, and
a single carry lost in a single squaring spoils everything after it. So the model starts with the
squarer and works outwards, to the program that cuts 2^30 squarings into jobs.
The repository's software models are part of it: the delay function itself, a
squarer of nine cycles bit by bit, its reduction tables and the Montgomery
reference.

- [The system](#the-system)
- [The modules, and how they correspond to the code](#the-modules-and-how-they-correspond-to-the-code)
- [The runs](#the-runs)
- [Fairness](#fairness)
- [The proofs](#the-proofs)
- [What the checks found](#what-the-checks-found)
- [What is not modelled](#what-is-not-modelled)
- [Plan](#plan)

To check: `tlc -config X.cfg M` with the pairs listed under *The runs*, and
`tlapm Arithmetic_proofs.tla`, `tlapm RedunMontDataflow_proofs.tla`,
`tlapm AxiParts_proofs.tla`, `tlapm AxiReadSystem_proofs.tla`,
`tlapm AxiWriteSystem_proofs.tla`, `tlapm MsuSystem_proofs.tla`,
`tlapm VdfJob_proofs.tla`, `tlapm ReductionLut_proofs.tla`.

## The system

The path of a job, from the host to the multiplier and back:

```
 main.cpp -- MSU.cpp -- Squarer.hpp          a long computation in chunks; packing, Montgomery form
      |  OpenCL (MSUSDAccel.cpp)
 vdf_control_s_axi.v                         registers: start, done, idle, interrupt, addresses
 vdf_wrapper.sv                              start pulse, idle, done
 vdf_kernel.sv
   vdf_axi_read_master -> msu -> vdf_axi_write_master       (AXI streams; 125 MHz)
                           |
                     redun_wrapper           two clock domains, a FIFO per word and direction
                           |  (50 to 65 MHz)
                      redun_mont             schedule: square, low product, high product
                           |
                 multi_mode_multiplier       one array for all three products
```

Beside it, in software, stand the models the hardware is measured against:

```
 vdf_basic.py                                the delay function: x = x * x % N, t times
 modular_square_9_cycles.py  primitives.py   another squarer: carry-save columns, table look-up
 gen_reduction_lut.py                        its tables, and the memories that hold them
 mont.py                                     Montgomery multiplication, inverse, powers
```

| component | state | operations | interacts with | what is hard | what makes it correct |
|---|---|---|---|---|---|
| `redun_mont.sv` | one-hot state, multiplier mode and operand select, three redo flags and the final carry flag, delay line of `o_val`, operand, addition-term and product registers | one clock edge; asynchronous reset | `multi_mode_multiplier` (every edge), `redun_wrapper` (ports) | speculative schedule: the next product is started before it is known whether the last one missed a carry; four redo paths sharing registers; registers without reset | every `o_val` comes with the next Montgomery square; results a bounded number of edges apart; none after a reset |
| `multi_mode_multiplier.sv` | output register | square, low, high product | `redun_mont` | truncated columns, one carry pass, one bit across the boundary | product exact up to one carry, and that detectable from the top word |
| `redun_mont_pkg.sv` | none | conversions, `equalize`, Montgomery arithmetic | all of the above, test bench | redundant bit, compile-time loops | conversions are inverse; constants right |
| `redun_mont_wrapper.sv` | lock and ready chain, stretched reset, valid shift registers; inside the vendor blocks, FIFO contents | an edge of either clock; lock; reset | `msu`, `redun_mont`, MMCM, FIFOs | two clocks, lanes a word apart, a reset that crosses without handshake, start and reset on different paths | words of a value stay together, a start is never lost, no old result after a reset |
| `msu.sv` | state, counts, input and output shift registers | one clock edge | AXI masters (streams), `redun_wrapper` | results go on arriving after the last one wanted; counts wrap | the answer is the one asked for; offered beats are held; every job ends |
| `vdf_axi_read_master.sv`, `vdf_axi_write_master.sv`, `vdf_counter.sv` | burst, transaction and outstanding counters, valid registers, data FIFO | one clock edge | memory bus, `msu`, wrapper | handshakes on three channels at once, boundary lengths, the outstanding limit | exactly the beats asked for, at the right addresses; done once, after the last response |
| `vdf_control_s_axi.v`, `vdf_wrapper.sv` | two small bus machines, start, done, interrupt and data registers | one clock edge | host's bus, kernel | start written and done set on one edge, clear on read | each start gives one job and one done |
| `main.cpp`, `MSU.cpp`, `MSUSDAccel.cpp` | chunk counter, current value | run a chunk, check it | device | chunk sizes, zero as a marker | chunks together are the whole computation |
| `Squarer.hpp` | Montgomery constants | pack, unpack | host | redundant answer, an answer's buffer one word short, values defined up to the modulus | `unpack` of the answer is the square |
| `vdf_basic.py` | the running square | one squaring | none | nothing: it is the definition | |
| `modular_square_9_cycles.py`, `primitives.py` | what each cycle leaves to later ones: columns, partial polynomials, rows, overflow flags, accumulator | nine cycles; the next test | tables | cycles overlap, carries are passed on only once, words overflow, arrays are cut | the parts held at any cycle add up to the square; look-ups stay in their table |
| `gen_reduction_lut.py` | generated module: write enable, count of transfers, memories, delayed shifts | an edge with a transfer, a look-up, a shift | whoever loads the URAMs; the 8-cycle squarer | three counters without reset that must agree; a shift that must meet its data | every entry in its place; every look-up the entry asked for |
| `mont.py` | constants of a modulus | multiply, convert, power, inverse | none | asserts results that its own algorithm does not bound | agrees with host and hardware |
| `MSUVerilator.cpp` | simulation time, watchdog | a cycle, a beat in, a beat out | simulated `msu` | long jobs | the watchdog fires only if nothing moves |
| `modular_square_8_cycles.sv`, `modular_square_simple.sv` | the competition's baselines, not instantiated by `msu.sv` any more | | | | |

`PROJECT.json` lists every component with its status, every definition with the
lines it models, and every hazard of the code with the property that would show
it going wrong.

## The modules, and how they correspond to the code

An action is a clock edge: all registers of the domain take their next value
from the current one, as nonblocking assignments do. Where the source assigns
one register several times on an edge, the textually last assignment wins, and
the conditions in the model are written in the reverse order. A wire is an
operator. Names are the source's.

**RedunMontFsm** (control of `redun_mont.sv`). The state machine, the redo flags
and the delay line of `o_val`. The data path enters through one Boolean, `bndry`:
is the top word of the product now at the output within `BOUNDARY_THRESHOLD` of
its limit? The module is included by the next two, which differ in where `bndry`
and the data come from.

**RedunMontDataflow** (all registers of `redun_mont.sv`, data by provenance). A
register does not hold words but a tag saying what the words are: the square of
iterate 3 of job 1, lacking a carry, say. The multiplier (`Product`) makes the
next tag if its mode, its operands and the addition term belong together, and
junk otherwise. Whether a product lacks a carry is chosen freely, and it may
lack one only if `bndry` is true. So the model says about the schedule whatever
can be said for all word sizes and moduli at once. `fed`, `squarings`,
`elapsed`, `redone`, `coincided` and `job` are history. A product that is on the
boundary but lacks no carry behaves as one that lacks a carry does: the code
cannot tell them apart and redoes both.

**RedunMontPkg**, **MultiModeMultiplier**, **RedunMont** (the same registers,
with words). The package's number format, the multiplier's columns as its
`grid` assembles them (which word product enters which column in which mode,
which columns are left out), the single carry pass, and the crossing of the
boundary. RedunMont is also the test bench's scoreboard: it squares its own copy
with `fe_mul_mont` and compares. `Reset` starts a second job on registers that
still hold the first one's words.

**IteratingSquarer**. What the squarer promises at its ports: successive squares
of its input, a bounded number of edges apart, until reset. RedunMontDataflow
implements it (run `redun_mont_ports`), and the next modules use its actions in
place of the squarer. They are instantiated with a smaller gap than the real 3
to 13 edges, so that late results meet the end of a job in more ways.

**RedunWrapper** (`redun_mont_wrapper.sv`). `WrapperClk`, `WrapperClkInt` and
`Lock` are an edge of either clock and the MMCM's lock. A FIFO is a sequence of
words, each with a number of edges until the reader can see it, chosen per word
and lane; a read takes the two edges of the FIFO's read latency. The registers
with asynchronous reset are reset on the edge before and the edge after which
the reset is high. The FIFOs' reset lasts some edges of `clk_int` (`rst_busy`).
`full` is not modelled because it is not connected.

**Msu** (`msu.sv`). A beat of a stream is a whole field (t_start, t_final,
sq_in; count, seeded count, sq_out) where the code's is 32 bits. The shift
registers and their counters are the code's, with three beats. `sq_in` and
`sq_out` are values by provenance, as in IteratingSquarer.

**MsuSystem** composes Msu and RedunWrapper with the kernel around them, which
is the environment: it starts a job when the previous one is done, offers and
accepts beats at any pace, and is reset at any time for a few edges.

**MsuPromise** is the abstract specification of all that: take a request, beat
by beat, answer it, beat by beat, be done; or be reset and abandon it. The
refinement mapping is the identity on the kernel's variables, which record what
passed over the streams.

**VdfCounter** (`vdf_counter.sv`) and **XpmFifo** (the vendor FIFO, as the masters
use it) are the parts both AXI masters are made of. The counter's `is_zero` is a
register of its own, as in the code.

**AxiReadMaster** (`vdf_axi_read_master.sv`), **AxiWriteMaster**
(`vdf_axi_write_master.sv`). `ReadMasterClk` and `WriteMasterClk` are an edge of
`aclk`, in one operator per channel. Both with their data FIFO, as the kernel
configures them. A beat is a tag (its address, or its number in the transfer), a
strobe the number of its bytes. Addresses do not wrap.

**AxiReadSystem**, **AxiWriteSystem** put each master between a user (the kernel
and msu) and a bus. The bus accepts addresses and data, returns beats and
answers bursts at any pace, in order; its accepted addresses and beats are
history from which the properties are read. The user of the read master may start
again on `ctrl_done` while it still has beats to take, which is more than the
kernel does (it waits for the write master). A reset of both comes at any time.

**AxiTransfer** is the promise of both: asked for a number of beats it moves each
once, then is done once. Moved means arrived from memory for the read master,
written and answered for the write master; a beat out of place, or twice, counts
as more than was asked for, which no step of AxiTransfer allows.

**VdfControl** (`vdf_control_s_axi.v`, `vdf_wrapper.sv`). Both bus machines, the
start, done, interrupt and data registers, and the wrapper's start pulse, idle
and done. `ControlClk` is an edge of `ap_clk`, one operator per register. A write
carries a whole word (`wstrb` all ones) and `aclk_en` is high, as `vdf.v` ties it.

**Mont**. The same Montgomery arithmetic three times over: `mont.py`, the
functions by which `redun_mont_pkg.sv` computes its constants, and MontReducer of
`Squarer.hpp`. They invert the radix differently (`reciprocal_mod`, `fe_inv`,
GMP). An `AssertionError` of `mont.py` is a value of its own. The loops are
recursive functions of the tuple of their variables, as the proofs need them; the
loop of `fe_inv` that halves stops at a 0 in the model, where the code's would not
end: it comes up only if the number has a divisor in common with the modulus.

**VdfJob** composes these: `main.cpp`'s loops over tests and chunks, `MSU.cpp`'s
fixed or random input and its check, `MSUSDAccel.cpp`'s job, `Squarer.hpp`'s
packing and unpacking, the registers, and a kernel that does what the modules
above show of the real one: takes its addresses, reads a request, squares with
the hardware's constants, writes any redundant words that stand for the answer,
is done for one edge. The OpenCL runtime is not in the repository. It is taken
to do what OpenCL says of an in-order queue: to write the arguments and then the
start bit, to wait for done (reading the control register again and again, or
the interrupt first and then the register), and only then to bring the answer
back. A host step takes no clock edge; edges come in between in any number.

**VdfBasic** (`vdf_basic.py`) is the abstract specification: `t` squarings, one
after the other. ModularSquare9Cycles and VdfJob both implement it.

**Primitives**, **ModularSquare9Cycles** (`primitives.py`,
`modular_square_9_cycles.py`). One action per cycle; a variable holds what a
later cycle reads and is `unset` before it is assigned. The bits of a number are
the set of positions that hold a one, so that the adders' lists and their growing
`bit_len` become sets; where the code cuts a number to a length (`int_to_bits`,
the masks, the ends of the arrays), so does the model.
**ModularArithmetic** computes modulo numbers of up to 31 bits within TLC's
integers, where Python's have any size.

**ReductionLut** (`gen_reduction_lut.py`): the tables the script computes and the
module it writes. An action is an edge of `clk` with anything at the inputs. A
memory holds the names of entries; `cur` gives their numbers when the words of a
look-up are formed. `uram_wide` is not in the repository: it is taken to write
from address 0 up while its `we` is high, and to read in one edge.

**MCRedunMont**, **MCMsuSystem**, **MCModularSquare**, **MCReductionLut**,
**MCVdfJob** give the constants their values. **RedunMontDataflow_proofs**,
**AxiReadSystem_proofs**, **AxiWriteSystem_proofs** and **AxiParts_proofs** (which
both extend), **MsuSystem_proofs**, **VdfJob_proofs** and **ReductionLut_proofs**
with **Arithmetic_proofs** (which the last two extend) have the proofs. MCMsuSystem,
MCReductionLut and MCVdfJob extend the proofs of their modules, so that TLC
evaluates their assumptions.

## The runs

| run | module, cfg | question | bounds |
|---|---|---|---|
| `redun_mont_dataflow` | RedunMontDataflow_proofs, RedunMontDataflow.cfg | does every `o_val` come with the next iterate, in time, whatever redos happen? Is the proof's invariant an invariant? | 4 squarings per job, 2 resets |
| `redun_mont_ports` | RedunMontDataflow, RedunMontPorts.cfg | does the squarer implement IteratingSquarer? | the same |
| `redun_mont_words` | MCRedunMont, RedunMont.cfg | are the words right? | 4 words of 4 bits, P = 3571, all 4096 inputs, 3 squarings, a second job after a reset |
| `redun_mont_coincidence` | MCRedunMont, RedunMontCoincidence.cfg | finding 1 | the input 849 |
| `redun_mont_zero_half` | MCRedunMont, RedunMontZeroHalf.cfg | finding 2 | the input 2^8 |
| `msu_system` | MCMsuSystem, MsuSystem.cfg | is every request answered as promised, over two clocks, skewed lanes, resets? Do the proof's assumptions hold of these bounds? | 2 jobs, 1 reset, 5 requests, 2 lanes, counts of 2 bits |
| `axi_read` | AxiReadSystem_proofs, AxiReadSystem.cfg | is every transfer read once, in order, without overflow, to its end? Do the proof's assumptions hold of these bounds? | 2 transfers, 1 reset, bursts of 2 beats of 2 bytes, 1 to 4 bursts |
| `axi_write` | AxiWriteSystem_proofs, AxiWriteSystem.cfg | is exactly the transfer written, do the channels agree, does it end? Do the proof's assumptions hold of these bounds? | the same |
| `msu_live` | MCMsuSystem, MsuSystemLive.cfg | does every job end? | 2 jobs, 1 reset, 2 requests |
| `modular_square` | MCModularSquare, ModularSquare.cfg | is the nine-cycle squarer a squarer, cycle by cycle? | 8 + 2 words of 4 bits, 4 moduli, 45 inputs, 3 tests in a row |
| `reduction_lut` | MCReductionLut, ReductionLut.cfg | are the tables loaded and looked up right? | 4 words of 2 bits, 6 memories of 4 entries, 3 URAMs |
| `vdf_job` | MCVdfJob, VdfJob.cfg | does a computation in chunks, through all registers, give the delay function, and end? | 5 inputs, 3 squarings in chunks of 1, 2, 3 or 5, 2 tests |

*RedunMontDataflow.* A result of squaring n is still on its way to `o_val` while
n + 1 is under way and, after a redo, while n + 2 begins; four squarings in a
row hold every sequence of redos that can meet, with one to spare, and the
proofs cover the rest. `ResultIsNextIterate` speaks of squarings that finding 1 does not touch.
`Paced` gives the bounds: two results are at least 3 edges apart (2 counted
edges between) and at most 13; both are reached. The squarer stops at the
bound on squarings, so deadlock is not checked in this and the word-level runs; a
squarer that ticked on without a result would violate `Paced`.

*RedunMont.* Four words is the least number for which the columns that the
multiplier leaves out, the speculative ones and the boundary are all distinct.
With words of 4 bits the boundary is hit in one product in eight, where the real
16-bit words hit it in one of 30000; all three redo paths, their combinations
within a squaring and their effect on the next one occur. The modulus is a
prime of three words, as the real one leaves the top word free.
`ResultIsSquareOrKnownCase` compares all results with `fe_mul_mont` and excepts
precisely the two findings.

*MsuSystem.* The requests are one squaring, two, two across the wrap of the
count from either side, and equal counts, which take the squarer all the way
round (`Squarings` in MsuPromise: with equal counts the hardware squares 2^T_LEN
times, not zero times). Two lanes suffice to be apart. The ratio of the clocks
is bounded by 1 and 4: the real one is 125 MHz to 50 to 65 MHz, between 1.9 and
2.5. The bound is as wide as the design allows: with 5, TLC finds the reset of
`STATE_PREPARE_SEND`, one cycle stretched to four by `reset_cdc0`, falling
between two edges of `clk_int`, and with it `CountedResultIsNext` violated. The
crossing depends on that ratio, and no assertion in the code states it.

- `StartTakesHold`: the start reaches the squarer when it is out of reset and
  idle. The start pulse and the reset before it cross on different paths.
- `CountedResultIsNext`: every result counted is the next square of this job's
  input, whole. It relates the FIFOs, the resets and the state machine.
- `OfferedBeatIsHeld`: AXI-Stream's rule, which a result that arrives after the
  last one wanted would break.
- `KeepsPromise`: refinement of MsuPromise.
- `TypeOK` includes the FIFOs' greatest fill, one word in and two out: that is
  why unconnected `full` does no harm.
- `JobsEnd`: liveness.

*AxiReadSystem, AxiWriteSystem.* The sizes are one byte, a whole burst, a burst and
a part of a beat, two bursts with the last beat half, three bursts, and four, the
most the counters hold; the offsets an aligned address and one that the master
aligns. The outstanding limit is two bursts, so a transfer of three meets it; the
write FIFO holds two beats, the read FIFO two bursts, as the code sizes it.
Deadlock is checked. Three bounds matter; TLC finds what is said to break when the
first or the second is passed:

- a reset lasts at least two edges: the start pipeline (`ctrl_start_d1`, `start`)
  has no reset, and with one edge a start of before the reset loads the counters
  after it (`OffersHold` violated);
- data runs ahead of addresses by no more bursts than `w_to_aw_cntr` holds (256 in
  the code, as its comment says; 4 here, all of a transfer): beyond
  it the count wraps and the addresses left are never sent (`TransfersEnd`);
- `C_MAX_OUTSTANDING` may be any number, but the write master's limit is that
  number only for a power of two and less otherwise; the kernel's 32 is one.

The properties: `RoomForWhatIsAsked` (read: the FIFO has room for a full burst for
each one asked for, less the beats already returned of the first, as `rready` is
always high and a beat that finds the FIFO full is lost), `AddressFollowsData` (write: the comment on lines 384 to 386),
`OutstandingLimit`, `BurstsMatch` (the two channels of the write master find the
last burst by counters of their own), `OffersHold` (AXI's rule),
`TransfersAll` (refinement of AxiTransfer), `TransfersEnd` (liveness).

*ModularSquare9Cycles.* Eight words of four bits and two redundant ones are the
smallest of the parameters the script lists. With four-bit words every kind of
overflow occurs: of words of V7V6, of V5V4, of both and of none. The moduli are
a prime near the largest of their length, a composite, the number 3 and 2^16 + 1;
each result, unreduced, is the next input. The same definitions were evaluated
beside the Python code on 160 squarings and gave the same words. The script's
own three loops stop after `num_tests`, so deadlock is not checked.

- `ResidueKept`: at every cycle the products not formed yet, the columns, the
  partial polynomials, what is still to be looked up and what is accumulated add
  up to the square, modulo `mod_in`.
- `OverflowAddressesTable`: the third look-up has no mask and must not need one.
- `ImplementsVdf`: with `x` the input modulo `mod_in`, the loop of `vdf_basic.py`.

*ReductionLut.* Three URAMs make a load go on from one to the next twice, the
last of the six memories is a ROM as the script insists, and entries of eight bits
are four words with a redundant one above for the half word that a shift moves
out. `we` may fall, and the load begin again, on any edge, any number of times;
it must have been low once first, since the counters have no reset.

*VdfJob.* The computation of three squarings is cut into chunks of one, of two
(the last one shorter), of three, of five (longer than the whole) and, with 0, by
default; a second test goes on from the answer of the first. The inputs are a
residue, a number above the modulus, the modulus itself, a number some of whose
powers vanish, and none. Words of two bits, three of them, with a redundant bit each, are
enough for the answer to have several forms. The kernel takes any time. The
platform may hold reset before the first job. A random input is drawn from 1 to
the modulus less one: that 1024 random bits are zero is left out.

- `EachLaunchOneJob`: the start bit, its pulse, the kernel's done, the wrapper's
  and the register's done tell of the same job, across two modules and a bus.
- `ImplementsVdf`: wherever the value is (host, buffer, kernel, answer), it is the
  iterate that the loop of `vdf_basic.py` has.
- `AnswerIsPow`: it is also what `mont.py`'s `pow` gives, by other inverses and
  another order of products, where its assertion holds.
- `ZeroIsNoInput`: below, under what the checks found.
- `ProgramReturns`: liveness.

Every property has a mutant in `PROJECT.json`: a plausible error in a mapped
definition (`X_Something`, defined above `X`) that makes TLC find it violated.

## Fairness

`FairSpec` assumes weak fairness of both clocks' edges and of the MMCM's lock (a
clock that runs, runs; `locked` is high in the end), and strong fairness of a
beat given, a beat accepted and a job finished when they are possible again and
again: the kernel's masters have the data requested and buffers that drain, and
memory answers in the end. Strong, because a reset or the absence of `ready`
disables a beat in between. Resets are bounded by `MaxResets` and nothing is
assumed of starts. For the AXI masters weak fairness is enough: a stream that
gives or takes, and a bus that accepts, returns and answers in the end. What is
offered stays offered (`OffersHold`), so what they may do stays possible until
they do it. The same holds for VdfJob: weak fairness of the host's next step, of
an edge, of the kernel's next move, and of each bus channel when the runtime's
offer meets a register that is ready. Write and read channel have conditions of
their own, since edges that only move one of them would otherwise do for both.
No fairness forces the squarer to announce a result:
`IteratingSquarer` bounds the edges between two of them (`MaxGap`), which is
what `Paced` establishes.

## The proofs

`RedunMontDataflow_proofs` proves, for any number of jobs and squarings (and, by
the provenance abstraction, for any word size and modulus):

- `TypeCorrect`: `Spec => []TypeOK`;
- `ScheduleHolds`: `Spec => []Schedule`, the inductive invariant;
- `ResultsCorrect`: `Spec => []ResultIsNextIterate`.

The only assumption is `BoundsAssumption`, that the bounds are naturals.

`ResultIsNextIterate` is far from inductive. `o_mul` is right because the right
high product was latched three edges before, which is right because its operands
and the addition term were, and so back to the square. `Schedule` says for each
place that the machine can be in while it works on iterate c + 1 (waiting for
input, starting, square out, square on the boundary, square redone, low product
out, on the boundary, redone, high product out, on the boundary, and the steps of the final
carry) what the registers that are still to be read hold, and which results are
on their way to `o_val`. The proof has one lemma per place: from it, an edge leads
to a place again. The reset leads to the first. The invariant is checked by TLC in
run `redun_mont_dataflow` before it is proved.

The module goes on, from the same assumption, to what the users of the squarer
see:

- `PacedAlways`: `Spec => []Paced`;
- `SquarerImplemented`: `UncoincidedSpec => IteratesSquares`, that is, the pipeline
  implements IteratingSquarer.

`Paced` speaks of the edges between two results, so its inductive invariant,
`Pace`, says for each place of the schedule how many edges may have passed since
the last result, and that the number falls below the least gap only while a
result is still in the delay line. `Pace` says nothing of the data and holds even where the
data have gone wrong; TLC checked it on the instance of `redun_mont_dataflow`.
The refinement combines it with Schedule (which iterate is delivered) and TypeOK,
and has one step for each thing an edge can look like from outside: a start
accepted, a wait, an edge of work, a result announced, a reset. It
is stated for the behaviours in which the two boundary hits of finding 1 do not
coincide; where they do, the result is not the next square.

`AxiParts_proofs` has the lemmas that both AXI masters need: what a step does to
the counter of `vdf_counter.sv`, whose register for zero is worked out beside the
count and must never lag behind it; what an edge does to the FIFO (every beat
written while it has room is passed on, in order, and one that can be seen and is
not read stays); quotient and remainder.

`AxiReadSystem_proofs` proves of the read master, for any beat and burst size,
any widths, depth, sizes and addresses, and any pace of the user and the bus:

- `BooksAreKept`: `Spec => []IInv`;
- `TypesHold`: `Spec => []TypeOK`;
- `RoomIsKept`: `Spec => []RoomForWhatIsAsked`;
- `OffersAreHeld`: `Spec => OffersHold`;
- `TransfersAreWhole`: `Spec => TransfersAll`, the refinement of AxiTransfer.

The hard part is the room. `ar_to_r_cntr` gives a vacancy back when a burst's
*last* beat leaves the FIFO, done has come long before, and the next transfer may
have begun on the same counter and the same FIFO. `Vacancy` therefore says there
are numbers `ends[i]`, the bursts that end in the FIFO after its i-th beat, such
that those that end in it, those asked for and the vacancies together are
C_MAX_OUTSTANDING, and what follows the i-th beat is at most `ends[i]` full bursts and
the beats returned of the next. The clause is needed for every i, not only for
the whole FIFO: when a burst's last beat is streamed, what remains must fit in
one burst less. `Stream` says that the FIFO holds the first of the beats the user
expects, and the books, in each of the phases Quiet, Starting, Active and Resetting, that
the bursts to ask for (`ToAsk`), to be returned (`ToReturn`) and the beats to come
(`ToCome`) are told alike by the three counters, by what has been asked for and by
what the user still expects (`Awaits`). TLC checked IInv on the instance of
`axi_read`, with `ends` from a bounded set. The assumptions, beside those of the module itself:

- `PowersOfTwo`: as below;
- `DepthAssumption`: the FIFO is as deep as the outstanding bursts are long
  (`vdf_axi_read_master.sv:172`);
- `ResetAssumption`, `SizesFit`: as below.

`AxiWriteSystem_proofs` proves of the write master, for any beat and burst size,
any widths, limit, sizes and addresses, and any pace of the user and the bus:

- `BooksAreKept`: `Spec => []IInv`;
- `AddressAfterData`: `Spec => []AddressFollowsData`;
- `LimitHolds`: `Spec => []OutstandingLimit`;
- `ChannelsAgree`: `Spec => []CInv`;
- `TypesHold`: `Spec => []TypeOK`;
- `LengthsMatch`: `Spec => []BurstsMatch`;
- `OffersAreHeld`: `Spec => OffersHold`;
- `TransfersAreWhole`: `Spec => TransfersAll`, the refinement of AxiTransfer.

The first two properties need each other's facts, and both need a whole transfer's: a
transfer begins with the counters that the last one left, only two of which are
loaded again, so all of its bursts must have been counted, addressed and answered
once when done came. `IInv` has four phases (Quiet, Asked, Active, Resetting).
In Active it keeps books. `Begun` is the bursts begun, as far as a pulse of `wfirst` has
told; `Unsent` those counted of them whose address is still to go, which is
`w_to_aw_cntr` plus a number of times round; `Unanswered` those with an address and
no answer, which `aw_to_b_cntr` exceeds by C_MAX_OUTSTANDING, or is 0. That each
burst gives one pulse needs that a full burst has two beats, since one taken on
its first edge and followed by another would give none. A final burst may have one
beat: the master stops after it.

The other properties need to know what the channels carry, and nothing in the
code keeps it in one place: the addresses come from an adder, `awlen` and `wlast`
each from a counter of its own and one from a register loaded at the start of the
last burst but one, the strobe from two of them, the data from the FIFO. `CInv`
gives each its number: the i-th address the bus has is `AddressOf(i)`, the j-th beat of
its i-th burst `WordOf((i - 1) * LP_AXI_BURST_LEN + j)`, the k-th in the FIFO the
k-th beat not yet gone, the next address and the beats left of the burst under way
what the counts of those accepted say. It is inductive together with `IInv`. For
the refinement a beat's number is turned into its place and back (`Numbering`,
`WrittenIs`), and different numbers are different places (`PlacesCounted`), so
that what has landed can be counted. TLC checked both invariants on the instance
of `axi_write`. The assumptions, beside those of the module itself:

- `PowersOfTwo`: powers of two are naturals, and at least 2 if the exponent is not
  0 (arithmetic that the provers lack);
- `WidthAssumption`: the limit's counter has no more bits than clog2 of the limit
  plus one, as the code sizes it;
- `BurstAssumption`: a full burst has more than one beat (256 in the code for the
  32-bit bus of `vdf.v`, 64 for 512 bits);
- `ResetAssumption`: a reset lasts two edges (see *AxiReadSystem, AxiWriteSystem*
  above);
- `SizesFit`: no transfer has more bursts than the counters of bursts hold.

`MsuSystem_proofs` proves of msu, the wrapper and the squarer between them, for any
width of the count, any requests, lanes and gaps between results, and any pace of
the kernel:

- `CrossingKeepsTime`: `Spec => []IInv`;
- `TypesHold`: `Spec => []TypeOK`;
- `EveryResultIsNext`: `Spec => []CountedResultIsNext`;
- `StartIsNotLost`: `Spec => StartTakesHold`;
- `OfferedBeatStays`: `Spec => OfferedBeatIsHeld`;
- `PromiseIsKept`: `Spec => KeepsPromise`, the refinement of MsuPromise.

The difficulty is that nothing acknowledges anything across the two clocks. msu ends a
job by sending the squarer a reset of one edge and goes on; the start of the next
job is a word in a FIFO with a path of its own, and results of the job that has
ended may still be in the other FIFO. Each property needs all three to be gone
when START comes, and only time sees to that. So `IInv` tells time. `Room` is
the edges of `i_clk` that the state machine must still make before it can be in
START; `Elapsed` those since PREPARE_SEND; `Age` the edges of `clk_int` since the
last result. With them:

- `Chain` and `Cleared`: lock, the FIFOs' reset and `ready` follow each other, and
  until the last of them the crossing is empty and a running squarer about to be reset;
- `Staged`, `Receiving`, `Computing`, `Sending`: what the shift registers, the counts
  and the answer hold at each place of a job;
- `Inlet`: while a job is under way its input is in exactly one place (FIFO,
  register, port, squarer), and between jobs a squarer that still runs has its
  reset ahead of it, in those of the four bits of `reset_cdc0` that the edge
  of `clk_int` due next will sample;
- `Outlet`: at most one result is in the FIFO, its longest wait is over before the
  next can come (`Age`) and before START (`Room`), and no result follows the
  last one onto the port;
- `Results`: the words on port, in register, in FIFO and in the squarer are the next
  squares, counted from `t_current`, one after another.

The proof has a part per kind of step: an edge of `clk_int`, an edge of the
kernel's clock (with lemmas for each conjunct, and one for the crossing as it
comes up), and the MMCM's lock. `Counting` and `CountsGo` carry the count across
its wrap. For the refinement each edge of the kernel's clock is a step of
MsuPromise or a stutter, the others are stutters. TLC checked IInv on the
instance of `msu_system`. The proof of a first version failed in two places, which
are now part of it: after the last result none may follow onto the port at once,
or msu would count it in PREPARE_SEND; and only a job that is under way reaches SQIN. The assumptions, beside those of the modules:

- `PowerOfTwo`: as `PowersOfTwo` above;
- `StretchAssumption`: at most 4 edges of `i_clk` between two of `clk_int`, as the
  four bits of `reset_cdc0` need (the real ratio is at most 2.5);
- `DelayAssumption`: a word takes at least an edge and less than the least gap
  between results to cross, and the last result of a job is out of the FIFO's
  pipeline within the 10 edges between PREPARE_SEND and START. The model's requests and
  answers have three beats; the real ones have more than 30, so that the code
  leaves many more edges than are assumed here;
- `FifoResetAssumption`: the FIFOs' reset lasts two edges, the length of the
  registers behind them.

The code states none of the last three, which follow from its clocks and IP blocks. They
are not there for the proof's convenience: TLC finds `CountedResultIsNext`
violated with a ratio of 5, with a delay of 0, and with a delay of 3 where results
come 3 edges of `i_clk` apart; `KeepsPromise` violated with a ratio of 4 and a
delay of 4; and `StartTakesHold` violated with a FIFO reset of one edge.

`ReductionLut_proofs` proves, for any number of URAMs, of entries and of words:

- `TypeCorrect`: `Spec => []TypeOK` (of ReductionLut);
- `LoadsInOrder`: `Spec => []LoadedInOrder`;
- `LookUpsAreRight`: `Spec => []LookUpIsShiftedEntry`.

The first two need `CountsAssumption` alone. Three things must tell the same story of a load,
and none of them has a reset: the one-hot `we_uram`, the count of transfers, and
the address each memory counts for itself. The inductive invariant is TypeOK,
LoadedInOrder and `Aligned`: before the first load nothing is claimed; from then
on `we_uram`, the count and every memory's address are what the host's place in
its load says they are.

`LookUpsAreRight` is about numbers. The registers' part is small (`Asked`: what was
read is the entry asked for, the delayed shifts are the ones asked for with it);
TLC checked it on the instance of `reduction_lut`. The rest is that the words the
generated module puts together, halves of two neighbours for half a word, the
neighbour for a whole one, nothing below the lowest and above the highest, are
the words of the entry times the shift (`OutputIsWord`), that words add up to
their number (`OutputIsNumber`), and that neither an entry, being below the
modulus, nor its shift has words above those there are (`EntryBelow`,
`NoWordBeyond`). Two assumptions more:

- `WordsAssumption`: LOOK_UP_WIDTH is half of WORD_LEN, as the script computes it,
  there is a redundant word, a word fits BIT_LEN bits, and M fits the words that
  are not redundant;
- `PowersOfTwo`: of the bounds' powers of 2, which the provers know nothing of, that
  they are positive and that exponents add.

`Arithmetic_proofs` has what such proofs need. The library's induction theorems
take an operator, which the provers cannot instantiate; here induction is about a
set of naturals (`StrongInduction`, `Induction`), shown from the library's theorem
that strict inclusion of finite sets is well-founded, and a recursive function is
given by the set of values it may take (`Recursion`). A loop is a function defined
by its value one pass on: such a function exists whether or not the loop ends
(`TailRecursion`), so that its end can be shown of it by induction. Of numbers
modulo m there are the laws of quotients and remainders, that what has an inverse
can be cancelled and that there is one inverse (`Cancelled`, `InverseIsUnique`);
and of ModularArithmetic that AddMod and MulMod are the
sum and the product modulo m, and that ShiftMod is below m, for every modulus.

`VdfJob_proofs` proves, for any chunks, tests, odd moduli and words, and a kernel
that takes any time:

- `PhasesHold`: `Spec => []IInv`;
- `EachLaunchIsOneJob`: `Spec => []EachLaunchOneJob`;
- `FactorsAgree`: the inverses and factors of `mont.py`, of the hardware's package
  and of GMP are the same, for every odd modulus;
- `TypeCorrect`: `Spec => []TypeOK`, with the kernel's value below twice the modulus;
- `ZeroNeverComes`: `Spec => []ZeroIsNoInput`;
- `DoesTheLoop`: `Spec => ImplementsVdf`, the refinement of VdfBasic;
- `AnswersArePowers`: `Spec => []AnswerIsPow`.

A job goes through seven phases: Resting (no job, or its start not yet written),
Starting (the bit is set, its pulse is out), Running, Ending (the kernel's one
edge of done), Ended (the wrapper has latched it), Done (the register has it),
Reported (the word is on the bus). `IInv` gives for each what the five registers of
the two modules hold, and `OnTheBus` relates the state machines of the bus to the
runtime's place in its list of writes. Why it is needed: that a read shows done of
*this* job follows from the bit having been cleared by the read of the last one,
which follows from the read having come after that job's done, and so on.
There is one lemma per phase, and two for the host's steps.

The other theorems need the numbers. Montgomery's product without its final
subtraction is exact modulo P, below 2P when the factors are below 2P and 4P does
not exceed the radix, and zero only for a zero (`ProductIs`): hence the bound of
`TypeOK` and the modulus in place of a zero answer. Binary Euclid ends since each
round makes u + v less, and keeps x1 * a = u and x2 * a = v modulo P (`RoundIs`,
`InverterIs`); plain Euclid likewise (`DivideIs`, `ReciprocalIs`); an inverse below
P is the only one. `PowIs` follows `mont.py`'s products, with the assertion that
may stop them. `WordsAddUp`: any redundant words that stand for a value below the
radix give it back, though the last comes without its redundant bit.

And they need the data. `Arguments` says what the writes made so far have put into
the registers, so that the kernel's addresses are right when the start is seen.
`Data` says, phase by phase, that the buffers, the request, the kernel's value
(`StandsFor`: in Montgomery form) and the answer are the chunk's input squared as
often as the counts say, and that the host goes on from values that fit. `IInv`,
`Arguments` and `Data` together are inductive (`InvariantHolds`). From them
follows `Where`: the residue and the number of squarings, wherever the value is.
Then every step is a pass of `vdf_basic.py`'s loop or leaves its variables as they
are (`NextPass`), which is the refinement; and the residue is always the seed
squared that often (`FromSeed`, an invariant by the same lemma), which is what
`pow` computes.

The assumptions:

- `JobAssumption`: moduli are odd and at least 3, four times a modulus does not
  exceed the radix (which has a word of 16 bits more), an input is below the
  radix (the code does not limit the command line's, but the kernel's registers
  have that size), and the radix is made of whole words, as the package's
  parameters are;
- `PowersOfTwo`: 2^0 is 1 and each power twice the one before, as far as the radix
  and the number of squarings go: the provers know nothing of powers.

TLC checked `IInv`, `Arguments`, `Data` and `Where` as invariants on the instance of
`vdf_job`, and evaluates the assumptions in that run.

Only model-checked: the words of the squarers, and everywhere liveness
(`TransfersEnd`, `JobsEnd`, `ProgramReturns`), which is beyond the prover.
ModularSquare9Cycles has a compressor tree that is a RECURSIVE operator and admits no
proofs. For RedunMont one would have to bound, for any number of words, what the
columns that a half product leaves out can still carry over the boundary; that
is not done, and its words are checked for all inputs of one size instead. What
is proved of that squarer is its schedule (`RedunMontDataflow_proofs`).

## What the checks found

1. *A lost final carry* (`redun_mont.sv:248`). If a squaring's low product hits
   the boundary and is redone, and its high product then hits the boundary too,
   the low product held for the final carry has been overwritten: the edge with
   `state == MUL2` reloads `i_sq_r_a` from the latest output, whether or not
   that is the low product. The result is one too small. The comment on line
   255 and the assertion of the test bench (line 79) say what should happen.
   With the real parameters both hits together come about once in 10^9
   squarings, the order of one long computation.
2. *A carry too many* (`redun_mont.sv:73`). The high product always adds one for
   the carry out of the lower half of `T + m*P`. If the lower half of the square
   `T` is zero there is no such carry. With 1040-bit halves this is a matter of
   special inputs (0, or a power of two whose square is R).

Both are excepted by name in the other runs, which show that nothing else goes wrong.

Observations that no run states as a violation, since the models say what the code does:

- *`mont.py` asserts more than its algorithm gives.* The comment on line 31 and the
  assertion on line 38 want products below the modulus, but the final
  subtraction is left out. In the model the inputs 9 modulo 3 and 15 modulo 7
  raise it (`AnswerIsPow` excepts an `AssertionError`); with the script's 1024-bit
  parameters a few powers in a thousand do.
- *Zero is not an input* (`main.cpp:174`, `Squarer.hpp`). `from_mont` gives the
  modulus, not 0, for a multiple of the modulus that is not 0. So an answer is
  never taken for a missing input unless the input was 0 (`ZeroIsNoInput`); but
  `check_job` would report a mismatch for such an input, as it compares with 0.
- *`modular_square_9_cycles.py` lists parameters it cannot work with.* Lines 887
  to 889 (overridden by 891 to 893) give one redundant word of 4 bits; the
  accumulated result then needs a word more than `NUM_ELEMENTS`, and the script's
  own check fails for about one test in four. With two redundant words of 4 bits,
  used here, and with the parameters in force, it does not happen.
- *The answer's count* is one less than `t_final`, and the answer's buffer is
  sized without the seed's 16 bits (`MSUSDAccel.cpp:144`), a word short. The host
  does not look at the count, and the word cut off holds only the top redundant
  bit, which is 0 (`WordsAddUp`).

## What is not modelled

- *Inside the vendor blocks*: MMCM, FIFOs and `uram_wide` are modelled from their use,
  and so is the OpenCL runtime.
- *Loss of lock while running*: it drops `ready` and resets the FIFOs, and msu
  waits for ever; nothing in the code restarts the job.
- *Metastability and glitches* of the unhandshaked crossing: `reset_cdc0` is
  sampled at one instant.
- *The 32-bit beats*: a beat of msu's streams is a field. VdfJob has the words of
  the answer, not the beats they travel in.
- *`mult_out_equalized_rr`, `hmul_out_h_r` of the source* that nothing reads or that are wires.
- *The AXI masters without their FIFO* (the kernel includes it), memory errors
  (they have no error inputs), transfers of no bytes (msu's sizes are constants
  above zero).
- *The whole kernel in one module*: read master, msu and write master are each
  checked with an environment at least as free as the others are, and VdfJob has
  an abstract kernel with their promises. Their registers together are out of
  TLC's reach.
- *Writes of part of a control register* (`wstrb`): the runtime writes words.
- *Option parsing, printing, time measurement, the start-up of OpenCL* of the host.
- *SquarerSimple and SquarerOzturk* of `Squarer.hpp`: for the baselines.
- *The baselines* (`modular_square_8_cycles.sv`, `modular_square_simple.sv`) and their
  wrapper: msu instantiates `redun_wrapper` instead.
- *The simulation drivers*: single-threaded; what they do to msu's ports MsuSystem's
  environment does too. Their watchdog limits simulations, not the design.
- *Adders and word multipliers*: combinational; a sum is a sum. (The software
  model's adders are in Primitives, because it works on bits.)
- *`gen_test.py`, Tcl, makefiles, documents*: no run-time state.

## Plan

1. Squarer: RedunMontFsm, RedunMontDataflow with its proofs, RedunMontPkg,
   MultiModeMultiplier, RedunMont. *Done.*
2. Unit and crossing: IteratingSquarer, Msu, RedunWrapper, MsuPromise,
   MsuSystem, with MsuSystem_proofs. *Done.*
3. Kernel: VdfCounter, XpmFifo, AxiTransfer, AxiReadMaster, AxiWriteMaster and
   their systems; VdfControl; AxiParts_proofs, AxiReadSystem_proofs,
   AxiWriteSystem_proofs. *Done.*
4. Host: Mont and VdfJob with their proofs: chunks, conversions, registers, runtime,
   the numbers and the refinement of VdfBasic. *Done.*
5. Software models: VdfBasic, Primitives, ModularSquare9Cycles, ReductionLut with
   Arithmetic_proofs and its proof. *Done.*
6. Left: baselines as further implementations of IteratingSquarer.
