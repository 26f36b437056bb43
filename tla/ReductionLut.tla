---------------------------- MODULE ReductionLut ----------------------------
(***************************************************************************)
(* gen_reduction_lut.py: the reduction tables it writes and the module     *)
(* reduction_lut it generates around them.  The first NUM_URAM memories    *)
(* are URAMs, written at run time through one port, a transfer at a time;  *)
(* the others are ROMs that hold their tables from the start.  A look-up   *)
(* takes one edge; the shift asked for with an address is delayed to meet  *)
(* the data, and moves it half a word or a word up.                        *)
(*                                                                         *)
(* One action is one rising edge of clk, with whatever is at the inputs.   *)
(* A memory's contents are the names <<i, y>> of the table and the entry   *)
(* they came from; a transfer is one entry (DIN_LEN = LUT_WIDTH).          *)
(* uram_wide is not part of the repository: it is taken to write its       *)
(* transfers from address 0 up while its we is high, to start again when   *)
(* it has been low, and to read in one edge as the ROMs do.                *)
(***************************************************************************)
EXTENDS ModularArithmetic

CONSTANTS
  REDUNDANT_ELEMENTS, NONREDUNDANT_ELEMENTS, NUM_SEGMENTS, EXTRA_ELEMENTS,
  WORD_LEN, BIT_LEN, M,
  URAMS,      \* the number of URAMs asked for
  Addresses   \* the lut_addr that are tried: functions on the memories

SEGMENT_ELEMENTS == NONREDUNDANT_ELEMENTS \div NUM_SEGMENTS
LUT_NUM_ELEMENTS == REDUNDANT_ELEMENTS + SEGMENT_ELEMENTS * 2 + EXTRA_ELEMENTS
NUM_ELEMENTS     == REDUNDANT_ELEMENTS + NONREDUNDANT_ELEMENTS
LOOK_UP_WIDTH    == WORD_LEN \div 2
LUT_SIZE         == 2^LOOK_UP_WIDTH
NUM_LUT_ENTRIES  == 2^(LOOK_UP_WIDTH + 1)
XFERS_PER_URAM   == NUM_LUT_ENTRIES

\* Sanitized: one memory at least is a ROM.
NUM_URAM == IF URAMS > LUT_NUM_ELEMENTS - 1 THEN LUT_NUM_ELEMENTS - 1 ELSE URAMS

Memories == 0..LUT_NUM_ELEMENTS - 1
Urams    == 0..NUM_URAM - 1
Entries  == 0..NUM_LUT_ENTRIES - 1
Unloaded == <<>>

ASSUME CountsAssumption ==
  /\ NUM_URAM \in Nat \ {0} /\ NUM_URAM < LUT_NUM_ELEMENTS
  /\ LUT_NUM_ELEMENTS \in Nat /\ XFERS_PER_URAM \in Nat /\ XFERS_PER_URAM > 1
  /\ Addresses \subseteq [Memories -> Entries]

(***************************************************************************)
(* Entry y of table i: the lower half of the addresses holds multiples of  *)
(* the weight of word i of V7V6, the upper half of V5V4's.                 *)
(***************************************************************************)
cur(i, y) ==
  LET t_v7v6 == ShiftMod(1, (i + NONREDUNDANT_ELEMENTS + SEGMENT_ELEMENTS * 2) * WORD_LEN, M)
      t_v5v4 == ShiftMod(1, (i + NONREDUNDANT_ELEMENTS) * WORD_LEN, M)
  IN  IF y < LUT_SIZE THEN MulMod(t_v7v6, y, M) ELSE MulMod(t_v5v4, y - LUT_SIZE, M)

VARIABLES
  we_uram,           \* the URAM that is written; NUM_URAM when none is
  write_uram_xfers,  \* its transfers left
  uram, next_xfer,   \* uram_wide: contents, where the next transfer goes
  lut_read_data,     \* what was read on the last edge
  shift_high_1d, shift_overflow_1d,
  host,              \* the transfer the loader has at din
  ready,             \* the loader has been idle on an edge since power-up
  asked              \* the inputs of the last edge, for the properties

loader == <<we_uram, write_uram_xfers, uram, next_xfer, host, ready>>
reader == <<lut_read_data, shift_high_1d, shift_overflow_1d, asked>>
vars   == <<loader, reader>>

-----------------------------------------------------------------------------
(* Writing *)

LastXfer == write_uram_xfers = 1

\* Mutant: the count is not reloaded for the next URAM.
WriteEnable_counts_down(we, din_valid) ==
  \/ ~we /\ we_uram' = 0 /\ write_uram_xfers' = XFERS_PER_URAM
  \/ /\ we /\ we_uram \in Urams /\ din_valid
     /\ we_uram' = IF LastXfer THEN we_uram + 1 ELSE we_uram
     /\ write_uram_xfers' = write_uram_xfers - 1
  \/ we /\ (we_uram \notin Urams \/ ~din_valid) /\ UNCHANGED <<we_uram, write_uram_xfers>>

\* Mutant: a load broken off leaves the count where it was.
WriteEnable_keeps_count(we, din_valid) ==
  \/ ~we /\ we_uram' = 0 /\ UNCHANGED write_uram_xfers
  \/ /\ we /\ we_uram \in Urams /\ din_valid
     /\ we_uram' = IF LastXfer THEN we_uram + 1 ELSE we_uram
     /\ write_uram_xfers' = IF LastXfer THEN XFERS_PER_URAM ELSE write_uram_xfers - 1
  \/ we /\ (we_uram \notin Urams \/ ~din_valid) /\ UNCHANGED <<we_uram, write_uram_xfers>>

\* Enable writing data into the URAMs.
WriteEnable(we, din_valid) ==
  \/ /\ ~we
     /\ we_uram' = 0
     /\ write_uram_xfers' = XFERS_PER_URAM
  \/ /\ we /\ we_uram \in Urams /\ din_valid
     /\ we_uram' = IF LastXfer THEN we_uram + 1 ELSE we_uram
     /\ write_uram_xfers' = IF LastXfer THEN XFERS_PER_URAM ELSE write_uram_xfers - 1
  \/ /\ we /\ (we_uram \notin Urams \/ ~din_valid)
     /\ UNCHANGED <<we_uram, write_uram_xfers>>

\* we_uram[i] && we
Written(i, we) == we_uram = i /\ we

UramWide(we, din, din_valid) ==
  /\ uram' = [i \in Urams |->
                IF Written(i, we) /\ din_valid
                THEN [uram[i] EXCEPT ![next_xfer[i]] = din] ELSE uram[i]]
  /\ next_xfer' = [i \in Urams |->
                IF ~Written(i, we) THEN 0
                ELSE IF din_valid THEN (next_xfer[i] + 1) % XFERS_PER_URAM
                ELSE next_xfer[i]]

\* The loader sends the tables of the URAMs in turn, each from entry 0 on.
Following(x) == IF x[2] + 1 < NUM_LUT_ENTRIES THEN <<x[1], x[2] + 1>> ELSE <<x[1] + 1, 0>>

HostSends(we, din_valid) ==
  host' = IF ~we THEN <<0, 0>>
          ELSE IF din_valid /\ host[1] \in Urams THEN Following(host) ELSE host

-----------------------------------------------------------------------------
(* Reading *)

Read(addr, shift_high, shift_overflow) ==
  /\ lut_read_data' = [k \in Memories |-> IF k \in Urams THEN uram[k][addr[k]]
                                          ELSE <<k, addr[k]>>]
  /\ shift_high_1d' = shift_high
  /\ shift_overflow_1d' = shift_overflow
  /\ asked' = [addr |-> addr, high |-> shift_high, over |-> shift_overflow]

\* Word l of what memory k put out; its halves.
data(l, k) == (cur(lut_read_data[k][1], lut_read_data[k][2]) \div 2^(WORD_LEN * l))
              % 2^WORD_LEN
low_half(w)  == w % 2^LOOK_UP_WIDTH
high_half(w) == w \div 2^LOOK_UP_WIDTH

\* Mutant: the half word that is shifted out of the top word is lost.
lut_output_cut(l, k) ==
  IF l >= NONREDUNDANT_ELEMENTS THEN 0
  ELSE IF shift_high_1d
  THEN low_half(data(l, k)) * 2^LOOK_UP_WIDTH
       + (IF l = 0 THEN 0 ELSE high_half(data(l - 1, k)))
  ELSE IF shift_overflow_1d THEN (IF l = 0 THEN 0 ELSE data(l - 1, k))
  ELSE data(l, k)

(***************************************************************************)
(* lut_output[l][k]: the data, or the data half a word or a word up, which *)
(* takes one word more; the redundant words beyond are zero.               *)
(***************************************************************************)
lut_output(l, k) ==
  IF l > NONREDUNDANT_ELEMENTS THEN 0
  ELSE IF shift_high_1d
  THEN (IF l < NONREDUNDANT_ELEMENTS THEN low_half(data(l, k)) * 2^LOOK_UP_WIDTH ELSE 0)
       + (IF l = 0 THEN 0 ELSE high_half(data(l - 1, k)))
  ELSE IF shift_overflow_1d THEN (IF l = 0 THEN 0 ELSE data(l - 1, k))
  ELSE IF l < NONREDUNDANT_ELEMENTS THEN data(l, k) ELSE 0

-----------------------------------------------------------------------------
Init ==
  /\ we_uram \in 0..NUM_URAM /\ write_uram_xfers \in 1..XFERS_PER_URAM
  /\ uram = [i \in Urams |-> [y \in Entries |-> Unloaded]]
  /\ next_xfer = [i \in Urams |-> 0]
  /\ lut_read_data = [k \in Memories |-> Unloaded]
  /\ shift_high_1d = FALSE /\ shift_overflow_1d = FALSE
  /\ host = <<0, 0>> /\ ready = FALSE
  /\ asked = [addr |-> [k \in Memories |-> 0], high |-> FALSE, over |-> FALSE]

(***************************************************************************)
(* An edge.  we stays low until the write enable has seen it low once: it  *)
(* has no reset.  After that it may fall in the middle of a load, which    *)
(* then begins again.                                                      *)
(***************************************************************************)
Clock(we, din_valid, addr, shift_high, shift_overflow) ==
  /\ we => ready
  /\ WriteEnable(we, din_valid)
  /\ UramWide(we, host, din_valid)
  /\ HostSends(we, din_valid)
  /\ ready' = (ready \/ ~we)
  /\ Read(addr, shift_high, shift_overflow)

Next == \E we, din_valid, high, over \in BOOLEAN, addr \in Addresses :
          Clock(we, din_valid, addr, high, over)

Spec == Init /\ [][Next]_vars

-----------------------------------------------------------------------------
(* Properties *)

Xfers == (0..NUM_URAM - 1) \X Entries \cup {<<NUM_URAM, 0>>}

TypeOK ==
  /\ we_uram \in 0..NUM_URAM /\ write_uram_xfers \in 1..XFERS_PER_URAM
  /\ uram \in [Urams -> [Entries -> {Unloaded} \cup (Urams \X Entries)]]
  /\ next_xfer \in [Urams -> Entries]
  /\ host \in Xfers /\ ready \in BOOLEAN

Sent(i, y) == i < host[1] \/ (i = host[1] /\ y < host[2])

(***************************************************************************)
(* Whatever gaps there are between the transfers, and after any number of  *)
(* loads broken off and begun again, every transfer has gone to the memory *)
(* and the address its entry belongs to, and the entries sent since we     *)
(* rose are all there: the write enable, the count of transfers and the    *)
(* memory's own address never disagree.                                    *)
(***************************************************************************)
LoadedInOrder ==
  \A i \in Urams, y \in Entries :
    /\ uram[i][y] \in {Unloaded, <<i, y>>}
    /\ Sent(i, y) => uram[i][y] = <<i, y>>

\* The polynomial of memory k's words.
OutputOf(k) ==
  LET sum[l \in 0..NUM_ELEMENTS] ==
        IF l = 0 THEN 0 ELSE sum[l - 1] + lut_output(l - 1, k) * 2^(WORD_LEN * (l - 1))
  IN  sum[NUM_ELEMENTS]

(***************************************************************************)
(* What a memory puts out is the entry addressed on the edge before, times *)
(* the weight asked for with that address: nothing of it is lost at a word *)
(* boundary or above the top word, each word fits BIT_LEN, and the shift   *)
(* of one look-up is never applied to the data of another.                 *)
(***************************************************************************)
LookUpIsShiftedEntry ==
  \A k \in Memories : lut_read_data[k] # Unloaded =>
    /\ OutputOf(k) = cur(k, asked.addr[k]) *
                       (IF asked.high THEN 2^LOOK_UP_WIDTH
                        ELSE IF asked.over THEN 2^WORD_LEN ELSE 1)
    /\ \A l \in 0..NUM_ELEMENTS - 1 : lut_output(l, k) < 2^BIT_LEN
=============================================================================
