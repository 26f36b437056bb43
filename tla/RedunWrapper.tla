---------------------------- MODULE RedunWrapper ----------------------------
(***************************************************************************)
(* redun_mont_wrapper.sv (redun_wrapper): the squarer in a clock domain of *)
(* its own (clk_int, made from i_clk by an MMCM), one asynchronous FIFO    *)
(* per word in each direction, and the reset carried from i_clk to clk_int *)
(* without handshake, stretched to four edges so that clk_int sees it.     *)
(*                                                                         *)
(* The MMCM and the FIFOs are vendor blocks, modelled from their use: the  *)
(* MMCM may take any time to lock, after which the two clocks keep a       *)
(* bounded ratio; a word written becomes readable some edges of the        *)
(* reader's clock later, not the same number in every lane; a read word    *)
(* is at the output FIFO_RD_LTCY edges later.                              *)
(***************************************************************************)
EXTENDS IteratingSquarer, Sequences

CONSTANTS
  Lanes,              \* one per word of a redun0_t
  SyncDelays,         \* edges until a written word is readable, less one
  FifoResetEdges,     \* edges of clk_int for which the FIFOs stay in reset
  MinRatio, MaxRatio  \* edges of i_clk between two of clk_int, once locked

ASSUME WrapperAssumption ==
  /\ Lanes # {}
  /\ FifoResetEdges \in Nat \ {0}
  /\ SyncDelays # {} /\ SyncDelays \subseteq Nat
  /\ MinRatio \in Nat /\ MaxRatio \in Nat /\ MinRatio <= MaxRatio

VARIABLES
  locked, rst_busy,             \* MMCM locked; edges some FIFO is still in reset
  clk_gap,                      \* edges of i_clk since the last of clk_int
  locked_d, ready, o_ready,     \* i_clk
  fifo_out_val, reset_cdc0,
  fifo_in_val, reset_cdc1,      \* clk_int
  fifo_in, fifo_in_reg, mont_in,      \* by lane: contents, output pipeline
  fifo_out, fifo_out_reg, o_sq_out

wrapper_vars == <<locked, rst_busy, clk_gap, locked_d, ready, o_ready,
                  fifo_out_val, reset_cdc0, fifo_in_val, reset_cdc1,
                  fifo_in, fifo_in_reg, mont_in, fifo_out, fifo_out_reg, o_sq_out,
                  squarer_vars>>

-----------------------------------------------------------------------------
(***************************************************************************)
(* A FIFO: a sequence of words, each with the reader's edges still to wait *)
(* until the write pointer has crossed.                                    *)
(***************************************************************************)
Readable(fifo) == fifo # <<>> /\ Head(fifo).wait = 0
Aged(fifo) == [i \in DOMAIN fifo |-> [fifo[i] EXCEPT !.wait = IF @ = 0 THEN 0 ELSE @ - 1]]
\* An edge of the reader's clock; a read of an empty FIFO does nothing.
ReadEdge(fifos, rd) ==
  [l \in Lanes |-> Aged(IF rd /\ Readable(fifos[l]) THEN Tail(fifos[l]) ELSE fifos[l])]
\* An edge of the writer's.
Written(fifos, word, delays) ==
  [l \in Lanes |-> Append(fifos[l], [word |-> word, wait |-> delays[l]])]
AllEmpty == [l \in Lanes |-> <<>>]

\* The words of all lanes are one value only if they were written together.
Assembled(words) ==
  IF \E v \in {words[l] : l \in Lanes} : \A l \in Lanes : words[l] = v
  THEN words[CHOOSE l \in Lanes : TRUE] ELSE NoValue

\* Read only when every lane has a word.
FifoOutRd_AnyLane == \E l \in Lanes : Readable(fifo_out[l])
FifoInRd  == \A l \in Lanes : Readable(fifo_in[l])
FifoOutRd == \A l \in Lanes : Readable(fifo_out[l])

\* Each lane's first output register, then the port.
Fetched(fifos, rd, reg) ==
  [l \in Lanes |-> IF rd /\ Readable(fifos[l]) THEN Head(fifos[l]).word ELSE reg[l]]

o_valid == fifo_out_val[2]

-----------------------------------------------------------------------------
\* The reset of the squarer as it enters the crossing: 4 bits, newest first.
\* As if the reset were carried over by a single register.
ResetCdc0_OneStage(i_reset_mont) == <<~ready \/ i_reset_mont, FALSE, FALSE, FALSE>>
ResetCdc0(i_reset_mont) == <<~ready \/ i_reset_mont>> \o SubSeq(reset_cdc0, 1, 3)

\* An edge of i_clk.  The registers have an asynchronous reset: they are
\* reset on an edge before and on an edge after which i_reset is high.
WrapperClk(i_reset, i_reset_next, i_reset_mont, i_start, i_sq) ==
  LET resetting == i_reset \/ i_reset_next
      fifo_rst_next == i_reset_next \/ ~locked_d'
  IN  /\ locked => clk_gap < MaxRatio
      /\ clk_gap' = IF clk_gap < MaxRatio THEN clk_gap + 1 ELSE clk_gap
      /\ locked' = (locked /\ ~i_reset_next)
      /\ locked_d' = (~resetting /\ locked)
      /\ ready'    = (~resetting /\ locked_d /\ rst_busy = 0)
      /\ o_ready'  = (~resetting /\ ready)
      /\ reset_cdc0' = IF resetting THEN <<TRUE, FALSE, FALSE, FALSE>>
                                    ELSE ResetCdc0(i_reset_mont)
      /\ fifo_out_val' = IF resetting THEN <<FALSE, FALSE>>
                                      ELSE <<FifoOutRd, fifo_out_val[1]>>
      /\ rst_busy' = IF fifo_rst_next THEN FifoResetEdges ELSE rst_busy
      /\ fifo_out_reg' = Fetched(fifo_out, FifoOutRd, fifo_out_reg)
      /\ o_sq_out' = fifo_out_reg
      /\ IF fifo_rst_next
         THEN fifo_in' = AllEmpty /\ fifo_out' = AllEmpty
         ELSE /\ fifo_out' = ReadEdge(fifo_out, FifoOutRd)
              /\ IF i_start /\ rst_busy = 0
                 THEN \E delays \in [Lanes -> SyncDelays] :
                        fifo_in' = Written(fifo_in, i_sq, delays)
                 ELSE UNCHANGED fifo_in
      /\ UNCHANGED <<fifo_in_val, reset_cdc1, fifo_in_reg, mont_in, squarer_vars>>

\* An edge of clk_int; there is none while the MMCM is in reset.
WrapperClkInt(i_reset) ==
  /\ ~i_reset
  /\ locked => clk_gap >= MinRatio
  /\ clk_gap' = 0
  /\ reset_cdc1' = (\E i \in 1 .. 4 : reset_cdc0[i])
  /\ fifo_in_val' = <<FifoInRd, fifo_in_val[1]>>
  /\ fifo_in_reg' = Fetched(fifo_in, FifoInRd, fifo_in_reg)
  /\ mont_in' = fifo_in_reg
  /\ fifo_in' = ReadEdge(fifo_in, FifoInRd)
  /\ SquarerEdge(reset_cdc1 \/ reset_cdc1', fifo_in_val[2], Assembled(mont_in))
  /\ IF o_val /\ rst_busy = 0
     THEN \E delays \in [Lanes -> SyncDelays] :
            fifo_out' = Written(fifo_out, o_mul, delays)
     ELSE UNCHANGED fifo_out
  /\ rst_busy' = IF locked_d /\ rst_busy > 0 THEN rst_busy - 1 ELSE rst_busy
  /\ UNCHANGED <<locked, locked_d, ready, o_ready, fifo_out_val, reset_cdc0,
                 fifo_out_reg, o_sq_out>>

\* The MMCM has found its clock.
Lock(i_reset) ==
  /\ ~i_reset /\ ~locked
  /\ locked' = TRUE
  /\ clk_gap' = 0
  /\ UNCHANGED <<rst_busy, locked_d, ready, o_ready, fifo_out_val, reset_cdc0,
                 fifo_in_val, reset_cdc1, fifo_in, fifo_in_reg, mont_in,
                 fifo_out, fifo_out_reg, o_sq_out, squarer_vars>>

\* In reset.  The registers of clk_int have none: any value.
NoWords == [l \in Lanes |-> NoValue]
WrapperInit ==
  /\ locked = FALSE /\ rst_busy = FifoResetEdges /\ clk_gap = 0
  /\ locked_d = FALSE /\ ready = FALSE /\ o_ready = FALSE
  /\ fifo_out_val = <<FALSE, FALSE>> /\ reset_cdc0 = <<TRUE, FALSE, FALSE, FALSE>>
  /\ fifo_in_val \in BOOLEAN \X BOOLEAN /\ reset_cdc1 \in BOOLEAN
  /\ fifo_in = AllEmpty /\ fifo_in_reg = NoWords /\ mont_in = NoWords
  /\ fifo_out = AllEmpty /\ fifo_out_reg = NoWords /\ o_sq_out = NoWords
  /\ SquarerInit
=============================================================================
