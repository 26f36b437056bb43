------------------------------- MODULE XpmFifo -------------------------------
(***************************************************************************)
(* The vendor's synchronous FIFO that both AXI masters instantiate         *)
(* (xpm_fifo_sync), modelled from how they use it: first word fall-through,*)
(* a beat is visible to the reader some edges after it was written, and    *)
(* one written when the FIFO is full is lost.                              *)
(***************************************************************************)
EXTENDS Naturals, Sequences

CONSTANTS
  LP_FIFO_DEPTH,
  FifoDelays        \* edges until a written beat is visible, less one

ASSUME FifoAssumption ==
  LP_FIFO_DEPTH \in Nat \ {0} /\ FifoDelays \subseteq Nat /\ FifoDelays # {}

Full(fifo)       == Len(fifo) >= LP_FIFO_DEPTH
DataValid(fifo)  == fifo # <<>> /\ Head(fifo).wait = 0
Dout(fifo)       == Head(fifo).beat

\* What the FIFO may be after an edge.
AfterEdge(fifo, rst, rd, wr, din) ==
  LET rest == IF rd /\ DataValid(fifo) THEN Tail(fifo) ELSE fifo
      aged == [i \in DOMAIN rest |->
                 [rest[i] EXCEPT !.wait = IF @ = 0 THEN 0 ELSE @ - 1]]
  IN  IF rst THEN {<<>>}
      ELSE IF wr /\ ~Full(fifo)
      THEN {Append(aged, [beat |-> din, wait |-> wait]) : wait \in FifoDelays}
      ELSE {aged}
=============================================================================
