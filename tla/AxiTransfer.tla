----------------------------- MODULE AxiTransfer -----------------------------
(***************************************************************************)
(* What either AXI master promises its user: asked to transfer a number of *)
(* beats it transfers each of them once, and says that it is done once,    *)
(* after the last.  A reset may end it at any time.                        *)
(***************************************************************************)
EXTENDS Naturals

CONSTANT Lengths        \* numbers of beats that may be asked for

VARIABLES
  status,       \* "idle" before the first transfer; busy, done or abandoned
  beats,        \* asked for
  moved         \* arrived where they should

transfer_vars == <<status, beats, moved>>

TransferInit == status = "idle" /\ beats = 0 /\ moved = 0

Ask ==
  /\ status # "busy"
  /\ status' = "busy" /\ beats' \in Lengths /\ moved' = 0

Move ==
  /\ status = "busy"
  /\ moved' \in moved + 1 .. beats
  /\ UNCHANGED <<status, beats>>

Finish ==
  /\ status = "busy" /\ moved = beats
  /\ status' = "done"
  /\ UNCHANGED <<beats, moved>>

Abandon ==
  /\ status = "busy" /\ status' = "abandoned"
  /\ beats' = 0 /\ moved' = 0

TransferNext == Ask \/ Move \/ Finish \/ Abandon

TransferSpec == TransferInit /\ [][TransferNext]_transfer_vars
=============================================================================
