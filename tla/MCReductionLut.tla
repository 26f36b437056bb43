--------------------------- MODULE MCReductionLut ---------------------------
(***************************************************************************)
(* ReductionLut for TLC: four words of two bits, six memories of four      *)
(* entries, three of them URAMs.  All memories get the same address, or    *)
(* neighbours different ones.                                              *)
(***************************************************************************)
EXTENDS ReductionLut_proofs

SomeAddresses == {[k \in Memories |-> (a + b * k) % NUM_LUT_ENTRIES] :
                    a \in Entries, b \in {0, 1, 3}}
=============================================================================
