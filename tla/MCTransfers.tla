----------------------------- MODULE MCTransfers ----------------------------
(* Instances of Transfers for TLC.  No symmetry: the passing run checks    *)
(* liveness.                                                               *)
EXTENDS Transfers
=============================================================================
