----------------------------- MODULE MCPayload -----------------------------
(* An instance of Payload for TLC.                                         *)
EXTENDS Payload
=============================================================================
