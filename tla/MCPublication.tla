---------------------------- MODULE MCPublication ---------------------------
(* Instances of Publication for TLC.                                       *)
EXTENDS Publication, TLC

CONSTANTS a, b, c  \* contents: a and b are of one size, c is longer

MCSize == a :> 1 @@ b :> 1 @@ c :> 2
=============================================================================
