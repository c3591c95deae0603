----------------------------- MODULE MCCommands -----------------------------
(* Instances of Commands for TLC.                                          *)
EXTENDS Commands, TLC

\* Calls are interchangeable: nothing orders them.
Symmetry == Permutations(Calls)
=============================================================================
