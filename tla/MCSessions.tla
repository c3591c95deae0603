----------------------------- MODULE MCSessions -----------------------------
(* Instances of Sessions for TLC.                                          *)
EXTENDS Sessions, TLC

\* Calls, servers and tool calls are interchangeable: nothing orders them.
Symmetry == Permutations(Calls) \cup Permutations(Servers)
=============================================================================
