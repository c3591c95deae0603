------------------------------ MODULE MCOutput ------------------------------
(* An instance of Output: reads of three bytes against a marker of three,  *)
(* so that the marker starts at every place of a chunk and lies across two *)
(* of them, and a limit of eight bytes, the size of one directory entry.   *)
EXTENDS Output, SequencesExt

MCByte   == {"a", "b"}
MCMarker == <<"a", "a", "b">>
MCTexts  == SeqOf(MCByte, 3)
\* Short texts before the marker, and one that pushes it past the limit.
MCNoise  == SeqOf(MCByte, 4) \cup {<<"b", "b", "b", "b", "b", "a">>}
\* Files up to one byte longer than the limit and the largest offset.
MCFiles  == { [i \in 1 .. n |-> IF i % 3 = 0 THEN "a" ELSE "b"] : n \in 0 .. 10 }
=============================================================================
