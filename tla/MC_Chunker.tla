------------------------------ MODULE MC_Chunker ------------------------------
(* Chunker at a scale where every input up to MaxLen bytes is enumerated.   *)
EXTENDS Chunker

MCBytes == {0, 1, 2}
===============================================================================
