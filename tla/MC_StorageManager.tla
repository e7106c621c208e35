------------------------- MODULE MC_StorageManager -------------------------
(* Model-checking instances of StorageManager: chunk digests d1, d2 and    *)
(* the file versions clients upload, chosen per run.                       *)
EXTENDS StorageManager, TLC

CONSTANTS d1, d2

\* Versions of different lengths that share chunks, in both orders.
MCVersions == {<<d1, d2>>, <<d2, d1>>, <<d1>>}

\* A file that first has two chunks and is then re-uploaded with one.
MCVersionsShrink == {<<d1, d2>>, <<d1>>}

MCSymmetry == Permutations(Threads) \cup Permutations(Clients)
=============================================================================
