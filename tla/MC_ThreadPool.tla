--------------------------- MODULE MC_ThreadPool ---------------------------
(* Model-checking instance of ThreadPool.                                  *)
EXTENDS ThreadPool

CONSTANTS w1, w2

MCWorkers == {w1, w2}
=============================================================================
