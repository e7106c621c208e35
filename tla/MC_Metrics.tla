------------------------------ MODULE MC_Metrics ------------------------------
(* Thread names for the Metrics runs.                                        *)
EXTENDS Metrics

CONSTANTS t1

MCOneThread == {t1}
===============================================================================
