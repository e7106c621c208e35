------------------------------ MODULE MC_SyncProbe ------------------------------
(* The StorageManager model values, reused for the Sync probe.              *)
EXTENDS SyncProbe, MC_StorageManager

=============================================================================
