----------------------------- MODULE MCAiBackup -----------------------------
(* The AI section and the full backup for TLC: a plan of each kind, and a    *)
(* server that sells one thing.                                              *)
EXTENDS Upkeep, MCAi
=============================================================================
