--------------------------- MODULE MCPoolShutdown ---------------------------
(* Small instances of PoolShutdown for TLC: its constants are given in the cfg. *)
EXTENDS PoolShutdown, TLC
=============================================================================
