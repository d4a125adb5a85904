---------------------------- MODULE MCPoolStore -----------------------------
(* Instance of PoolStore for TLC. *)
EXTENDS PoolStore, TLC

CONSTANTS r1, r2, a1, a2
=============================================================================
