----------------------------- MODULE MCCtxPool -----------------------------
(* Small instances of CtxPool for TLC. *)
EXTENDS CtxPool, TLC

\* Contexts and workers are interchangeable (safety runs only).
Symm == Permutations(Ctx) \cup Permutations(Worker)
=============================================================================
