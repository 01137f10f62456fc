------------------------------ MODULE MCAclDb ------------------------------
(* Small instances of AclDb for TLC. *)
EXTENDS AclDb, TLC

Symm == Permutations(Worker)
=============================================================================
