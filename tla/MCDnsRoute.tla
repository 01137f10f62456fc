----------------------------- MODULE MCDnsRoute -----------------------------
(* Small instances of DnsRoute for TLC. *)
EXTENDS DnsRoute, TLC

MCRule == [n \in Name |-> "exact"]
Symm == Permutations(Client) \cup Permutations(Name) \cup Permutations(Sig)
=============================================================================
