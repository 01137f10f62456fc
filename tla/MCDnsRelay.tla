----------------------------- MODULE MCDnsRelay -----------------------------
(* Small instances of DnsRelay for TLC. *)
EXTENDS DnsRelay, TLC

MCRule == ("n1" :> "exact") @@ ("n2" :> "part")
=============================================================================
