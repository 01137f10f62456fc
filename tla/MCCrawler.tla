----------------------------- MODULE MCCrawler -----------------------------
(* Small instances of Crawler for TLC. *)
EXTENDS Crawler, TLC

MCLinks == [u \in Uri |-> CASE u = "a" -> <<"b", "c">> [] u = "b" -> <<"a">> [] OTHER -> <<"b">>]
MCSite == [u \in Uri |-> IF u = "c" THEN "s2" ELSE "s1"]
MCSeeds == [NoPages EXCEPT !.que = <<[uri |-> "a", level |-> 0]>>,
                           !.dbcache = <<[uri |-> "b", level |-> 0]>>]
=============================================================================
