----------------------------- MODULE MCCtxConn -----------------------------
(* Small instances of CtxConn for TLC. *)
EXTENDS CtxConn, TLC

Plain(kind) == [kind |-> kind, access |-> TRUE, bad |-> FALSE, hostssl |-> FALSE,
                found |-> TRUE, other |-> FALSE, up |-> 0, down |-> 0]

\* one connection of any protocol beside a plain one that only opens and ends
MCConfs ==
  [c \in 1..2 |->
     IF c = 2 THEN {Plain("pass")}
     ELSE {k \in AllConfs : k.down = 1 /\ k.up = IF k.kind \in {"pass", "dns"} THEN 1 ELSE 2}]
=============================================================================
