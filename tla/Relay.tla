------------------------------- MODULE Relay -------------------------------
(***************************************************************************)
(* What a proxied connection promises its two ends, whatever its protocol: *)
(* what the client sends is carried to the host, and what the host sends   *)
(* to the client, in order, nothing twice, nothing before the connection   *)
(* is granted and nothing after it has ended.  The pieces of a stream are  *)
(* numbered as they are sent; a lossy connection may skip some of them,    *)
(* any other carries them one after the other.                             *)
(***************************************************************************)
EXTENDS Naturals, Sequences

CONSTANT Conn

VARIABLES
  status,     \* "asking", "granted" or "ended"
  permitted,  \* the access rules let the client reach the host
  lossy,      \* the connection may lose pieces of a stream
  first,      \* the number of the first piece meant for the host
  up,         \* pieces the host has received
  down        \* pieces the client has received

relayVars == <<status, permitted, lossy, first, up, down>>

\* t is the stream s with more pieces behind it, which starts at piece one
Continues(s, t, one, canSkip) ==
  LET after(i) == IF i = 1 THEN one ELSE t[i-1] + 1 IN
  /\ Len(t) >= Len(s) /\ SubSeq(t, 1, Len(s)) = s
  /\ \A i \in Len(s)+1 .. Len(t) :
       IF canSkip THEN t[i] >= after(i) ELSE t[i] = after(i)

RelayInit ==
  /\ status = [c \in Conn |-> "asking"]
  /\ up = [c \in Conn |-> <<>>] /\ down = [c \in Conn |-> <<>>]
  /\ permitted \in [Conn -> BOOLEAN] /\ lossy \in [Conn -> BOOLEAN]
  /\ first \in [Conn -> Nat]

OthersStay(c) ==
  \A d \in Conn \ {c} : status'[d] = status[d] /\ up'[d] = up[d] /\ down'[d] = down[d]

CarryUp(c) == Continues(up[c], up'[c], first[c], lossy[c])
CarryDown(c) == Continues(down[c], down'[c], 1, lossy[c])

\* The client may reach its host; the request itself may go with the grant.
Grant(c) ==
  /\ status[c] = "asking" /\ status'[c] = "granted"
  /\ permitted[c] /\ CarryUp(c) /\ CarryDown(c)

Carry(c) ==
  /\ status[c] = "granted" /\ status'[c] = "granted"
  /\ CarryUp(c) /\ CarryDown(c)

\* The last pieces may be carried with the end; nothing if it was not permitted.
End(c) ==
  /\ status[c] # "ended" /\ status'[c] = "ended"
  /\ IF permitted[c] THEN CarryUp(c) /\ CarryDown(c)
     ELSE up'[c] = up[c] /\ down'[c] = down[c]

RelayNext ==
  /\ \E c \in Conn : (Grant(c) \/ Carry(c) \/ End(c)) /\ OthersStay(c)
  /\ UNCHANGED <<permitted, lossy, first>>

RelaySpec == RelayInit /\ [][RelayNext]_relayVars
=============================================================================
