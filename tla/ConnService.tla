---------------------------- MODULE ConnService ----------------------------
(***************************************************************************)
(* What the connection engine promises, without its threads' programs:     *)
(* connections wait in one line, each is taken from the front by exactly   *)
(* one server, stays with it, and is finished by that server and nobody    *)
(* else.  Only when the service has stopped may the line be dropped, and   *)
(* markers that wake the servers join it.  Once the service has refused a  *)
(* connection ("broken") nothing more is promised.                         *)
(***************************************************************************)
EXTENDS Naturals, Sequences

CONSTANTS
  Conn,    \* connections
  Server,  \* who may serve them
  Nobody   \* the server of an unserved connection, and the marker in the line

VARIABLES
  waiting,  \* the line: connections and markers
  server,   \* who serves each connection
  stopped,  \* the service is stopping
  broken    \* a connection has been refused

vars == <<waiting, server, stopped, broken>>

InLine(c) == \E i \in 1..Len(waiting) : waiting[i] = c

Init ==
  /\ waiting = <<>>
  /\ server = [c \in Conn |-> Nobody]
  /\ stopped = FALSE /\ broken = FALSE

Arrive ==
  /\ \E c \in Conn :
       /\ server[c] = Nobody /\ ~InLine(c)
       /\ waiting' = Append(waiting, c)
  /\ UNCHANGED <<server, stopped>>

Take ==
  /\ waiting # <<>> /\ Head(waiting) # Nobody
  /\ \E s \in Server : server' = [server EXCEPT ![Head(waiting)] = s]
  /\ waiting' = Tail(waiting)
  /\ UNCHANGED stopped

\* a server finishes some of its connections; stopping may be due to its end
Finish ==
  /\ \E s \in Server : \E done \in SUBSET {c \in Conn : server[c] = s} :
       server' = [c \in Conn |-> IF c \in done THEN Nobody ELSE server[c]]
  /\ stopped' \in {stopped, TRUE}
  /\ UNCHANGED waiting

Stop == stopped' = TRUE /\ UNCHANGED <<waiting, server>>

Mark == stopped /\ waiting' = Append(waiting, Nobody) /\ UNCHANGED <<server, stopped>>

Discard ==
  /\ waiting # <<>> /\ Head(waiting) = Nobody
  /\ waiting' = Tail(waiting)
  /\ UNCHANGED <<server, stopped>>

Abandon == stopped /\ waiting' = <<>> /\ UNCHANGED <<server, stopped>>

Break == broken' = TRUE

Next ==
  \/ Break
  \/ /\ ~broken /\ broken' = FALSE
     /\ Arrive \/ Take \/ Finish \/ Stop \/ Mark \/ Discard \/ Abandon

Spec == Init /\ [][Next]_vars
=============================================================================
