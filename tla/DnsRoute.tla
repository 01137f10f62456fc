------------------------------ MODULE DnsRoute ------------------------------
(***************************************************************************)
(* A client that asks miki for a name, is told the proxy's address, and    *)
(* connects to buflea, which finds out from the note miki has sent which   *)
(* host the client is after: what miki promises (DnsService, which         *)
(* DnsRelay implements) and DnsHosts, with the DNS contexts between them.  *)
(***************************************************************************)
EXTENDS DnsService, DnsHosts

CONSTANTS
  Conn,       \* connections to buflea's DNS ports
  Redirected  \* those to a port that is configured with a host to fall back to

\* the clients of miki are those of buflea, and "no route" is none of the routes
ASSUME DnsRouteAssumption ==
  /\ Peer = Client /\ Redirected \subseteq Conn
  /\ NoRoute \notin Note /\ NoRoute \notin [note : Note, old : BOOLEAN]

VARIABLES
  conn,   \* the DNS context of each: its client, the first bytes of its request
  latest  \* the last note entered for each client (history)

vars == <<serviceVars, hostVars, conn, latest>>

Init ==
  /\ ServiceInit /\ HostsInit
  /\ conn = [k \in Conn |-> [pcall |-> "none"]]
  /\ latest = [c \in Client |-> NoRoute]

\* miki and its peers
Miki == ServiceNext /\ UNCHANGED <<hostVars, conn, latest>>

\* CtxCtl::_postprocess of a note that has arrived
NoteArrives(d) ==
  /\ d \in notes /\ notes' = notes \ {d}
  /\ QueueBegin(d)
  /\ UNCHANGED <<asked, taken, replies, conn, latest>>

NoteEntered(d) ==
  /\ QueueHost(d)
  /\ latest' = [latest EXCEPT ![d.cli] = d]
  /\ UNCHANGED <<serviceVars, conn>>

\* a client connects, sent here by miki or not, and makes a request
Connects(k, c, s) ==
  /\ conn[k].pcall = "none"
  /\ conn' = [conn EXCEPT ![k] = [pcall |-> "getHost", cli |-> c, sig |-> s]]
  /\ UNCHANGED <<serviceVars, hostVars, latest>>

Pending(c, s, note) == [pcall |-> "pending", cli |-> c, sig |-> s, note |-> note]

\* CtxDns::_get_hostname: to the host of the client's route; a client without
\* any goes to the configured host, for which there is no note, or is cut off
GetHostname(k) ==
  /\ conn[k].pcall = "getHost" /\ ~hostFault
  /\ LET c == conn[k].cli  s == conn[k].sig IN
     /\ hostFault' = Misses(c, s)
     /\ \/ /\ Route(c, s) # NoRoute
           /\ conn' = [conn EXCEPT ![k] = Pending(c, s, Route(c, s).note)]
        \/ /\ Routes(c) = {} /\ k \in Redirected
           /\ conn' = [conn EXCEPT ![k] = Pending(c, s, NoRoute)]
        \/ /\ Route(c, s) = NoRoute /\ (Routes(c) = {} => k \notin Redirected)
           /\ conn' = [conn EXCEPT ![k] = [pcall |-> "none"]]
  /\ UNCHANGED <<serviceVars, clients, queuing, trimmed, latest>>

\* CtxDns::_r_is_connected, unless the host cannot be reached
RIsConnected(k) ==
  /\ conn[k].pcall = "pending" /\ ~hostFault
  /\ UpdateHost(conn[k].cli, conn[k].sig)
  /\ conn' = [conn EXCEPT ![k].pcall = "io"]
  /\ UNCHANGED <<serviceVars, queuing, trimmed, latest>>

Closes(k) ==
  /\ conn[k].pcall \in {"pending", "io"}
  /\ conn' = [conn EXCEPT ![k] = [pcall |-> "none"]]
  /\ UNCHANGED <<serviceVars, hostVars, latest>>

Ageing ==
  /\ ~hostFault /\ \E c \in Client, s \in Key : RouteAges(c, s)
  /\ UNCHANGED <<serviceVars, conn, latest>>

Next ==
  \/ Miki
  \/ \E d \in notes : NoteArrives(d)
  \/ \E d \in queuing : NoteEntered(d)
  \/ \E k \in Conn, c \in Client, s \in Sig : Connects(k, c, s)
  \/ \E k \in Conn : GetHostname(k) \/ RIsConnected(k) \/ Closes(k)
  \/ Ageing

Spec == Init /\ [][Next]_vars

-----------------------------------------------------------------------------
(* Properties.                                                             *)

\* buflea reads past a client's routes only after the cleanup has taken the
\* default away from under other routes of the client.
MissesExplained == hostFault => trimmed

\* A connection goes to the host of the note entered last for its client, by
\* whichever signature it is found, so the routes of a client never disagree.
\* The configured host is for clients without any route.
LatestRoute ==
  [][\A k \in Conn : conn[k].pcall = "getHost" /\ conn'[k].pcall = "pending"
       => conn'[k].note = IF Routes(conn[k].cli) = {} THEN NoRoute
                                                      ELSE latest[conn[k].cli]]_vars

\* A client is connected only to a host it has asked for itself, unless the
\* sequence numbers have started again, or to the host its port is configured
\* with.
RoutedWhereAsked ==
  \A k \in Conn : conn[k].pcall \in {"pending", "io"} =>
    LET n == conn[k].note.n IN
    \/ conn[k].note = NoRoute /\ k \in Redirected
    \/ taken[n].cli = conn[k].cli /\ taken[n].name = conn[k].note.name
    \/ \E m \in DOMAIN taken : m # n /\ SameNumber(m, n)

=============================================================================
