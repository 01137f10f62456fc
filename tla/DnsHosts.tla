------------------------------ MODULE DnsHosts ------------------------------
(***************************************************************************)
(* The host table of buflea (DnsHtps): for each client the routes to the   *)
(* hosts it is after, one for the first bytes of each request it has been  *)
(* seen to make, and a default one.  Control connections add to it what    *)
(* miki has sent, DNS contexts look a route up when a request has come and *)
(* record its first bytes once the host is connected.  All of them run on  *)
(* workers of their own, and each call takes the table's lock by itself.   *)
(***************************************************************************)
EXTENDS Integers, FiniteSets

CONSTANTS
  Peer,       \* the clients, by their address
  Sig,        \* the first bytes of their requests
  Default,    \* the signature of a client's default route
  MaxRecs,    \* _maxrecs
  NoRoute

ASSUME DnsHostsAssumption == Default \notin Sig /\ MaxRecs \in Nat

VARIABLES
  clients,   \* _clients: the routes [note, old] of each client
  queuing,   \* the notes control connections are entering
  hostFault, \* a route was read past the end of a client's routes
  trimmed    \* the cleanup took a default and left other routes (history)

hostVars == <<clients, queuing, hostFault, trimmed>>

Key == Sig \cup {Default}
Routes(c) == {s \in Key : clients[c][s] # NoRoute}
NoRoutes == [s \in Key |-> NoRoute]

HostsInit ==
  /\ clients = [c \in Peer |-> NoRoutes]
  /\ queuing = {} /\ hostFault = FALSE /\ trimmed = FALSE

\* do_cleanup: what is too old goes, route by route
Cleaned == [c \in Peer |-> [s \in Key |->
              IF clients[c][s] # NoRoute /\ clients[c][s].old THEN NoRoute ELSE clients[c][s]]]

\* queue_host makes room first, under the lock or not
QueueBegin(d) ==
  /\ ~hostFault
  /\ queuing' = queuing \cup {d}
  /\ IF Cardinality({c \in Peer : Routes(c) # {}}) > MaxRecs
     THEN /\ clients' = Cleaned
          /\ trimmed' = (trimmed \/ \E c \in Peer :
                           Cleaned[c][Default] = NoRoute /\ Cleaned[c] # NoRoutes)
     ELSE UNCHANGED <<clients, trimmed>>
  /\ UNCHANGED hostFault

\* variant: the routes that are known by their first bytes are kept
QueueHost_KeepsRoutes(d) ==
  /\ d \in queuing /\ ~hostFault
  /\ clients' = [clients EXCEPT ![d.cli][Default] = [note |-> d, old |-> FALSE]]
  /\ queuing' = queuing \ {d}
  /\ UNCHANGED <<hostFault, trimmed>>

\* queue_host: the note replaces whatever there was for the client
QueueHost(d) ==
  /\ d \in queuing /\ ~hostFault
  /\ clients' = [clients EXCEPT ![d.cli] = [NoRoutes EXCEPT ![Default] = [note |-> d, old |-> FALSE]]]
  /\ queuing' = queuing \ {d}
  /\ UNCHANGED <<hostFault, trimmed>>

\* deque_host: the route by which a request of c goes; NoRoute if c is unknown
Route(c, s) == IF s \in Routes(c) THEN clients[c][s] ELSE clients[c][Default]

\* neither a route for the request nor a default, and c is known
Misses(c, s) == Routes(c) # {} /\ Route(c, s) = NoRoute

\* variant: the default route is taken over
UpdateHost_Moves(c, s) ==
  IF s \in Routes(c)
  THEN clients' = [clients EXCEPT ![c][s].old = FALSE] /\ UNCHANGED hostFault
  ELSE /\ clients' = [clients EXCEPT ![c][s] = clients[c][Default], ![c][Default] = NoRoute]
       /\ hostFault' = Misses(c, s)

\* update_host
UpdateHost(c, s) ==
  IF s \in Routes(c)
  THEN clients' = [clients EXCEPT ![c][s].old = FALSE] /\ UNCHANGED hostFault
  ELSE /\ clients' = [clients EXCEPT ![c][s] = clients[c][Default]]
       /\ hostFault' = Misses(c, s)

\* dnsssltout seconds have passed since the route was last used
RouteAges(c, s) ==
  /\ s \in Routes(c) /\ ~clients[c][s].old
  /\ clients' = [clients EXCEPT ![c][s].old = TRUE]
  /\ UNCHANGED <<queuing, hostFault, trimmed>>

=============================================================================
