------------------------------ MODULE CtxConn ------------------------------
(***************************************************************************)
(* The connections of one buflea worker: the state machine a Ctx follows   *)
(* (_pcall names its state) for each protocol, and the loop of the worker  *)
(* that selects, spins every context and sweeps.  CtxPool models how a     *)
(* context gets to a worker and who deletes it; here it is what happens to *)
(* the connection in between.                                              *)
(*                                                                         *)
(* The pieces a client sends are numbered 1, 2, ...; the first of them are *)
(* its request, and one receive may take any number of those that have     *)
(* arrived.  A handler is given as the set of its outcomes [x, n, rv]: the *)
(* context, the two streams, and the CALLR it returns.                     *)
(***************************************************************************)
EXTENDS Integers, Sequences

CONSTANTS
  NConn,    \* connections the worker is given, in this order
  Confs,    \* what each may be for, and meet
  MaxUp,    \* bound on the pieces a client sends after its request
  MaxDown,  \* bound on the pieces a host sends
  Alike     \* pieces that begin like a request of the same protocol

Conn == 1..NConn
AllKinds == {"socks4", "socks5", "http", "tunnel", "pass", "dns"}

\* access: openacl, or what _is_access_blocked answers; bad: a request that is
\* refused; hostssl: the port encrypts to the host; found: a DNS context finds
\* a route; other: the second request of an HTTP client is for another host; up,
\* down: how many pieces the client sends after its request, and the host
AllConfs ==
  {k \in [kind : AllKinds, access : BOOLEAN, bad : BOOLEAN, hostssl : BOOLEAN,
          found : BOOLEAN, other : BOOLEAN, up : 0..MaxUp, down : 0..MaxDown] :
     /\ k.kind # "dns" => k.found
     /\ k.kind # "http" => ~k.other
     /\ k.kind \in {"pass", "dns"} => k.access
     /\ k.kind = "dns" => ~k.bad
     /\ k.bad => k.access /\ ~k.hostssl /\ ~k.other
     /\ ~k.access => ~k.hostssl /\ ~k.other}

ASSUME CtxConnAssumption ==
  /\ NConn \in Nat \ {0} /\ Confs \in [Conn -> SUBSET AllConfs]
  /\ MaxUp \in Nat /\ MaxDown \in Nat /\ Alike \subseteq Nat

VARIABLES
  conf,     \* what a connection is for and what it will meet, fixed at the start
  cx,       \* the contexts
  net,      \* the streams of the client and of the host
  taken,    \* how many contexts the worker has been given
  bucket,   \* _pctxs, its contexts
  stage,    \* "select", "spin" or "sweep": where the worker is in its loop
  at,       \* the index of the context it comes to next
  old,      \* delete_oldies
  turn,     \* what this turn has seen (history): "quiet", nothing to spin yet,
            \* "spun", or "ended", a context returned R_KILL or R_DONE
  crashed   \* an exception nobody catches left spin

loopVars == <<taken, bucket, stage, at, old, turn, crashed>>
vars == <<conf, cx, net, loopVars>>

\* pieces of the greeting, of the greeting and the request
Greeting(kind) == IF kind = "socks5" THEN 1 ELSE 0
Request(kind) == CASE kind = "pass" -> 0 [] kind = "socks5" -> 3 [] OTHER -> 2
FirstUp(kind) == IF kind \in {"http", "dns", "pass"} THEN 1 ELSE Request(kind) + 1

Socks == {"socks4", "socks5"}

Init ==
  /\ conf \in {f \in [Conn -> AllConfs] : \A c \in Conn : f[c] \in Confs[c]}
  /\ cx = [c \in Conn |-> [pcall |-> "hello", hdr |-> 0, working |-> FALSE,
                           moved |-> FALSE, csock |-> TRUE, rsock |-> "closed"]]
  /\ net = [c \in Conn |-> [sent |-> 0, got |-> 0, cEnd |-> FALSE, toHost |-> <<>>,
                            hsent |-> 0, hgot |-> 0, hEnd |-> FALSE, toCli |-> <<>>,
                            replies |-> <<>>, reach |-> "unknown"]]
  /\ taken = 0 /\ bucket = <<>> /\ stage = "select" /\ at = 1
  /\ old = FALSE /\ turn = "quiet" /\ crashed = FALSE

-----------------------------------------------------------------------------
(* The two ends, and the network.  The worker looks at a socket once in a   *)
(* turn: what its peer does in the meantime is as if it had done it before *)
(* the turn or after it, so the peers act between the turns.               *)

Answered(c, r) == \E i \in DOMAIN net[c].replies : net[c].replies[i] = r

\* A client that keeps to its protocol waits for what it has to wait for.
MaySend(c) ==
  LET kind == conf[c].kind  next == net[c].sent + 1 IN
  /\ next <= Request(kind) + conf[c].up
  /\ kind = "socks5" /\ next > Greeting(kind) => Answered(c, "method")
  /\ kind \in Socks \cup {"tunnel"} /\ next > Request(kind) => Answered(c, "success")
  /\ kind = "http" /\ next > Request(kind) => net[c].toCli # <<>>

ClientSend(c) ==
  /\ ~net[c].cEnd /\ MaySend(c)
  /\ net' = [net EXCEPT ![c].sent = @ + 1]
  /\ UNCHANGED <<conf, cx, loopVars>>

ClientClose(c) ==
  /\ ~net[c].cEnd
  /\ net' = [net EXCEPT ![c].cEnd = TRUE]
  /\ UNCHANGED <<conf, cx, loopVars>>

\* the connection to the host comes about, or not
HostAnswer(c) ==
  /\ cx[c].rsock = "connecting" /\ net[c].reach = "unknown"
  /\ \E r \in {"yes", "no"} : net' = [net EXCEPT ![c].reach = r]
  /\ UNCHANGED <<conf, cx, loopVars>>

HostSend(c) ==
  /\ cx[c].rsock = "up" /\ ~net[c].hEnd /\ net[c].hsent < conf[c].down
  /\ net' = [net EXCEPT ![c].hsent = @ + 1]
  /\ UNCHANGED <<conf, cx, loopVars>>

HostClose(c) ==
  /\ cx[c].rsock = "up" /\ ~net[c].hEnd
  /\ net' = [net EXCEPT ![c].hEnd = TRUE]
  /\ UNCHANGED <<conf, cx, loopVars>>

-----------------------------------------------------------------------------
(* Receiving and sending.                                                  *)

\* what select reports of a context; an open socket to the client is writable
Bits(c) ==
  LET x == cx[c]  n == net[c] IN
  {b \in {"cr", "rr", "rw"} :
     CASE b = "cr" -> x.csock /\ (n.sent > n.got \/ n.cEnd)
       [] b = "rr" -> x.rsock = "up" /\ (n.hsent > n.hgot \/ n.hEnd)
       [] b = "rw" -> x.rsock = "up" \/ (x.rsock = "connecting" /\ n.reach # "unknown")}

Numbers(from, n) == [i \in 1..n |-> from + i - 1]
Outcome(x, n, rv) == [x |-> x, n |-> n, rv |-> rv]

\* receive: -1 nothing to read, 0 the client has closed, else how many pieces
Received(c) ==
  IF "cr" \notin Bits(c) THEN {-1}
  ELSE IF net[c].sent > net[c].got THEN 1..(net[c].sent - net[c].got) ELSE {0}

\* _rec_some appends what it receives to the header; its answer is r
RecSome(c, r) ==
  LET k == IF r > 0 THEN r ELSE 0 IN
  [x |-> [cx[c] EXCEPT !.hdr = @ + k], n |-> [net[c] EXCEPT !.got = @ + k]]

\* The header is the last hdr pieces received; sendall passes on the first k.
SendHeader(x, n, k) ==
  [n EXCEPT !.toHost = @ \o Numbers(n.got - x.hdr + 1, k)]

\* _s_send_reply: only the SOCKS and HTTP contexts write to the client
Reply(c, n, code) ==
  IF conf[c].kind \in {"pass", "dns"} \/ (conf[c].kind \in {"http", "tunnel"} /\ code = "granted")
  THEN n
  ELSE [n EXCEPT !.replies = Append(@, IF code = "granted" THEN "success" ELSE code)]

-----------------------------------------------------------------------------
(* Relaying: one direction in a turn.                                       *)

\* Ctx::_cli2host
Cli2Host(c, x, n) ==
  {Outcome(x, n, "kill") : r \in Received(c) \cap {0}}
  \cup UNION
  {LET piece == n.got + 1
       had == [n EXCEPT !.got = @ + r]
       sent(k) == [had EXCEPT !.toHost = @ \o Numbers(piece, k)]
   IN IF x.working /\ piece \in Alike
        THEN {Outcome(x, had, "throw")}
        ELSE {Outcome([x EXCEPT !.moved = TRUE], sent(r), "continue")}
             \cup {Outcome(x, sent(k), "kill") : k \in 0..(r-1)}
   : r \in {r \in Received(c) : r > 0}}

\* what the host has sent and nobody has read, if the socket is readable
HostPieces(c, x, n) ==
  IF x.rsock = "up" /\ "rr" \in Bits(c) /\ n.hsent > n.hgot THEN 1..(n.hsent - n.hgot) ELSE {}
HostClosed(c, x, n) ==
  x.rsock = "up" /\ "rr" \in Bits(c) /\ n.hsent = n.hgot /\ n.hEnd

ToClient(n, r, k) == [n EXCEPT !.hgot = @ + r, !.toCli = @ \o Numbers(n.hgot + 1, k)]

\* variant: a host that has closed has nothing to read
Host2Cli_EndIgnored(c, x, n) ==
  (UNION {{Outcome([x EXCEPT !.moved = TRUE], ToClient(n, r, r), "continue")}
          \cup {Outcome(x, ToClient(n, r, k), "kill") : k \in 0..(r-1)} : r \in HostPieces(c, x, n)})
  \cup (IF HostClosed(c, x, n) THEN {Outcome(x, n, "continue")} ELSE {})

\* Ctx::_host2cli: a part of what was received may be sent before the send fails
Host2Cli(c, x, n) ==
  (UNION {{Outcome([x EXCEPT !.moved = TRUE], ToClient(n, r, r), "continue")}
          \cup {Outcome(x, ToClient(n, r, k), "kill") : k \in 0..(r-1)} : r \in HostPieces(c, x, n)})
  \cup (IF HostClosed(c, x, n) THEN {Outcome(x, n, "kill")} ELSE {})

\* Ctx::_io: one direction in a turn, the client's first
RelayIo(c, x, n) ==
  IF "cr" \in Bits(c) THEN Cli2Host(c, x, n)
  ELSE IF HostPieces(c, x, n) # {} \/ HostClosed(c, x, n) THEN Host2Cli(c, x, n)
  ELSE {Outcome(x, n, "continue")}

-----------------------------------------------------------------------------
(* Connecting to the host and what follows.                                *)

\* Ctx::_r_is_connected
Granted(x) == [x EXCEPT !.pcall = "io", !.working = TRUE]

\* CtxHttp::_r_is_connected sends the request and does not look at the result.
HttpRequest(x, n) ==
  {Outcome([x EXCEPT !.hdr = 0], SendHeader(x, n, k), "continue") : k \in 0..x.hdr}

\* variant: a plain connection counts as working from its start
Connected_PassWorks(c, x, n) == RelayIo(c, Granted(x), n)

\* the _r_is_connected of each context
Connected(c, x, n) ==
  CASE conf[c].kind = "socks4" ->
         {Outcome([Granted(x) EXCEPT !.hdr = 0], Reply(c, n, "granted"), "continue")}
    [] conf[c].kind = "socks5" -> {Outcome(Granted(x), Reply(c, n, "granted"), "continue")}
    [] conf[c].kind = "tunnel" ->
         {Outcome([Granted(x) EXCEPT !.hdr = 0],
                  [n EXCEPT !.replies = Append(@, "success")], "continue")}
    [] conf[c].kind = "http" -> {Outcome(Granted(o.x), o.n, o.rv) : o \in HttpRequest(x, n)}
    [] conf[c].kind = "pass" -> RelayIo(c, [x EXCEPT !.pcall = "io"], n)
    [] conf[c].kind = "dns" ->
         {Outcome([x EXCEPT !.pcall = "io", !.hdr = 0], SendHeader(x, n, x.hdr), "continue")}
         \cup {Outcome(x, SendHeader(x, n, k), "kill") : k \in 0..(x.hdr - 1)}

\* R_DONE once the handshake has ended: the worker takes it for an end
SslConnect(c, x, n) ==
  {Outcome(x, n, "kill"),
   Outcome([x EXCEPT !.pcall = "sslConnect"], n, "continue"),
   Outcome([x EXCEPT !.pcall = "connected"], n, "done")}

HostUp(c, x, n) ==
  IF conf[c].hostssl THEN SslConnect(c, [x EXCEPT !.rsock = "up"], n)
  ELSE Connected(c, [x EXCEPT !.rsock = "up"], n)

\* refused at once, in progress, or there at once
HostConnect(c, x, n) ==
  {Outcome(x, Reply(c, n, "fail"), "kill"),
   Outcome([x EXCEPT !.pcall = "pending", !.rsock = "connecting"], n, "continue")}
  \cup HostUp(c, x, [n EXCEPT !.reach = "yes"])

Pending(c) ==
  LET x == cx[c]  n == net[c] IN
  IF "rw" \notin Bits(c) THEN {Outcome(x, n, "continue")}
  ELSE IF n.reach = "no" THEN {Outcome(x, Reply(c, n, "fail"), "kill")}
  ELSE IF conf[c].hostssl THEN HostUp(c, x, n)
  ELSE {Outcome([x EXCEPT !.rsock = "up", !.pcall = "connected"], n, "continue")}

\* variant: the host is connected before the access rules are asked
Ask_Connects(c, x, n) ==
  IF conf[c].bad THEN {Outcome(x, Reply(c, n, "fail"), "kill")} ELSE HostConnect(c, x, n)

\* A whole request: it is bad, it is not allowed and the client is redirected
\* (after the reply of a success), or the host is connected.
Ask(c, x, n) ==
  IF conf[c].bad THEN {Outcome(x, Reply(c, n, "fail"), "kill")}
  ELSE IF conf[c].access THEN HostConnect(c, x, n)
  ELSE {Outcome([x EXCEPT !.pcall = "redirecting", !.hdr = IF conf[c].kind = "http" THEN @ ELSE 0],
                Reply(c, n, "granted"), "continue")}

\* Ctx5: _s_is_connected answers the greeting, _negociate_header the request.
Greet(c) ==
  UNION {LET a == RecSome(c, r)
             more == {Outcome(a.x, a.n, "continue")}
             asked == {Outcome([a.x EXCEPT !.hdr = 0, !.pcall = "negociate"],
                               Reply(c, a.n, "method"), "continue")}
             refused == {Outcome(a.x, Reply(c, a.n, code), "kill") : code \in {"fail", "method"}}
         IN IF a.x.hdr < 1 THEN more ELSE IF conf[c].bad THEN asked \cup refused ELSE asked
         : r \in Received(c)}

\* the request of a SOCKS or HTTP client, received in one go or in several
Request4Http(c) ==
  UNION {LET a == RecSome(c, r) IN
         IF a.x.hdr < 2 THEN {Outcome(a.x, a.n, "continue")} ELSE Ask(c, a.x, a.n)
         : r \in Received(c)}

\* CtxDns::_s_is_connected: the only one that looks for the client's end
DnsHello(c) ==
  UNION {LET a == RecSome(c, r) IN
         IF r = 0 THEN {Outcome(a.x, a.n, "kill")}
         ELSE {Outcome([a.x EXCEPT !.pcall = IF a.x.hdr < 2 THEN @ ELSE "getHost"], a.n, "continue")}
         : r \in Received(c)}

Hello(c) ==
  CASE conf[c].kind = "socks5" -> Greet(c)
    [] conf[c].kind \in {"socks4", "http", "tunnel"} -> Request4Http(c)
    [] conf[c].kind = "dns" -> DnsHello(c)
    [] conf[c].kind = "pass" ->
         IF conf[c].bad THEN {Outcome(cx[c], net[c], "kill")} ELSE HostConnect(c, cx[c], net[c])

\* CtxDns::_get_hostname
GetHostname(c) ==
  IF conf[c].found THEN HostConnect(c, cx[c], net[c]) ELSE {Outcome(cx[c], net[c], "kill")}

\* Ctx::_redirecting, _r_redirect: whatever has come, the redirection and the end
Redirecting(c) ==
  {LET a == RecSome(c, r) IN
   Outcome(a.x, [a.n EXCEPT !.replies = Append(@, "redirect")], "kill") : r \in Received(c)}

-----------------------------------------------------------------------------
(* HTTP: every request is read and parsed before it is passed on.          *)

\* CtxHttp::_get_from_host: what cannot be sent to the client is dropped
GetFromHost(c, x, n) ==
  (UNION {{Outcome([x EXCEPT !.moved = TRUE], ToClient(n, r, k), "continue") : k \in 0..r} :
          r \in HostPieces(c, x, n)})
  \cup (IF HostClosed(c, x, n) THEN {Outcome(x, n, "kill")} ELSE {})
  \cup (IF HostPieces(c, x, n) = {} /\ ~HostClosed(c, x, n)
        THEN {Outcome(x, n, "continue")} ELSE {})

\* CtxHttp::_s_is_connected of a context that works: the next request, which
\* spin ends when it has no host or one that has no address
NextRequest(c, x, n) ==
  UNION {LET a == RecSome(c, r) IN
         IF a.x.hdr < 2 THEN {Outcome(a.x, a.n, "continue")}
         ELSE {Outcome(a.x, Reply(c, a.n, "fail"), "kill")}
              \cup (IF conf[c].other
                    THEN {Outcome([a.x EXCEPT !.pcall = "emptyHost"], a.n, "continue")}
                    ELSE HttpRequest(a.x, a.n))
         : r \in Received(c)}

\* CtxHttp::_io, _sr_http_read_write: the client, then the host
HttpIo(c) ==
  IF "cr" \in Bits(c)
    THEN UNION {IF o.rv = "kill" THEN {o} ELSE GetFromHost(c, o.x, o.n)
                : o \in NextRequest(c, cx[c], net[c])}
    ELSE GetFromHost(c, cx[c], net[c])

\* CtxHttp::_empty_host: _get_from_host never answers 0, which sets _tflush
\* back, so it never comes to connect the next host.
EmptyHost(c) == {Outcome(o.x, o.n, "continue") : o \in GetFromHost(c, cx[c], net[c])}

Io(c) == IF conf[c].kind = "http" THEN HttpIo(c) ELSE RelayIo(c, cx[c], net[c])

-----------------------------------------------------------------------------
(* The worker's loop.                                                      *)

\* variant: the size is not taken down
SwapRemove_KeepsSize(s, i) ==
  [j \in 1..Len(s) |-> IF j = Len(s) THEN 0 ELSE IF j = i THEN s[Len(s)] ELSE s[j]]

\* Bucket<T>::remove: the last element moves into the hole
SwapRemove(s, i) == [j \in 1..Len(s)-1 |-> IF j = i THEN s[Len(s)] ELSE s[j]]

IsOpen(x) == x.csock \/ x.rsock # "closed"

\* variant: destroy closes the host's socket only
Destroyed_HostOnly(x) == [x EXCEPT !.rsock = "closed"]

\* Ctx::destroy
Destroyed(x) == [x EXCEPT !.csock = FALSE, !.rsock = "closed"]

Deleted(c) == c <= taken /\ \A i \in DOMAIN bucket : bucket[i] # c

\* _get_from_q
Take ==
  /\ stage = "select" /\ taken < NConn /\ ~crashed
  /\ taken' = taken + 1 /\ bucket' = Append(bucket, taken + 1)
  /\ UNCHANGED <<conf, cx, net, stage, at, old, turn, crashed>>

\* _set_fd and select; delete_oldies is set when time_out seconds have passed
Select ==
  /\ stage = "select" /\ bucket # <<>> /\ ~crashed
  /\ stage' = "spin" /\ old' \in BOOLEAN
  /\ UNCHANGED <<conf, cx, net, taken, bucket, at, turn, crashed>>

Comes(c, st) == stage = st /\ at <= Len(bucket) /\ c = bucket[at] /\ ~crashed

\* All are spun before the first is swept.
AfterSpin == IF at < Len(bucket) THEN at' = at + 1 /\ UNCHANGED stage ELSE at' = 1 /\ stage' = "sweep"

\* select reports nothing: it is dead, or nothing has come for it and what it
\* was to send is still under way
NotReady(c) ==
  /\ ~IsOpen(cx[c]) \/ (/\ Bits(c) \cap {"cr", "rr"} = {}
                        /\ net[c].replies # <<>> \/ net[c].toCli # <<>>
                        /\ "rw" \in Bits(c) => net[c].toHost # <<>>)

Skip(c) ==
  /\ Comes(c, "spin") /\ NotReady(c)
  /\ AfterSpin
  /\ UNCHANGED <<conf, cx, net, taken, bucket, old, turn, crashed>>

Spun(o) ==
  /\ turn' = IF turn = "ended" \/ o.rv \in {"kill", "done"} THEN "ended" ELSE "spun"
  /\ crashed' = (o.rv = "throw")
  /\ AfterSpin
  /\ UNCHANGED <<conf, taken, bucket>>

\* variant: a context that goes on leaves delete_oldies as it is
Returns_KeepsOld(c, o) ==
  /\ cx' = [cx EXCEPT ![c] = IF o.rv = "kill" THEN Destroyed(o.x) ELSE o.x]
  /\ net' = [net EXCEPT ![c] = o.n]
  /\ old' = (old \/ o.rv # "continue")
  /\ Spun(o)

\* Ctx::spin has returned (or thrown): the switch of thread_main
Returns(c, o) ==
  /\ cx' = [cx EXCEPT ![c] = IF o.rv = "kill" THEN Destroyed(o.x) ELSE o.x]
  /\ net' = [net EXCEPT ![c] = o.n]
  /\ old' = (o.rv # "continue")
  /\ Spun(o)

\* select has reported the context, and it is in the state
Spins(c, state, outcomes) ==
  /\ Comes(c, "spin") /\ IsOpen(cx[c]) /\ cx[c].pcall = state
  /\ \E o \in outcomes : Returns(c, o)

SpinHello(c)       == Spins(c, "hello", Hello(c))
SpinNegociate(c)   == Spins(c, "negociate", Request4Http(c))
SpinGetHostname(c) == Spins(c, "getHost", GetHostname(c))
SpinPending(c)     == Spins(c, "pending", Pending(c))
SpinSslConnect(c)  == Spins(c, "sslConnect", SslConnect(c, cx[c], net[c]))
SpinConnected(c)   == Spins(c, "connected", Connected(c, cx[c], net[c]))
SpinRedirecting(c) == Spins(c, "redirecting", Redirecting(c))
SpinIo(c)          == Spins(c, "io", Io(c))
SpinEmptyHost(c)   == Spins(c, "emptyHost", EmptyHost(c))

Spin(c) ==
  \/ SpinHello(c) \/ SpinNegociate(c) \/ SpinGetHostname(c) \/ SpinPending(c)
  \/ SpinSslConnect(c) \/ SpinConnected(c) \/ SpinRedirecting(c) \/ SpinIo(c)
  \/ SpinEmptyHost(c)

\* clear_fd: destroyed if it has moved nothing since it was last asked (with a
\* last reply if it never got over its protocol), then deleted if it is dead;
\* the last context moves to its place and is not swept in this turn
Sweep(c) ==
  /\ Comes(c, "sweep")
  /\ LET x == cx[c]
         asked == old \/ ~IsOpen(x)
         idle == asked /\ ~x.moved
         y == [IF idle THEN Destroyed(x) ELSE x EXCEPT !.moved = @ /\ ~asked]
         rest == IF IsOpen(y) THEN bucket ELSE SwapRemove(bucket, at)
         over == at >= Len(rest)
     IN /\ cx' = [cx EXCEPT ![c] = y]
        /\ net' = [net EXCEPT ![c] = IF idle /\ x.csock /\ ~x.working THEN Reply(c, @, "fail") ELSE @]
        /\ bucket' = rest
        /\ at' = IF over THEN 1 ELSE at + 1
        /\ stage' = IF over THEN "select" ELSE "sweep"
        /\ old' = (old /\ ~over) /\ turn' = IF over THEN "quiet" ELSE turn
  /\ UNCHANGED <<conf, taken, crashed>>

Peers(c) ==
  /\ stage = "select" /\ (\E i \in DOMAIN bucket : bucket[i] = c) /\ ~crashed
  /\ ClientSend(c) \/ ClientClose(c) \/ HostAnswer(c) \/ HostSend(c) \/ HostClose(c)

Worker == \/ Take \/ Select
          \/ \E c \in Conn : Skip(c) \/ Spin(c) \/ Sweep(c)

Next == Worker \/ \E c \in Conn : Peers(c)

Spec == Init /\ [][Next]_vars
\* The worker is a thread: it goes on as long as it has something to do.
FairSpec == Spec /\ WF_vars(Worker)

-----------------------------------------------------------------------------
(* Properties.                                                             *)

TypeOK ==
  /\ \A c \in Conn :
       /\ conf[c] \in Confs[c]
       /\ cx[c].hdr \in 0..(Request("socks5") + MaxUp)
       /\ cx[c].pcall \in {"hello", "negociate", "getHost", "pending", "sslConnect", "connected",
                           "redirecting", "io", "emptyHost"}
       /\ cx[c].working \in BOOLEAN /\ cx[c].moved \in BOOLEAN /\ cx[c].csock \in BOOLEAN
       /\ cx[c].rsock \in {"closed", "connecting", "up"}
       /\ net[c].got \in 0..net[c].sent /\ net[c].hgot \in 0..net[c].hsent
       /\ net[c].reach \in {"unknown", "yes", "no"}
  /\ taken \in 0..NConn /\ bucket \in Seq(1..taken) /\ at \in 1..Len(bucket) + 1
  /\ stage \in {"select", "spin", "sweep"} /\ old \in BOOLEAN
  /\ turn \in {"quiet", "spun", "ended"} /\ crashed \in BOOLEAN

\* The abstract relay every protocol is to be (module Relay).
Status(c) ==
  IF ~IsOpen(cx[c]) THEN "ended"
  ELSE IF cx[c].pcall \in {"io", "emptyHost"} THEN "granted" ELSE "asking"

Contract == INSTANCE Relay WITH
  status <- [c \in Conn |-> Status(c)],
  permitted <- [c \in Conn |-> conf[c].access],
  lossy <- [c \in Conn |-> conf[c].kind = "http"],
  first <- [c \in Conn |-> FirstUp(conf[c].kind)],
  up <- [c \in Conn |-> net[c].toHost],
  down <- [c \in Conn |-> net[c].toCli]

\* Whatever the protocol, how the bytes are cut into receives and what ends
\* first, a context is a relay: in order, nothing twice, nothing before the
\* request is granted or against the access rules, nothing after the end; and
\* only an HTTP context, which ignores the result of sendall, leaves holes.
IsARelay == Contract!RelaySpec

\* A SOCKS client the rules allow gets one answer to its request: a success,
\* then the data of the host, or a failure, then nothing.  (One the rules
\* refuse is told of a success first, and redirected after.)
OneAnswer ==
  \A c \in Conn :
    LET answers == {i \in DOMAIN net[c].replies : net[c].replies[i] # "method"} IN
    conf[c].kind \in Socks /\ conf[c].access =>
      /\ \A i, j \in answers : i = j
      /\ net[c].toCli # <<>> => \E i \in answers : net[c].replies[i] = "success"

\* The worker dies of an exception only of a SOCKS connection or an HTTP tunnel
\* that was relaying: the others never come to _reuse_context.
CrashCulprit ==
  crashed => \E c \in Conn : /\ conf[c].kind \in Socks \cup {"tunnel"}
                             /\ cx[c].pcall = "io" /\ Answered(c, "success")

\* The sweep destroys an open connection only in a turn in which a connection
\* of the same worker ended or none had anything to do: a lapse of time_out
\* does not, because whatever is spun after it and goes on calls it off.
SweptWithAnother ==
  [][\A c \in Conn : Sweep(c) /\ IsOpen(cx[c]) /\ ~IsOpen(cx'[c]) => turn # "spun"]_vars

\* Once a connection relays, the end of its host is noticed, and so is the end
\* of its client (an HTTP context does not look for its client's), and the
\* context is deleted, however the other connections keep the worker busy.
RelayEnds ==
  \A c \in Conn :
    (cx[c].pcall = "io" /\ (net[c].hEnd \/ (net[c].cEnd /\ conf[c].kind # "http")))
      ~> (Deleted(c) \/ cx[c].pcall = "emptyHost" \/ crashed)

=============================================================================
