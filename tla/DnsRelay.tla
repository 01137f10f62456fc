------------------------------ MODULE DnsRelay ------------------------------
(***************************************************************************)
(* miki, the DNS relay: it passes the questions of its clients on to the   *)
(* master servers under sequence numbers of its own, passes the answers    *)
(* back, and for a name in its rules answers with the proxy's address      *)
(* instead, after telling the proxy which host the client is after.  Its   *)
(* main thread does all that; the watcher thread keeps the connection to   *)
(* the proxy alive, and both may reconnect it.                             *)
(*                                                                         *)
(* Datagrams may be lost, late or delivered again: those that have been    *)
(* sent stay in a set from which any may arrive at any time.  The same     *)
(* goes for the answers of the servers, which may answer whatever has been *)
(* sent to them; the notes to the proxy travel each on a connection of its *)
(* own and may overtake one another.                                       *)
(***************************************************************************)
EXTENDS DnsService

CONSTANTS
  NDns,  \* how many master servers there are
  None

ASSUME DnsRelayAssumption == NDns \in Nat \ {0}

Thread == {"main", "watcher"}

VARIABLES
  sent,     \* what has been passed on to the servers
  ctxes,    \* _ctexes: which question waits for an answer under each sequence
            \* number (the n-th taken up), or 0
  gseq,     \* _gseq
  dnsidx,   \* _u_dnsidx
  prx,      \* _prxsock: "closed", "connecting" or "up"
  pc,       \* where each thread is in reconnecting it
  overlap,  \* both have been at it at once (history)
  cur,      \* the answer the main thread is at while it notifies
  rotated,  \* how often the next server has been chosen, up to NDns (history)
  fault     \* what has brought miki down, if anything has

net == <<asked, sent, replies, notes>>
table == <<ctxes, gseq, taken>>
dns == <<dnsidx, rotated>>
prxVars == <<prx, pc, overlap, cur>>
relayVars == <<net, table, dns, prxVars, fault>>

RelayInit ==
  /\ ServiceInit /\ sent = {}
  /\ ctxes = [s \in Seqs |-> 0] /\ gseq = 1
  /\ dnsidx = 0 /\ rotated = 0
  /\ prx = "closed" /\ pc = [t \in Thread |-> "idle"] /\ cur = None /\ overlap = FALSE
  /\ fault = "none"

-----------------------------------------------------------------------------
(* Questions.                                                              *)

Asks(c, n) ==
  /\ Ask(c, n) /\ fault = "none"
  /\ UNCHANGED <<sent, ctxes, gseq, dns, prxVars, fault>>

\* variant: two indexes past the last server are let through
Rotated_TwoPast(i, times) == (i + times) % (NDns + 2)

\* get_next_dns_ip, again and again: one index past the last is let through
Rotated(i, times) == (i + times) % (NDns + 1)
Counted(times) == IF rotated + times > NDns THEN NDns ELSE rotated + times

\* variant: the last number is left out
After_Early(s) == IF s + 1 >= SeqSpace THEN 1 ELSE s + 1

\* ++_gseq, which starts again behind the last number
After(s) == IF s + 1 > SeqSpace THEN 1 ELSE s + 1

Polls == pc["main"] = "idle" /\ fault = "none"

\* _from_client.  fails: how many sends fail before one does not, if any does.
\* Behind the last server there is none: miki is down, or a send to whatever
\* is read there fails, or goes nowhere.
FromClient(q) ==
  /\ Polls /\ q \in asked /\ Len(taken) < MaxTaken
  /\ taken' = Append(taken, TakenUp(q, gseq))
  /\ gseq' = After(gseq)
  /\ \E fails \in 0..NDns :
       LET beyond == \E j \in 0..fails : Rotated(dnsidx, j) = NDns
           goes == fails < NDns
       IN /\ dnsidx' = Rotated(dnsidx, fails) /\ rotated' = Counted(fails)
          /\ ctxes' = IF goes THEN [ctxes EXCEPT ![gseq] = Len(taken')] ELSE ctxes
          /\ sent' = IF goes /\ dnsidx' # NDns
                     THEN sent \cup {[seq |-> gseq, name |-> q.name]} ELSE sent
          /\ fault' \in {"none"} \cup IF beyond THEN {"rotation"} ELSE {}
  /\ UNCHANGED <<asked, replies, notes, prxVars>>

Pending == {s \in Seqs : ctxes[s] # 0}

\* variant: the loop ends before the last record
Flush_SkipsLast(late) ==
  /\ Polls /\ late # {}
  /\ ctxes' = [s \in Seqs |-> IF s \in late /\ \E u \in Pending : s < u THEN 0 ELSE ctxes[s]]
  /\ dnsidx' = Rotated(dnsidx, 1) /\ rotated' = Counted(1)
  /\ fault' \in {"none"} \cup IF dnsidx' = NDns THEN {"rotation"} ELSE {}
  /\ UNCHANGED <<net, gseq, taken, prxVars>>

\* _flush, while there is nothing to read, of what is late: five seconds old
Flush(late) ==
  /\ Polls /\ late # {}
  /\ ctxes' = [s \in Seqs |-> IF s \in late THEN 0 ELSE ctxes[s]]
  /\ dnsidx' = Rotated(dnsidx, 1) /\ rotated' = Counted(1)
  /\ fault' \in {"none"} \cup IF dnsidx' = NDns THEN {"rotation"} ELSE {}
  /\ UNCHANGED <<net, gseq, taken, prxVars>>

-----------------------------------------------------------------------------
(* Answers.                                                                *)

\* the reply, under the client's own id; the entry goes if it could be sent
Reply(m) ==
  \/ /\ replies' = replies \cup {ReplyTo(ctxes[m.seq], m.name)}
     /\ ctxes' = [ctxes EXCEPT ![m.seq] = 0]
  \/ UNCHANGED <<replies, ctxes>>

\* _from_dns of a question that is pending, and not to be announced; only a
\* name that is a rule is, not one a part of which is
FromDns(m) ==
  /\ Polls /\ m \in sent /\ ctxes[m.seq] # 0 /\ Rule[m.name] # "exact"
  /\ Reply(m)
  /\ UNCHANGED <<asked, sent, notes, gseq, taken, dns, prxVars, fault>>

\* _try_connect begins: what socket there was is destroyed
Reconnects(t, left) ==
  /\ prx' = left
  /\ pc' = [pc EXCEPT ![t] = "open"]
  /\ overlap' = (overlap \/ \E u \in Thread \ {t} : pc[u] # "idle")

\* variant: the socket of the last note is kept
Announce_KeepsSocket(m) ==
  /\ Polls /\ m \in sent /\ ctxes[m.seq] # 0 /\ Rule[m.name] = "exact"
  /\ cur' = m /\ Reconnects("main", prx)
  /\ UNCHANGED <<net, table, dns, fault>>

\* https_notify_proxy begins
Announce(m) ==
  /\ Polls /\ m \in sent /\ ctxes[m.seq] # 0 /\ Rule[m.name] = "exact"
  /\ cur' = m /\ Reconnects("main", "closed")
  /\ UNCHANGED <<net, table, dns, fault>>

\* it did not come to send: the client is told to go to the proxy all the same
Unannounced ==
  /\ Reply(cur)
  /\ cur' = None /\ pc' = [pc EXCEPT !["main"] = "idle"]
  /\ UNCHANGED <<asked, sent, notes, gseq, taken, dns, overlap, fault>>

NotConnected ==
  /\ pc["main"] = "wait" /\ fault = "none"
  /\ Unannounced /\ UNCHANGED prx

\* under the lock, which the watcher holds while it reconnects
SendNote ==
  /\ pc["main"] = "send" /\ pc["watcher"] = "idle" /\ fault = "none"
  /\ \/ /\ prx = "up" /\ UNCHANGED prx
        /\ notes' = notes \cup {NoteOf(ctxes[cur.seq], cur.name)}
     \/ prx' = "closed" /\ UNCHANGED notes
  /\ Reply(cur)
  /\ cur' = None /\ pc' = [pc EXCEPT !["main"] = "idle"]
  /\ UNCHANGED <<asked, sent, gseq, taken, dns, overlap, fault>>

-----------------------------------------------------------------------------
(* The connection to the proxy: the rest of _try_connect, which the main   *)
(* thread does without the lock.                                           *)

\* raw_connect asserts that there is no socket yet
TryOpen(t) ==
  /\ pc[t] = "open" /\ fault = "none"
  /\ IF prx = "closed"
     THEN prx' = "connecting" /\ pc' = [pc EXCEPT ![t] = "wait"] /\ UNCHANGED fault
     ELSE fault' = "reopened" /\ UNCHANGED <<prx, pc>>
  /\ UNCHANGED <<net, table, dns, overlap, cur>>

ProxyAccepts ==
  /\ prx = "connecting" /\ fault = "none"
  /\ prx' = "up"
  /\ UNCHANGED <<net, table, dns, pc, overlap, cur, fault>>

Connected ==
  /\ pc["main"] = "wait" /\ prx = "up" /\ fault = "none"
  /\ pc' = [pc EXCEPT !["main"] = "send"]
  /\ UNCHANGED <<net, table, dns, prx, overlap, cur, fault>>

\* _keep_alive: it reconnects unless it is connected and can send
KeepAlive ==
  /\ pc["watcher"] = "idle" /\ fault = "none"
  /\ Reconnects("watcher", "closed")
  /\ UNCHANGED <<net, table, dns, cur, fault>>

WatcherDone ==
  /\ pc["watcher"] = "wait" /\ fault = "none"
  /\ pc' = [pc EXCEPT !["watcher"] = "idle"]
  /\ UNCHANGED <<net, table, dns, prx, overlap, cur, fault>>

-----------------------------------------------------------------------------
MainThread ==
  \/ \E q \in asked : FromClient(q)
  \/ \E late \in SUBSET Pending : Flush(late)
  \/ \E m \in sent : FromDns(m) \/ Announce(m)
  \/ TryOpen("main") \/ Connected \/ NotConnected \/ SendNote
WatcherThread == KeepAlive \/ TryOpen("watcher") \/ WatcherDone

RelayNext ==
  \/ \E c \in Client, n \in Name : Asks(c, n)
  \/ MainThread \/ WatcherThread \/ ProxyAccepts

RelaySpec == RelayInit /\ [][RelayNext]_relayVars
\* Time passes, and the socket is not readable for ever (no client asks so
\* often), so what is pending is late for some flush; either thread goes on
\* with what it has begun.
FairSpec ==
  /\ RelaySpec
  /\ \A s \in Seqs : SF_relayVars(\E late \in SUBSET Pending : s \in late /\ Flush(late))
  /\ WF_relayVars(TryOpen("main") \/ NotConnected)
  /\ SF_relayVars(SendNote)
  /\ WF_relayVars(TryOpen("watcher") \/ WatcherDone)

-----------------------------------------------------------------------------
(* Properties.                                                             *)

TypeOK ==
  /\ asked \subseteq Question /\ notes \subseteq Note /\ taken \in Seq(Taken)
  /\ sent \subseteq [seq : Seqs, name : Name]
  /\ gseq \in Seqs /\ dnsidx \in 0..NDns /\ rotated \in 0..NDns
  /\ ctxes \in [Seqs -> 0..MaxTaken]
  /\ prx \in {"closed", "connecting", "up"} /\ cur \in [seq : Seqs, name : Name] \cup {None}
  /\ pc \in [Thread -> {"idle", "open", "wait", "send"}] /\ overlap \in BOOLEAN
  /\ fault \in {"none", "rotation", "reopened"}

\* Whatever is lost, late or delivered twice, a client is answered once, what
\* it has asked and under the id it has asked it with, and the proxy is told of
\* the host the client is after; only once the sequence numbers have started
\* again may one question be taken for another.
IsAService == ServiceSpec

\* miki comes down only when the rotation has gone through all its servers, or
\* when its two threads have been reconnecting the proxy at once.
FaultsExplained ==
  /\ fault = "rotation" => rotated = NDns
  /\ fault = "reopened" => overlap

\* Every question miki has taken up is answered or given up, whatever the
\* servers, the clients and the proxy do.
PendingEnds ==
  \A s \in Seqs, n \in 1..MaxTaken :
    ctxes[s] = n ~> (ctxes[s] # n \/ fault # "none")

=============================================================================
