-------------------------- MODULE DnsRelay_proofs --------------------------
(***************************************************************************)
(* Theorems about DnsRelay, for every number of clients, names, master     *)
(* servers, questions and sequence numbers.                                *)
(***************************************************************************)
EXTENDS DnsRelay, TLAPS, SequenceTheorems, FiniteSetTheorems

\* What waits under a sequence number was taken up under it, and has had no
\* reply yet.
Known ==
  \A s \in Seqs : ctxes[s] # 0 =>
    /\ ctxes[s] \in DOMAIN taken /\ taken[ctxes[s]].seq = s
    /\ \A r \in replies : r.n # ctxes[s]

\* Whatever a server can answer was asked of it for a question taken up.
Passed ==
  \A m \in sent : \E k \in DOMAIN taken : taken[k].seq = m.seq /\ taken[k].name = m.name

Answered == \A r \in replies : r.n \in DOMAIN taken

\* The question the main thread announces stays pending meanwhile: nothing else
\* ends one while that thread is busy.
Intent ==
  pc["main"] # "idle" =>
    cur \in sent /\ ctxes[cur.seq] # 0 /\ Rule[cur.name] = "exact"

RelayInv ==
  /\ TypeOK /\ IsFiniteSet(asked) /\ gseq = Number
  /\ Known /\ Passed /\ Answered /\ Intent

\* The rotation stays within one past the last server.
LEMMA RotatedRange ==
  ASSUME NEW i \in Nat, NEW t \in Nat
  PROVE  Rotated(i, t) \in 0..NDns
  BY DnsRelayAssumption, SMT DEF Rotated

\* However long the service has rotated, the index the code computes stays in that
\* range too.
LEMMA CountedRange ==
  ASSUME NEW t \in Nat, rotated \in Nat
  PROVE  Counted(t) \in 0..NDns
  BY DnsRelayAssumption, SMT DEF Counted

\* Filling one entry of the table of pending questions keeps its type and the
\* other entries.
LEMMA EntrySet ==
  ASSUME NEW f \in [Seqs -> 0..MaxTaken], NEW s \in Seqs, NEW n \in 0..MaxTaken
  PROVE  /\ [f EXCEPT ![s] = n] \in [Seqs -> 0..MaxTaken]
         /\ \A u \in Seqs : [f EXCEPT ![s] = n][u] = IF u = s THEN n ELSE f[u]
  OBVIOUS

\* Appending leaves what has been taken up before where it was.
LEMMA TakenGrows ==
  ASSUME NEW s \in Seq(Taken), NEW e \in Taken
  PROVE  /\ Append(s, e) \in Seq(Taken)
         /\ Len(Append(s, e)) = Len(s) + 1
         /\ DOMAIN s = 1..Len(s) /\ DOMAIN Append(s, e) = 1..(Len(s) + 1)
         /\ \A k \in DOMAIN s : k \in DOMAIN Append(s, e) /\ Append(s, e)[k] = s[k]
         /\ Append(s, e)[Len(s) + 1] = e
  BY AppendProperties, LenProperties, SMT

\* The pending questions, the numbers and what has been sent agree throughout.
THEOREM Bookkeeping == RelaySpec => []RelayInv
<1> USE DnsServiceAssumption, DnsRelayAssumption
<1>1. RelayInit => RelayInv
  <2> SUFFICES ASSUME RelayInit PROVE RelayInv
    OBVIOUS
  <2>1. taken \in Seq(Taken) /\ taken = <<>>
    BY EmptySeq DEF RelayInit, ServiceInit
  <2>2. asked = {} /\ IsFiniteSet(asked)
    BY FS_EmptySet DEF RelayInit, ServiceInit
  <2>3. gseq = Number /\ gseq \in Seqs
    BY <2>1 DEF RelayInit, Number, Seqs
  <2>4. ctxes \in [Seqs -> 0..MaxTaken] /\ dnsidx \in 0..NDns /\ rotated \in 0..NDns
    BY DEF RelayInit
  <2>5. TypeOK
    BY <2>1, <2>2, <2>3, <2>4 DEF RelayInit, ServiceInit, TypeOK, Thread
  <2>6. Known /\ Passed /\ Answered
    BY DEF RelayInit, ServiceInit, Known, Passed, Answered
  <2>7. Intent
    BY DEF RelayInit, Intent, Thread
  <2> QED
    BY <2>2, <2>3, <2>5, <2>6, <2>7 DEF RelayInv
<1>2. RelayInv /\ [RelayNext]_relayVars => RelayInv'
  <2> SUFFICES ASSUME RelayInv, [RelayNext]_relayVars PROVE RelayInv'
    OBVIOUS
  <2> USE DEF RelayInv, TypeOK, Known, Passed, Answered, Intent, net, table, dns, prxVars, Thread, Polls
  <2>1. ASSUME NEW c \in Client, NEW n \in Name, Asks(c, n) PROVE RelayInv'
    <3>1. Cardinality(asked) \in Nat /\ Cardinality(asked) + 1 \in 1..MaxAsk
      BY <2>1, FS_CardinalityType DEF Asks, Ask
    <3>2. asked' \subseteq Question
      BY <2>1, <3>1 DEF Asks, Ask, Question
    <3>3. IsFiniteSet(asked')
      BY <2>1, FS_AddElement DEF Asks, Ask
    <3> QED
      BY <2>1, <3>2, <3>3 DEF Asks, Ask, Number
  <2>2. ASSUME NEW qu \in asked, FromClient(qu) PROVE RelayInv'
    <3>1. TakenUp(qu, gseq) \in Taken /\ TakenUp(qu, gseq).seq = gseq
          /\ TakenUp(qu, gseq).name = qu.name
      BY DEF TakenUp, Taken, Question
    <3> DEFINE new == Len(taken) + 1
    <3>2. /\ taken' \in Seq(Taken) /\ Len(taken') = new /\ new \in 1..MaxTaken
          /\ DOMAIN taken = 1..Len(taken) /\ DOMAIN taken' = 1..new
          /\ \A k \in DOMAIN taken : k \in DOMAIN taken' /\ taken'[k] = taken[k]
          /\ taken'[new] = TakenUp(qu, gseq)
      BY <2>2, <3>1, TakenGrows, LenProperties DEF FromClient
    <3>3. gseq' = After(gseq) /\ gseq' \in Seqs /\ gseq' = NextSeq(gseq)
      BY <2>2 DEF FromClient, After, NextSeq, Seqs
    <3>4. (gseq = Number)'
      <4>1. taken' # <<>>
        BY <3>2
      <4> QED
        BY <4>1, <3>1, <3>2, <3>3 DEF Number
    <3>5. PICK fails \in 0..NDns :
            /\ dnsidx' = Rotated(dnsidx, fails) /\ rotated' = Counted(fails)
            /\ ctxes' = IF fails < NDns THEN [ctxes EXCEPT ![gseq] = new] ELSE ctxes
            /\ sent' = IF fails < NDns /\ dnsidx' # NDns
                       THEN sent \cup {[seq |-> gseq, name |-> qu.name]} ELSE sent
            /\ fault' \in {"none", "rotation"}
      BY <2>2, <3>2 DEF FromClient
    <3>6. dnsidx' \in 0..NDns /\ rotated' \in 0..NDns
      <4>1. dnsidx \in Nat /\ rotated \in Nat /\ fails \in Nat
        OBVIOUS
      <4> QED
        BY <3>5, <4>1, RotatedRange, CountedRange
    <3>7. /\ ctxes' \in [Seqs -> 0..MaxTaken]
          /\ \A s \in Seqs : ctxes'[s] = ctxes[s] \/ (s = gseq /\ ctxes'[s] = new)
      <4>1. gseq \in Seqs /\ new \in 0..MaxTaken /\ ctxes \in [Seqs -> 0..MaxTaken]
        BY <3>2
      <4>2. CASE fails < NDns
        <5>1. ctxes' = [ctxes EXCEPT ![gseq] = new]
          BY <3>5, <4>2
        <5> QED
          BY <4>1, <5>1, EntrySet
      <4>3. CASE ~(fails < NDns)
        <5>1. ctxes' = ctxes
          BY <3>5, <4>3
        <5> QED
          BY <4>1, <5>1
      <4> QED
        BY <4>2, <4>3
    <3>8. \A r \in replies : r.n # new
      BY <3>2
    <3>9. Known'
      BY <2>2, <3>1, <3>2, <3>7, <3>8 DEF FromClient
    <3>10. Passed'
      <4>1. sent' \subseteq sent \cup {[seq |-> gseq, name |-> qu.name]}
        BY <3>5
      <4>2. ASSUME NEW m \in sent
            PROVE \E k \in DOMAIN taken' : taken'[k].seq = m.seq /\ taken'[k].name = m.name
        BY <3>2
      <4>3. new \in DOMAIN taken' /\ taken'[new].seq = gseq /\ taken'[new].name = qu.name
        BY <3>1, <3>2
      <4> QED
        BY <4>1, <4>2, <4>3
    <3>11. sent' \subseteq [seq : Seqs, name : Name]
      BY <3>5 DEF Question
    <3>12. UNCHANGED <<asked, replies, notes, prx, pc, overlap, cur>> /\ pc["main"] = "idle"
      BY <2>2 DEF FromClient
    <3>13. TypeOK'
      BY <3>2, <3>3, <3>5, <3>6, <3>7, <3>11, <3>12
    <3>14. Answered' /\ Intent' /\ IsFiniteSet(asked)'
      BY <3>2, <3>12
    <3> QED
      BY <3>4, <3>9, <3>10, <3>13, <3>14
  <2>3. ASSUME NEW late \in SUBSET Pending, Flush(late) PROVE RelayInv'
    <3>1. dnsidx' \in 0..NDns /\ rotated' \in 0..NDns
      BY <2>3, RotatedRange, CountedRange DEF Flush
    <3>2. ctxes' \in [Seqs -> 0..MaxTaken] /\ \A s \in Seqs : ctxes'[s] \in {0, ctxes[s]}
      BY <2>3 DEF Flush
    <3>3. UNCHANGED <<asked, sent, replies, notes, gseq, taken, prx, pc, overlap, cur>>
          /\ pc["main"] = "idle" /\ fault' \in {"none", "rotation"}
      BY <2>3 DEF Flush
    <3>4. TypeOK' /\ IsFiniteSet(asked)' /\ (gseq = Number)'
      BY <3>1, <3>2, <3>3 DEF Number
    <3> QED
      BY <3>2, <3>3, <3>4
  <2>4. ASSUME NEW m \in sent, ctxes[m.seq] # 0, Reply(m)
        PROVE  /\ ctxes' \in [Seqs -> 0..MaxTaken]
               /\ UNCHANGED taken => Known' /\ Answered'
    <3>1. CASE UNCHANGED <<replies, ctxes>>
      BY <3>1
    <3>2. CASE /\ replies' = replies \cup {ReplyTo(ctxes[m.seq], m.name)}
               /\ ctxes' = [ctxes EXCEPT ![m.seq] = 0]
      <4>1. m.seq \in Seqs /\ ctxes[m.seq] \in DOMAIN taken /\ taken[ctxes[m.seq]].seq = m.seq
        BY <2>4
      <4>2. ctxes' \in [Seqs -> 0..MaxTaken] /\ \A s \in Seqs : ctxes'[s] = IF s = m.seq THEN 0 ELSE ctxes[s]
        BY <3>2, <4>1
      <4>3. \A r \in replies' : r \in replies \/ r.n = ctxes[m.seq]
        BY <3>2 DEF ReplyTo
      <4>4. \A s \in Seqs : s # m.seq /\ ctxes[s] # 0 => ctxes[s] # ctxes[m.seq]
        BY <4>1
      <4> QED
        BY <4>1, <4>2, <4>3, <4>4
    <3> QED
      BY <2>4, <3>1, <3>2 DEF Reply
  <2>5. ASSUME NEW m \in sent, FromDns(m) PROVE RelayInv'
    BY <2>4, <2>5 DEF FromDns, Number
  <2>6. ASSUME NEW m \in sent, Announce(m) PROVE RelayInv'
    BY <2>6 DEF Announce, Reconnects, Number
  <2>7. ASSUME NEW t \in Thread, TryOpen(t) PROVE RelayInv'
    BY <2>7 DEF TryOpen, Number
  <2>8. CASE Connected
    BY <2>8 DEF Connected, Number
  <2>9. CASE NotConnected
    BY <2>4, <2>9 DEF NotConnected, Unannounced, Number
  <2>10. CASE SendNote
    <3>1. cur \in sent /\ ctxes[cur.seq] # 0 /\ ctxes[cur.seq] \in DOMAIN taken
      BY <2>10 DEF SendNote
    <3>2. NoteOf(ctxes[cur.seq], cur.name) \in Note
      <4> DEFINE n == ctxes[cur.seq]
      <4>1. cur.seq \in Seqs /\ cur.name \in Name
        BY <3>1
      <4>2. n \in 1..MaxTaken
        BY <3>1, <4>1
      <4>3. taken[n] \in Taken
        BY <3>1, ElementOfSeq, LenProperties
      <4> QED
        BY <4>1, <4>2, <4>3 DEF NoteOf, Note, Taken
    <3>3. notes' \subseteq Note
      BY <2>10, <3>2 DEF SendNote
    <3> QED
      BY <2>4, <2>10, <3>1, <3>3 DEF SendNote, Number
  <2>11. CASE KeepAlive
    BY <2>11 DEF KeepAlive, Reconnects, Number
  <2>12. CASE WatcherDone
    BY <2>12 DEF WatcherDone, Number
  <2>13. CASE ProxyAccepts
    BY <2>13 DEF ProxyAccepts, Number
  <2>14. CASE UNCHANGED relayVars
    BY <2>14 DEF relayVars, Number
  <2> QED
    BY <2>1, <2>2, <2>3, <2>5, <2>6, <2>7, <2>8, <2>9, <2>10, <2>11, <2>12, <2>13, <2>14
       DEF RelayNext, MainThread, WatcherThread
<1> QED
  BY <1>1, <1>2, PTL DEF RelaySpec

\* Every variable of the relay keeps its type.
THEOREM TypeCorrect == RelaySpec => []TypeOK
<1>1. RelayInv => TypeOK
  BY DEF RelayInv
<1> QED
  BY <1>1, Bookkeeping, PTL

\* A reply to what waits under a number serves the question taken up as the
\* ctxes[m.seq]-th with what is known of the one the server was asked for.
LEMMA ReplyServes ==
  ASSUME RelayInv, NEW m \in sent, ctxes[m.seq] # 0, Reply(m),
         UNCHANGED <<asked, taken>>,
         \/ notes' = notes
         \/ Rule[m.name] = "exact" /\ notes' = notes \cup {NoteOf(ctxes[m.seq], m.name)}
  PROVE  \E n, k \in DOMAIN taken : Serve(n, k)
  <1> DEFINE n == ctxes[m.seq]
  <1>1. m.seq \in Seqs
    BY DEF RelayInv, TypeOK
  <1>2. n \in DOMAIN taken /\ taken[n].seq = m.seq /\ \A r \in replies : r.n # n
    BY <1>1 DEF RelayInv, Known
  <1>3. PICK k \in DOMAIN taken : taken[k].seq = m.seq /\ taken[k].name = m.name
    BY DEF RelayInv, Passed
  <1>4. replies' \in {replies, replies \cup {ReplyTo(n, m.name)}}
    BY DEF Reply
  <1>5. Serve(n, k)
    BY <1>2, <1>3, <1>4 DEF Serve, SameNumber
  <1> QED
    BY <1>2, <1>5

\* The relay is the service its clients and the proxy are promised: every step
\* of it is a step of the service or none that they can see.
THEOREM ServiceImplemented == RelaySpec => IsAService
<1>1. RelayInit => ServiceInit
  BY DEF RelayInit
<1>2. RelayInv /\ [RelayNext]_relayVars => [ServiceNext]_serviceVars
  <2> SUFFICES ASSUME RelayInv, [RelayNext]_relayVars PROVE [ServiceNext]_serviceVars
    OBVIOUS
  <2> USE DEF net, table
  <2>1. ASSUME NEW c \in Client, NEW n \in Name, Asks(c, n) PROVE ServiceNext
    BY <2>1 DEF Asks, ServiceNext
  <2>2. ASSUME NEW qu \in asked, FromClient(qu) PROVE ServiceNext
    <3>1. TakeUp(qu)
      BY <2>2 DEF FromClient, TakeUp, RelayInv
    <3> QED
      BY <3>1 DEF ServiceNext
  <2>3. ASSUME NEW m \in sent, FromDns(m) PROVE ServiceNext
    <3>1. \E n, k \in DOMAIN taken : Serve(n, k)
      BY <2>3, ReplyServes DEF FromDns
    <3> QED
      BY <3>1 DEF ServiceNext
  <2>4. ASSUME pc["main"] # "idle", Reply(cur), UNCHANGED <<asked, taken>>,
               notes' = notes \/ notes' = notes \cup {NoteOf(ctxes[cur.seq], cur.name)}
        PROVE  ServiceNext
    <3>1. cur \in sent /\ ctxes[cur.seq] # 0 /\ Rule[cur.name] = "exact"
      BY <2>4 DEF RelayInv, Intent
    <3>2. \E n, k \in DOMAIN taken : Serve(n, k)
      BY <2>4, <3>1, ReplyServes
    <3> QED
      BY <3>2 DEF ServiceNext
  <2>5. CASE NotConnected
    BY <2>4, <2>5 DEF NotConnected, Unannounced
  <2>6. CASE SendNote
    BY <2>4, <2>6 DEF SendNote
  <2>7. ASSUME NEW late \in SUBSET Pending, Flush(late) PROVE UNCHANGED serviceVars
    BY <2>7 DEF Flush, serviceVars
  <2>8. ASSUME NEW m \in sent, Announce(m) PROVE UNCHANGED serviceVars
    BY <2>8 DEF Announce, serviceVars
  <2>9. ASSUME NEW t \in Thread, TryOpen(t) PROVE UNCHANGED serviceVars
    BY <2>9 DEF TryOpen, serviceVars
  <2>10. CASE Connected \/ KeepAlive \/ WatcherDone \/ ProxyAccepts
    BY <2>10 DEF Connected, KeepAlive, WatcherDone, ProxyAccepts, serviceVars
  <2>11. CASE UNCHANGED relayVars
    BY <2>11 DEF relayVars, serviceVars
  <2> QED
    BY <2>1, <2>2, <2>3, <2>5, <2>6, <2>7, <2>8, <2>9, <2>10, <2>11
       DEF RelayNext, MainThread, WatcherThread, Thread
<1> QED
  BY <1>1, <1>2, Bookkeeping, PTL DEF RelaySpec, ServiceSpec, IsAService

-----------------------------------------------------------------------------
(* What brings miki down.                                                  *)

\* Until both threads have been at the connection at once, at most one is.
Alone == ~overlap => \E t \in Thread : \A u \in Thread \ {t} : pc[u] = "idle"

\* ... and where it begins to reconnect there is no socket.
Cleared == ~overlap => \A t \in Thread : pc[t] = "open" => prx = "closed"

\* Until the rotation has passed every server it counts them.
Counts == rotated < NDns => dnsidx = rotated

FaultInv == RelayInv /\ Alone /\ Cleared /\ Counts /\ FaultsExplained

\* The rotation goes one past the last server only after all the others.
LEMMA RotationCounts ==
  ASSUME RelayInv, Counts, NEW t \in Nat
  PROVE  /\ Counted(t) < NDns => Rotated(dnsidx, t) = Counted(t)
         /\ \A j \in 0..t : Rotated(dnsidx, j) = NDns => Counted(t) = NDns
         /\ rotated = NDns => Counted(t) = NDns
  <1> USE DnsRelayAssumption
  <1>1. rotated \in 0..NDns /\ dnsidx \in 0..NDns
    BY DEF RelayInv, TypeOK
  <1>2. CASE rotated = NDns
    BY <1>1, <1>2, SMT DEF Counted
  <1>3. CASE rotated < NDns
    <2>1. dnsidx = rotated
      BY <1>3 DEF Counts
    <2>2. ASSUME NEW j \in 0..t, rotated + j <= NDns PROVE Rotated(dnsidx, j) = rotated + j
      BY <1>1, <2>1, <2>2, SMT DEF Rotated
    <2> QED
      BY <1>1, <1>3, <2>2, SMT DEF Counted
  <1> QED
    BY <1>1, <1>2, <1>3, SMT

\* miki comes down only by a full rotation or by both threads reconnecting.
THEOREM FaultsHold == RelaySpec => []FaultsExplained
<1> USE DnsRelayAssumption
<1>1. RelayInit /\ RelayInv => FaultInv
  BY DEF RelayInit, FaultInv, Alone, Cleared, Counts, FaultsExplained, Thread
<1>2. FaultInv /\ RelayInv' /\ [RelayNext]_relayVars => FaultInv'
  <2> SUFFICES ASSUME FaultInv, RelayInv', [RelayNext]_relayVars PROVE FaultInv'
    OBVIOUS
  <2> USE DEF FaultInv, net, table, dns, prxVars
  <2>1. ASSUME NEW qu \in asked, FromClient(qu) PROVE FaultInv'
    <3>1. PICK fails \in 0..NDns :
            /\ dnsidx' = Rotated(dnsidx, fails) /\ rotated' = Counted(fails)
            /\ fault' \in {"none"} \cup
                 IF \E j \in 0..fails : Rotated(dnsidx, j) = NDns THEN {"rotation"} ELSE {}
      BY <2>1 DEF FromClient
    <3>2. fails \in Nat
      OBVIOUS
    <3>3. Counts'
      BY <3>1, <3>2, RotationCounts DEF Counts
    <3>4. FaultsExplained'
      BY <3>1, <3>2, RotationCounts DEF FaultsExplained
    <3>5. UNCHANGED <<prx, pc, overlap>>
      BY <2>1 DEF FromClient
    <3> QED
      BY <3>3, <3>4, <3>5 DEF Alone, Cleared
  <2>2. ASSUME NEW late \in SUBSET Pending, Flush(late) PROVE FaultInv'
    <3>1. /\ dnsidx' = Rotated(dnsidx, 1) /\ rotated' = Counted(1)
          /\ fault' \in {"none"} \cup IF dnsidx' = NDns THEN {"rotation"} ELSE {}
          /\ UNCHANGED <<prx, pc, overlap>>
      BY <2>2 DEF Flush
    <3>2. Counts'
      BY <3>1, RotationCounts DEF Counts
    <3>3. FaultsExplained'
      BY <3>1, RotationCounts DEF FaultsExplained
    <3> QED
      BY <3>1, <3>2, <3>3 DEF Alone, Cleared
  <2>3. ASSUME NEW t \in Thread, Reconnects(t, "closed"), UNCHANGED <<dns, fault>>
        PROVE  FaultInv'
    <3>1. pc' = [pc EXCEPT ![t] = "open"] /\ prx' = "closed"
          /\ overlap' = (overlap \/ \E u \in Thread \ {t} : pc[u] # "idle")
      BY <2>3 DEF Reconnects
    <3>2. pc \in [Thread -> {"idle", "open", "wait", "send"}]
      BY DEF RelayInv, TypeOK
    <3>3. Alone' /\ Cleared'
      BY <2>3, <3>1, <3>2 DEF Alone, Cleared
    <3> QED
      BY <2>3, <3>1, <3>3 DEF Counts, FaultsExplained
  <2>4. ASSUME NEW t \in Thread, TryOpen(t) PROVE FaultInv'
    <3>1. pc \in [Thread -> {"idle", "open", "wait", "send"}] /\ pc[t] = "open"
          /\ UNCHANGED <<dns, overlap>>
      BY <2>4 DEF RelayInv, TypeOK, TryOpen
    <3>2. CASE prx = "closed"
      <4>1. pc' = [pc EXCEPT ![t] = "wait"] /\ UNCHANGED fault
        BY <2>4, <3>2 DEF TryOpen
      <4>2. ASSUME ~overlap PROVE \A u \in Thread : u # t => pc[u] = "idle"
        BY <3>1, <4>2 DEF Alone
      <4>3. Alone' /\ Cleared'
        BY <2>4, <3>1, <4>1, <4>2 DEF Alone, Cleared
      <4> QED
        BY <3>1, <4>1, <4>3 DEF Counts, FaultsExplained
    <3>3. CASE prx # "closed"
      <4>1. overlap /\ fault' = "reopened"
        BY <2>4, <3>1, <3>3 DEF Cleared, TryOpen
      <4> QED
        BY <3>1, <4>1 DEF Alone, Cleared, Counts, FaultsExplained
    <3> QED
      BY <3>2, <3>3
  <2>5. ASSUME NEW t \in Thread, pc[t] # "idle", NEW p \in {"idle", "send"},
               pc' = [pc EXCEPT ![t] = p], UNCHANGED <<dns, overlap, fault>>
        PROVE  FaultInv'
    <3>1. pc \in [Thread -> {"idle", "open", "wait", "send"}]
      BY DEF RelayInv, TypeOK
    <3>2. ASSUME ~overlap PROVE \A u \in Thread : u # t => pc[u] = "idle"
      BY <2>5, <3>2 DEF Alone
    <3>3. Alone' /\ Cleared'
      BY <2>5, <3>1, <3>2 DEF Alone, Cleared
    <3> QED
      BY <2>5, <3>3 DEF Counts, FaultsExplained
  <2>6. CASE ProxyAccepts
    <3>1. prx = "connecting" /\ UNCHANGED <<dns, pc, overlap, fault>>
      BY <2>6 DEF ProxyAccepts
    <3> QED
      BY <3>1 DEF Alone, Cleared, Counts, FaultsExplained
  <2>7. ASSUME UNCHANGED <<dns, prx, pc, overlap, fault>> PROVE FaultInv'
    BY <2>7 DEF Alone, Cleared, Counts, FaultsExplained
  <2>8. ASSUME NEW c \in Client, NEW n \in Name, Asks(c, n) PROVE FaultInv'
    BY <2>7, <2>8 DEF Asks
  <2>9. ASSUME NEW m \in sent, FromDns(m) PROVE FaultInv'
    BY <2>7, <2>9 DEF FromDns
  <2>10. ASSUME NEW m \in sent, Announce(m) PROVE FaultInv'
    BY <2>3, <2>10 DEF Announce, Thread
  <2>11. CASE Connected
    BY <2>5, <2>11 DEF Connected, Thread
  <2>12. CASE NotConnected
    BY <2>5, <2>12 DEF NotConnected, Unannounced, Thread
  <2>13. CASE SendNote
    BY <2>5, <2>13 DEF SendNote, Thread
  <2>14. CASE KeepAlive
    BY <2>3, <2>14 DEF KeepAlive, Thread
  <2>15. CASE WatcherDone
    BY <2>5, <2>15 DEF WatcherDone, Thread
  <2>16. CASE UNCHANGED relayVars
    BY <2>7, <2>16 DEF relayVars
  <2> QED
    BY <2>1, <2>2, <2>4, <2>6, <2>8, <2>9, <2>10, <2>11, <2>12, <2>13, <2>14, <2>15, <2>16
       DEF RelayNext, MainThread, WatcherThread, Thread
<1>3. FaultInv => FaultsExplained
  BY DEF FaultInv
<1> QED
  BY <1>1, <1>2, <1>3, Bookkeeping, PTL DEF RelaySpec
=============================================================================
