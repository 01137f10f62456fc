--------------------------- MODULE CtxConn_proofs ---------------------------
(***************************************************************************)
(* Theorems about CtxConn, for every number of connections, whatever they  *)
(* are for, and streams of every length.                                   *)
(***************************************************************************)
EXTENDS CtxConn, TLAPS, SequenceTheorems

Points == {"hello", "negociate", "getHost", "pending", "sslConnect", "connected",
           "redirecting", "io", "emptyHost"}

Relaying == {"io", "emptyHost"}

Contexts == [pcall : Points, hdr : Nat, working : BOOLEAN, moved : BOOLEAN,
             csock : BOOLEAN, rsock : {"closed", "connecting", "up"}]

Codes == {"method", "success", "fail", "redirect"}

Streams == [sent : Nat, got : Nat, cEnd : BOOLEAN, toHost : Seq(Nat),
            hsent : Nat, hgot : Nat, hEnd : BOOLEAN, toCli : Seq(Nat),
            replies : Seq(Codes), reach : {"unknown", "yes", "no"}]

-----------------------------------------------------------------------------
(* What holds of one connection: k is what it is for, x its context and n  *)
(* its streams.                                                            *)

HasReply(n, r) == \E i \in DOMAIN n.replies : n.replies[i] = r
Answers(n) == {i \in DOMAIN n.replies : n.replies[i] # "method"}

AnswerFirst == Socks \cup {"tunnel"}

\* A client that waits for an answer has sent no more than its request.
Polite(k, n) ==
  /\ k.kind \in AnswerFirst /\ ~HasReply(n, "success") => n.sent <= Request(k.kind)
  /\ k.kind = "socks5" /\ ~HasReply(n, "method") => n.sent <= 1

\* A SOCKS client that is let in gets one answer.
Single(k, n) ==
  k.kind \in Socks /\ k.access =>
    /\ \A i, j \in Answers(n) : i = j
    /\ n.toCli # <<>> => HasReply(n, "success")

\* What holds at any time.
Base(k, x, n) ==
  /\ x \in Contexts /\ n \in Streams
  /\ x.hdr <= n.got /\ n.got <= n.sent /\ n.hgot <= n.hsent
  /\ n.sent <= Request(k.kind) + k.up
  /\ Polite(k, n) /\ Single(k, n)
  /\ x.rsock # "closed" => x.csock

\* What has been received before the host may be connected.
Ready(k, x, n) ==
  /\ k.access
  /\ k.kind \in AnswerFirst => n.got = Request(k.kind)
  /\ k.kind \in {"http", "dns", "pass"} => x.hdr = n.got
  /\ k.kind = "pass" => n.got = 0

\* A context that still asks has carried nothing and, unless it redirects the
\* client, given no answer.
Asking(k, x, n) ==
  /\ ~x.working /\ n.toHost = <<>> /\ n.toCli = <<>> /\ n.hgot = 0
  /\ x.pcall # "redirecting" => Answers(n) = {}
  /\ x.pcall \in {"hello", "getHost"} => x.hdr = n.got
  /\ x.pcall = "hello" => /\ k.kind = "socks5" => ~HasReply(n, "method")
                          /\ k.kind = "pass" => n.got = 0
  /\ x.pcall = "negociate" => k.kind = "socks5" /\ x.hdr + 1 = n.got
  /\ x.pcall = "getHost" => k.kind = "dns"
  /\ x.pcall = "redirecting" => ~k.access
  /\ x.pcall \in {"pending", "sslConnect", "connected"} => Ready(k, x, n)

Granting(k, x, n) ==
  /\ k.access
  /\ x.pcall = "emptyHost" => k.kind = "http"
  /\ x.working <=> k.kind \notin {"pass", "dns"}
  /\ k.kind \in AnswerFirst => HasReply(n, "success")

\* Where an open context is.
Phase(k, x, n) ==
  x.csock => IF x.pcall \in Relaying THEN Granting(k, x, n) ELSE Asking(k, x, n)

\* The last piece of a stream that starts at piece one.
LastOf(s, one) == IF s = <<>> THEN one - 1 ELSE s[Len(s)]

\* The stream has come to the piece h; the last of them may have been skipped.
Reaches(s, one, h, skip) == LastOf(s, one) = h \/ (skip = TRUE /\ LastOf(s, one) <= h)

\* The stream s with q more pieces behind it, those after the piece h.
Following(s, h, q) == s \o Numbers(h + 1, q)

Lossy(k) == k.kind = "http"

\* What was received has been carried, but for the request an HTTP context holds.
Held(k, x) == IF Lossy(k) THEN x.hdr ELSE 0

Flow(k, x, n) ==
  x.csock /\ x.pcall \in Relaying =>
    /\ Reaches(n.toHost, FirstUp(k.kind), n.got - Held(k, x), Lossy(k))
    /\ Reaches(n.toCli, 1, n.hgot, Lossy(k))

ConnInv(c) ==
  /\ conf[c] \in Confs[c] /\ conf[c] \in AllConfs
  /\ Base(conf[c], cx[c], net[c]) /\ Phase(conf[c], cx[c], net[c])
  /\ ~crashed => Flow(conf[c], cx[c], net[c])

Types == conf \in [Conn -> AllConfs] /\ cx \in [Conn -> Contexts] /\ net \in [Conn -> Streams]
Conns == \A c \in Conn : ConnInv(c)

\* The loop of the worker.
LoopInv ==
  /\ taken \in 0..NConn /\ bucket \in Seq(1..taken) /\ at \in 1..Len(bucket) + 1
  /\ stage \in {"select", "spin", "sweep"} /\ old \in BOOLEAN
  /\ turn \in {"quiet", "spun", "ended"} /\ crashed \in BOOLEAN
  /\ stage = "select" => turn = "quiet"
  /\ turn = "spun" /\ ~crashed => ~old

Inv == Types /\ Conns /\ LoopInv /\ CrashCulprit

-----------------------------------------------------------------------------
(* Streams.                                                                *)

\* A stream with m more pieces behind it, from the piece p on.
LEMMA NumberedOn ==
  ASSUME NEW s \in Seq(Nat), NEW p \in Nat, NEW m \in Nat
  PROVE  LET u == s \o Numbers(p, m)
             l == Len(s)
         IN  /\ u \in Seq(Nat) /\ l \in Nat /\ Len(u) = l + m
             /\ \A i \in 1..l : u[i] = s[i]
             /\ \A j \in 1..m : u[l + j] = p + j - 1
             /\ SubSeq(u, 1, l) = s
             /\ s = <<>> <=> l = 0
             /\ u = <<>> <=> l + m = 0
  <1> DEFINE t == Numbers(p, m)
  <1>1. t \in Seq(Nat) /\ Len(t) = m /\ \A j \in 1..m : t[j] = p + j - 1
    <2>1. \A j \in 1..m : p + j - 1 \in Nat
      OBVIOUS
    <2> QED
      BY <2>1 DEF Numbers
  <1> HIDE DEF t
  <1> DEFINE u == s \o t
             l == Len(s)
  <1>2. /\ u \in Seq(Nat) /\ l \in Nat /\ Len(u) = l + m
        /\ \A i \in 1..l : u[i] = s[i]
        /\ \A j \in 1..m : u[l + j] = p + j - 1
    <2>1. l \in Nat
      BY LenProperties
    <2>2. u \in Seq(Nat) /\ Len(u) = l + m /\ \A i \in 1..(l + m) : u[i] = IF i <= l THEN s[i] ELSE t[i - l]
      BY <1>1, ConcatProperties
    <2> HIDE DEF u, l
    <2>3. \A i \in 1..l : u[i] = s[i]
      BY <1>1, <2>1, <2>2
    <2>4. ASSUME NEW j \in 1..m PROVE u[l + j] = p + j - 1
      <3>1. l + j \in 1..(l + m) /\ ~(l + j <= l) /\ (l + j) - l = j
        BY <2>1
      <3> QED
        BY <1>1, <2>2, <3>1
    <2> QED
      BY <2>1, <2>2, <2>3, <2>4
  <1>3. SubSeq(u, 1, l) = s
    BY <1>1, SubSeqOfConcat1, LenProperties
  <1>4. s = <<>> <=> l = 0
    BY EmptySeq
  <1>5. u = <<>> <=> l + m = 0
    BY <1>2, EmptySeq
  <1> HIDE DEF u, l
  <1> QED
    BY <1>2, <1>3, <1>4, <1>5 DEF u, l, t

\* The last piece of it.
LEMMA NumberedLast ==
  ASSUME NEW s \in Seq(Nat), NEW p \in Nat, NEW m \in Nat, NEW one \in Nat \ {0}
  PROVE  /\ LastOf(s, one) \in Int
         /\ m = 0 => LastOf(s \o Numbers(p, m), one) = LastOf(s, one)
         /\ m # 0 => LastOf(s \o Numbers(p, m), one) = p + m - 1
  <1> DEFINE u == s \o Numbers(p, m)
             l == Len(s)
  <1>2. /\ u \in Seq(Nat) /\ l \in Nat /\ Len(u) = l + m
        /\ \A j \in 1..m : u[l + j] = p + j - 1
    BY NumberedOn, ZenonT(40)
  <1>5. u = <<>> <=> l + m = 0
    BY <1>2, EmptySeq
  <1>6. LastOf(s, one) = IF l = 0 THEN one - 1 ELSE u[l]
    <2>1. (s = <<>> <=> l = 0) /\ (l # 0 => u[l] = s[l])
      BY NumberedOn, EmptySeq
    <2> QED
      BY <2>1 DEF LastOf
  <1>7. /\ m = 0 => LastOf(u, one) = LastOf(s, one)
        /\ m # 0 => LastOf(u, one) = p + m - 1
    <2> HIDE DEF u, l
    <2>1. LastOf(u, one) = IF l + m = 0 THEN one - 1 ELSE u[l + m]
      BY <1>2, <1>5 DEF LastOf
    <2>2. ASSUME m # 0 PROVE u[l + m] = p + m - 1
      <3>1. m \in 1..m
        BY <2>2
      <3> QED
        BY <1>2, <3>1
    <2>3. CASE m = 0
      BY <1>2, <1>6, <2>1, <2>3
    <2>4. CASE m # 0
      <3>1. l + m # 0
        BY <1>2, <2>4
      <3> QED
        BY <2>1, <2>2, <2>4, <3>1
    <2> QED
      BY <2>3, <2>4
  <1>8. LastOf(s, one) \in Int
    <2>1. l # 0 => u[l] \in Nat
      BY <1>2, ElementOfSeq
    <2> QED
      BY <1>6, <2>1
  <1> QED
    BY <1>7, <1>8

\* It continues the stream when each of them comes after the last, or, where
\* some may be left out, after a gap.
LEMMA Numbered ==
  ASSUME NEW s \in Seq(Nat), NEW p \in Nat, NEW m \in Nat, NEW one \in Nat \ {0}, NEW skip,
         \/ m = 0
         \/ p = LastOf(s, one) + 1
         \/ skip = TRUE /\ p > LastOf(s, one)
  PROVE  Contract!Continues(s, s \o Numbers(p, m), one, skip)
  <1> DEFINE u == s \o Numbers(p, m)
             l == Len(s)
  <1>2. /\ u \in Seq(Nat) /\ l \in Nat /\ Len(u) = l + m
        /\ \A j \in 1..m : u[l + j] = p + j - 1
        /\ SubSeq(u, 1, l) = s
    BY NumberedOn, ZenonT(40)
  <1>6. LastOf(s, one) = IF l = 0 THEN one - 1 ELSE u[l]
    <2>1. (s = <<>> <=> l = 0) /\ (l # 0 => u[l] = s[l])
      BY NumberedOn, EmptySeq
    <2> QED
      BY <2>1 DEF LastOf
  <1> HIDE DEF u
  <1>8. ASSUME NEW i \in (l + 1)..(l + m)
        PROVE  LET after == IF i = 1 THEN one ELSE u[i - 1] + 1
               IN  IF skip THEN u[i] >= after ELSE u[i] = after
    <2> HIDE DEF u, l
    <2>1. i \in Nat /\ i - l \in 1..m /\ l + (i - l) = i /\ m # 0
      BY <1>2
    <2>2. u[i] = p + (i - l) - 1
      BY <1>2, <2>1
    <2>3. CASE i = l + 1
      <3>1. u[i] = p
        BY <1>2, <2>2, <2>3
      <3>2. (IF i = 1 THEN one ELSE u[i - 1] + 1) = LastOf(s, one) + 1
        <4>1. CASE l = 0
          BY <1>6, <2>3, <4>1
        <4>2. CASE l # 0
          <5>1. i # 1 /\ i - 1 = l
            BY <1>2, <2>3, <4>2
          <5> QED
            BY <1>6, <4>2, <5>1
        <4> QED
          BY <4>1, <4>2
      <3>3. LastOf(s, one) \in Int
        <4>1. l # 0 => u[l] \in Nat
          BY <1>2, ElementOfSeq
        <4> QED
          BY <1>6, <4>1
      <3> QED
        BY <2>1, <3>1, <3>2, <3>3
    <2>4. CASE i # l + 1
      <3>1. i # 1 /\ (i - 1) - l \in 1..m /\ l + ((i - 1) - l) = i - 1
        BY <1>2, <2>4
      <3>2. u[i - 1] = p + ((i - 1) - l) - 1
        BY <1>2, <3>1
      <3>3. p + (i - l) - 1 = (p + ((i - 1) - l) - 1) + 1
        BY <1>2, <2>1
      <3>4. p + (i - l) - 1 \in Int
        BY <1>2, <2>1
      <3> QED
        BY <2>2, <3>1, <3>2, <3>3, <3>4
    <2> QED
      BY <2>3, <2>4
  <1>9. Contract!Continues(s, u, one, skip)
    <2>1. Len(u) >= l
      BY <1>2
    <2>2. Len(u) = l + m
      BY <1>2
    <2> QED
      BY <1>2, <1>8, <2>1, <2>2 DEF Contract!Continues
  <1> QED
    BY <1>9 DEF u

\* The pieces after the one that the stream has come to.
LEMMA FollowingReaches ==
  ASSUME NEW s \in Seq(Nat), NEW h \in Nat, NEW q \in Nat, NEW one \in Nat \ {0}, NEW skip,
         Reaches(s, one, h, skip), NEW g \in Nat, g = h + q
  PROVE  /\ Following(s, h, q) \in Seq(Nat)
         /\ Contract!Continues(s, Following(s, h, q), one, skip)
         /\ Reaches(Following(s, h, q), one, g, skip)
  <1>1. PICK p \in Nat : p = h + 1
    OBVIOUS
  <1>2. LastOf(s, one) \in Int
    BY NumberedLast
  <1>3. p = LastOf(s, one) + 1 \/ (skip = TRUE /\ p > LastOf(s, one))
    BY <1>1, <1>2 DEF Reaches
  <1> DEFINE t == s \o Numbers(p, q)
  <1>4. t \in Seq(Nat)
    BY NumberedOn
  <1>5. Contract!Continues(s, t, one, skip)
    BY <1>3, Numbered
  <1>6. /\ q = 0 => LastOf(t, one) = LastOf(s, one)
        /\ q # 0 => LastOf(t, one) = p + q - 1
    <2>1. ASSUME q = 0 PROVE LastOf(t, one) = LastOf(s, one)
      BY <2>1, NumberedLast
    <2>2. ASSUME q # 0 PROVE LastOf(t, one) = p + q - 1
      BY <2>2, NumberedLast
    <2> QED
      BY <2>1, <2>2
  <1>7. p + q - 1 = g /\ (q = 0 => g = h)
    BY <1>1
  <1> HIDE DEF t
  <1>8. Reaches(t, one, g, skip)
    BY <1>6, <1>7 DEF Reaches
  <1> QED
    BY <1>1, <1>4, <1>5, <1>8 DEF t, Following

\* Where pieces may be left out, a stream has come to any later one.
LEMMA ReachesFurther ==
  ASSUME NEW s \in Seq(Nat), NEW one \in Nat \ {0}, NEW h \in Nat, NEW skip,
         Reaches(s, one, h, skip), skip = TRUE, NEW g \in Nat, h <= g
  PROVE  Reaches(s, one, g, skip)
  <1>1. PICK l \in Int : l = LastOf(s, one)
    BY NumberedLast
  <1> QED
    BY <1>1 DEF Reaches

\* A stream to which nothing is added continues itself.
LEMMA Continued ==
  ASSUME NEW s \in Seq(Nat), NEW one, NEW skip
  PROVE  Contract!Continues(s, s, one, skip)
  <1>1. Len(s) \in Nat /\ SubSeq(s, 1, Len(s)) = s
    BY LenProperties, SubSeqFull
  <1>2. (Len(s) + 1)..Len(s) = {}
    BY <1>1
  <1> QED
    BY <1>1, <1>2 DEF Contract!Continues

-----------------------------------------------------------------------------
(* What a handler may return.                                              *)

\* The context and the streams of an outcome keep what holds of them.
Sound(k, o) ==
  /\ o.rv \in {"continue", "done", "kill", "throw"}
  /\ Base(k, o.x, o.n)
  /\ o.rv # "kill" => o.x.csock /\ Phase(k, o.x, o.n)
  /\ o.rv \in {"continue", "done"} => Flow(k, o.x, o.n)
  /\ o.rv = "throw" => /\ k.kind \in AnswerFirst /\ o.x.pcall = "io"
                       /\ HasReply(o.n, "success")

Carries(k, n, m) ==
  /\ Contract!Continues(n.toHost, m.toHost, FirstUp(k.kind), Lossy(k))
  /\ Contract!Continues(n.toCli, m.toCli, 1, Lossy(k))

\* From the streams n the context goes on as a relay, or ends.
Relayed(k, n, o) ==
  /\ Sound(k, o) /\ k.access /\ Carries(k, n, o.n)
  /\ o.rv # "kill" => o.x.pcall \in Relaying

\* It goes on asking, or ends, and has carried nothing.
Asked(k, o) ==
  /\ Sound(k, o) /\ o.n.toHost = <<>> /\ o.n.toCli = <<>>
  /\ o.rv # "kill" => o.x.pcall \notin Relaying

\* The configurations the code can meet.
LEMMA ConfType ==
  ASSUME NEW k \in AllConfs
  PROVE  /\ k.kind \in AllKinds /\ k.access \in BOOLEAN /\ k.up \in 0..MaxUp
         /\ FirstUp(k.kind) \in Nat \ {0} /\ Request(k.kind) \in 0..3
         /\ k.kind \in AnswerFirst => FirstUp(k.kind) = Request(k.kind) + 1
         /\ k.kind \notin AnswerFirst => FirstUp(k.kind) = 1
         /\ k.kind \in {"pass", "dns"} => k.access
  BY DEF AllConfs, AllKinds, FirstUp, Request, AnswerFirst, Socks

\* Pieces that the host is sent, those after the piece h.
LEMMA CarriedUp ==
  ASSUME NEW k \in AllConfs, NEW x, NEW n, Base(k, x, n), NEW m \in Streams,
         NEW h \in Nat, NEW q \in Nat, NEW g \in Nat, g = h + q,
         Reaches(n.toHost, FirstUp(k.kind), h, Lossy(k)), m.toHost = Following(n.toHost, h, q),
         m.sent = n.sent, n.got <= m.got, m.got <= n.sent,
         m.hgot = n.hgot, m.hsent = n.hsent, m.toCli = n.toCli, m.replies = n.replies
  PROVE  /\ Base(k, x, m) /\ Carries(k, n, m)
         /\ Reaches(m.toHost, FirstUp(k.kind), g, Lossy(k))
  <1> DEFINE s == n.toHost
             one == FirstUp(k.kind)
  <1>1. s \in Seq(Nat) /\ n.toCli \in Seq(Nat) /\ one \in Nat \ {0}
    BY ConfType DEF Base, Streams
  <1>2. /\ Contract!Continues(s, Following(s, h, q), one, Lossy(k))
        /\ Reaches(Following(s, h, q), one, g, Lossy(k))
    <2> HIDE DEF s, one
    <2>1. Reaches(s, one, h, Lossy(k))
      BY DEF s, one
    <2> QED
      BY <1>1, <2>1, FollowingReaches
  <1>3. Contract!Continues(n.toCli, m.toCli, 1, Lossy(k))
    BY <1>1, Continued
  <1>4. Base(k, x, m)
    <2>1. x.hdr \in Nat /\ n.got \in Nat /\ m.got \in Nat /\ n.sent \in Nat /\ x.hdr <= n.got
      BY DEF Base, Contexts, Streams
    <2>2. x.hdr <= m.got
      BY <2>1
    <2> QED
      BY <2>2 DEF Base, Polite, Single, HasReply, Answers
  <1> QED
    BY <1>2, <1>3, <1>4 DEF Carries

\* Of the r pieces the host has sent, q are sent to the client.
LEMMA CarriedDown ==
  ASSUME NEW k \in AllConfs, NEW x, NEW n, Base(k, x, n), NEW r \in Nat, NEW q \in 0..r,
         n.hgot + r <= n.hsent, Reaches(n.toCli, 1, n.hgot, Lossy(k)),
         k.kind \in Socks /\ k.access => HasReply(n, "success")
  PROVE  LET m == ToClient(n, r, q)
         IN  /\ Base(k, x, m) /\ Carries(k, n, m)
             /\ q = r \/ Lossy(k) => Reaches(m.toCli, 1, m.hgot, Lossy(k))
             /\ m.toHost = n.toHost /\ m.got = n.got /\ m.replies = n.replies
  <1> DEFINE m == ToClient(n, r, q)
             s == n.toCli
  <1>0. n \in Streams
    BY DEF Base
  <1>1. s \in Seq(Nat) /\ n.toHost \in Seq(Nat) /\ n.hgot \in Nat /\ q \in Nat /\ q <= r
    BY DEF Base, Streams
  <1>2. PICK h \in Nat : h = n.hgot
    BY <1>1
  <1>3. PICK g \in Nat : g = h + q
    BY <1>1
  <1>4. PICK e \in Nat : e = h + r
    OBVIOUS
  <1>5. g <= e /\ (q = r => g = e)
    BY <1>1, <1>3, <1>4
  <1> DEFINE t == Following(s, h, q)
  <1>6. /\ t \in Seq(Nat) /\ Contract!Continues(s, t, 1, Lossy(k)) /\ Reaches(t, 1, g, Lossy(k))
    <2> HIDE DEF s
    <2>1. Reaches(s, 1, h, Lossy(k))
      BY <1>2 DEF s
    <2> QED
      BY <1>1, <1>3, <2>1, FollowingReaches, 1 \in Nat \ {0}
  <1>7. q = r \/ Lossy(k) => Reaches(t, 1, e, Lossy(k))
    <2>1. Lossy(k) => Lossy(k) = TRUE
      BY DEF Lossy
    <2> HIDE DEF t
    <2> QED
      BY <1>5, <1>6, <2>1, ReachesFurther, 1 \in Nat \ {0}
  <1>8. m = [n EXCEPT !.hgot = e, !.toCli = t]
    BY <1>2, <1>4 DEF ToClient, Following
  <1> HIDE DEF t, m
  <1>9. /\ m \in Streams /\ m.hgot = e /\ m.toCli = t /\ m.toHost = n.toHost
        /\ m.got = n.got /\ m.replies = n.replies /\ m.sent = n.sent /\ m.hsent = n.hsent
    <2> DEFINE y == [n EXCEPT !.hgot = e]
    <2>1. /\ y \in Streams /\ y.hgot = e /\ y.toHost = n.toHost
          /\ y.got = n.got /\ y.replies = n.replies /\ y.sent = n.sent /\ y.hsent = n.hsent
      BY <1>0 DEF Streams
    <2>2. m = [y EXCEPT !.toCli = t]
      BY <1>8
    <2> HIDE DEF y
    <2> QED
      BY <1>6, <2>1, <2>2 DEF Streams
  <1>10. Base(k, x, m)
    BY <1>2, <1>4, <1>9 DEF Base, Polite, Single, HasReply, Answers
  <1>11. Contract!Continues(n.toHost, m.toHost, FirstUp(k.kind), Lossy(k))
    BY <1>1, <1>9, Continued
  <1> QED
    BY <1>6, <1>7, <1>9, <1>10, <1>11 DEF Carries, m

-----------------------------------------------------------------------------
(* Relaying.                                                               *)

\* What holds of a context holds of another that has received no more.
LEMMA OtherContext ==
  ASSUME NEW k, NEW x, NEW n, Base(k, x, n), NEW y \in Contexts, y.hdr <= n.got,
         y.rsock # "closed" => y.csock
  PROVE  Base(k, y, n)
  BY DEF Base

\* Nothing is carried.
LEMMA CarriesNothing ==
  ASSUME NEW k, NEW n, NEW m, n.toHost \in Seq(Nat), n.toCli \in Seq(Nat),
         m.toHost = n.toHost, m.toCli = n.toCli
  PROVE  Carries(k, n, m)
  BY Continued DEF Carries

\* Of r pieces that it receives, _cli2host sends q on.
PassedOn(n, r, q) ==
  [[n EXCEPT !.got = @ + r] EXCEPT !.toHost = @ \o Numbers(n.got + 1, q)]

\* If it sends all, the stream has come to the last that was received.
LEMMA PassedUp ==
  ASSUME NEW k \in AllConfs, NEW x, NEW n, Base(k, x, n),
         Reaches(n.toHost, FirstUp(k.kind), n.got, Lossy(k)),
         NEW r \in Nat, r <= n.sent - n.got, NEW q \in 0..r
  PROVE  LET m == PassedOn(n, r, q)
         IN  /\ Base(k, x, m) /\ Carries(k, n, m)
             /\ q = r => Reaches(m.toHost, FirstUp(k.kind), m.got, Lossy(k))
             /\ m.toCli = n.toCli /\ m.hgot = n.hgot /\ m.replies = n.replies
  <1>0. n \in Streams
    BY DEF Base
  <1>1. n.got \in Nat /\ n.sent \in Nat /\ n.got <= n.sent /\ n.toHost \in Seq(Nat)
    BY DEF Base, Streams
  <1>2. PICK h \in Nat : h = n.got
    BY <1>1
  <1>3. PICK e \in Nat : e = h + r
    OBVIOUS
  <1>4. PICK g \in Nat : g = h + q
    OBVIOUS
  <1>5. q \in Nat /\ n.got <= e /\ e <= n.sent /\ (q = r => g = e)
    BY <1>1, <1>2, <1>3, <1>4
  <1> DEFINE had == [n EXCEPT !.got = e]
             t == Following(n.toHost, h, q)
             m == [had EXCEPT !.toHost = t]
  <1>6. Reaches(n.toHost, FirstUp(k.kind), h, Lossy(k))
    BY <1>2
  <1>7. t \in Seq(Nat)
    <2>1. FirstUp(k.kind) \in Nat \ {0}
      BY ConfType
    <2> QED
      BY <1>1, <1>4, <1>5, <1>6, <2>1, FollowingReaches
  <1>8. /\ had \in Streams /\ had.got = e /\ had.sent = n.sent /\ had.toHost = n.toHost
        /\ had.hgot = n.hgot /\ had.hsent = n.hsent /\ had.toCli = n.toCli
        /\ had.replies = n.replies
    BY <1>0 DEF Streams
  <1>9. m = PassedOn(n, r, q)
    BY <1>2, <1>3, <1>8 DEF Following, PassedOn
  <1> HIDE DEF had, t
  <1>10. /\ m \in Streams /\ m.got = e /\ m.sent = n.sent /\ m.toHost = t
         /\ m.hgot = n.hgot /\ m.hsent = n.hsent /\ m.toCli = n.toCli /\ m.replies = n.replies
    BY <1>7, <1>8 DEF Streams
  <1> HIDE DEF m
  <1>11. /\ Base(k, x, m) /\ Carries(k, n, m)
         /\ Reaches(m.toHost, FirstUp(k.kind), g, Lossy(k))
    <2>1. m.toHost = Following(n.toHost, h, q)
      BY <1>10 DEF t
    <2>2. n.got <= m.got /\ m.got <= n.sent
      BY <1>5, <1>10
    <2> QED
      BY <1>4, <1>5, <1>6, <1>10, <2>1, <2>2, CarriedUp
  <1>12. q = r => Reaches(m.toHost, FirstUp(k.kind), m.got, Lossy(k))
    BY <1>5, <1>10, <1>11
  <1> QED
    BY <1>9, <1>10, <1>11, <1>12

\* What holds of the context of a connection that relays.
Relays(k, x, n) ==
  /\ Base(k, x, n) /\ x.csock /\ x.pcall \in Relaying /\ Granting(k, x, n) /\ Flow(k, x, n)

\* An outcome that goes on with a context that relays.
LEMMA GoesOn ==
  ASSUME NEW k, NEW n, NEW x, NEW m, Relays(k, x, m), Carries(k, n, m)
  PROVE  Relayed(k, n, Outcome(x, m, "continue"))
  BY DEF Relays, Relayed, Sound, Outcome, Phase, Granting

\* One that ends it, whatever its state.
LEMMA Ends ==
  ASSUME NEW k, NEW n, NEW x, NEW m, Base(k, x, m), k.access, Carries(k, n, m)
  PROVE  Relayed(k, n, Outcome(x, m, "kill"))
  BY DEF Relayed, Sound, Outcome

\* What a context is told once it relays does not change, and whether it has
\* moved anything is of no account.
LEMMA MovedRelays ==
  ASSUME NEW k \in AllConfs, NEW x, NEW n, Relays(k, x, n), NEW m, Base(k, x, m),
         m.replies = n.replies,
         Reaches(m.toHost, FirstUp(k.kind), m.got - Held(k, x), Lossy(k)),
         Reaches(m.toCli, 1, m.hgot, Lossy(k))
  PROVE  /\ Relays(k, x, m) /\ Relays(k, [x EXCEPT !.moved = TRUE], m)
         /\ [x EXCEPT !.moved = TRUE].pcall = x.pcall /\ [x EXCEPT !.moved = TRUE].hdr = x.hdr
  <1> DEFINE y == [x EXCEPT !.moved = TRUE]
  <1>1. x \in Contexts /\ x.hdr <= m.got
    BY DEF Relays, Base
  <1>2. /\ y \in Contexts /\ y.pcall = x.pcall /\ y.hdr = x.hdr /\ y.working = x.working
        /\ y.csock = x.csock /\ y.rsock = x.rsock
    BY <1>1 DEF Contexts
  <1> HIDE DEF y
  <1>3. Relays(k, x, m)
    BY DEF Relays, Granting, Flow, HasReply
  <1>4. Base(k, y, m)
    BY <1>1, <1>2 DEF Base
  <1>5. Relays(k, y, m)
    BY <1>2, <1>3, <1>4 DEF Relays, Granting, Flow, Held
  <1> QED
    BY <1>2, <1>3, <1>5 DEF y

\* Other than an HTTP context, it has carried all that it has received.
LEMMA AllCarried ==
  ASSUME NEW k \in AllConfs, NEW x, NEW n, Base(k, x, n), k.kind # "http"
  PROVE  /\ n.got - Held(k, x) = n.got /\ Lossy(k) = FALSE
         /\ Relays(k, x, n) => /\ Reaches(n.toHost, FirstUp(k.kind), n.got, Lossy(k))
                               /\ Reaches(n.toCli, 1, n.hgot, Lossy(k))
  <1>1. n.got \in Nat
    BY DEF Base, Streams
  <1>2. Lossy(k) = FALSE /\ Held(k, x) = 0
    BY DEF Lossy, Held
  <1>3. n.got - Held(k, x) = n.got
    BY <1>1, <1>2
  <1> QED
    BY <1>2, <1>3 DEF Relays, Flow

\* Pieces are received.
LEMMA GotMore ==
  ASSUME NEW k, NEW x, NEW n, Base(k, x, n), NEW r \in Nat, r <= n.sent - n.got
  PROVE  LET m == [n EXCEPT !.got = @ + r]
         IN  /\ Base(k, x, m) /\ m.got = n.got + r /\ m.sent = n.sent
             /\ m.toHost = n.toHost /\ m.toCli = n.toCli /\ m.hgot = n.hgot
             /\ m.hsent = n.hsent /\ m.replies = n.replies
  <1>1. n \in Streams /\ x.hdr <= n.got /\ x.hdr \in Nat
    BY DEF Base, Contexts
  <1>2. PICK e \in Nat : e = n.got + r /\ e <= n.sent /\ x.hdr <= e
    BY <1>1 DEF Streams
  <1> DEFINE m == [n EXCEPT !.got = e]
  <1>3. /\ m \in Streams /\ m.got = e /\ m.sent = n.sent
        /\ m.toHost = n.toHost /\ m.toCli = n.toCli /\ m.hgot = n.hgot
        /\ m.hsent = n.hsent /\ m.replies = n.replies
    BY <1>1 DEF Streams
  <1>4. m = [n EXCEPT !.got = @ + r]
    BY <1>2
  <1> HIDE DEF m
  <1>5. Base(k, x, m)
    BY <1>2, <1>3 DEF Base, Polite, Single, HasReply, Answers
  <1> QED
    BY <1>2, <1>3, <1>4, <1>5

\* How many pieces a receive may take.
LEMMA ReceivedMost ==
  ASSUME NEW c \in Conn, NEW k, Base(k, cx[c], net[c]), NEW r \in Received(c)
  PROVE  r \in Int /\ (r > 0 => r \in Nat /\ r <= net[c].sent - net[c].got)
  <1>1. net[c].sent \in Nat /\ net[c].got \in Nat
    BY DEF Base, Streams
  <1> QED
    BY <1>1 DEF Received

\* Ctx::_cli2host passes on what the client has sent, or ends.
LEMMA Cli2HostRelays ==
  ASSUME NEW c \in Conn, NEW k \in AllConfs, k = conf[c], Base(k, cx[c], net[c]),
         NEW x, NEW n, Relays(k, x, n), x.pcall = "io", k.kind # "http",
         n.got = net[c].got, n.sent = net[c].sent, NEW o \in Cli2Host(c, x, n)
  PROVE  Relayed(k, n, o)
  <1>1. /\ Base(k, x, n) /\ k.access /\ n.toHost \in Seq(Nat) /\ n.toCli \in Seq(Nat)
        /\ Granting(k, x, n) /\ x.csock
    BY DEF Relays, Granting, Base, Streams
  <1>2. /\ Reaches(n.toHost, FirstUp(k.kind), n.got, Lossy(k))
        /\ Reaches(n.toCli, 1, n.hgot, Lossy(k))
    BY <1>1, AllCarried
  <1>3. CASE o = Outcome(x, n, "kill")
    BY <1>1, <1>3, CarriesNothing, Ends
  <1>4. ASSUME NEW r \in Nat, r <= n.sent - n.got,
               x.working, o = Outcome(x, [n EXCEPT !.got = @ + r], "throw")
        PROVE  Relayed(k, n, o)
    <2> DEFINE m == [n EXCEPT !.got = @ + r]
    <2>1. Base(k, x, m) /\ m.toHost = n.toHost /\ m.toCli = n.toCli /\ m.replies = n.replies
      BY <1>1, <1>4, GotMore
    <2>2. o.x = x /\ o.n = m /\ o.rv = "throw"
      BY <1>4 DEF Outcome
    <2> HIDE DEF m
    <2>3. Carries(k, n, m)
      BY <1>1, <2>1, CarriesNothing
    <2>4. k.kind \in AnswerFirst /\ HasReply(n, "success")
      BY <1>1, <1>4, ConfType DEF Granting, AllKinds, AnswerFirst, Socks
    <2>5. Granting(k, x, m) /\ HasReply(m, "success")
      BY <1>1, <2>1, <2>4 DEF Granting, HasReply
    <2> QED
      BY <1>1, <2>1, <2>2, <2>3, <2>4, <2>5 DEF Relayed, Sound, Phase, Relaying
  <1>5. ASSUME NEW r \in Nat, r <= n.sent - n.got, NEW q \in 0..r, NEW m,
               m = PassedOn(n, r, q),
               \/ q = r /\ o = Outcome([x EXCEPT !.moved = TRUE], m, "continue")
               \/ o = Outcome(x, m, "kill")
        PROVE  Relayed(k, n, o)
    <2>1. /\ Base(k, x, m) /\ Carries(k, n, m)
          /\ q = r => Reaches(m.toHost, FirstUp(k.kind), m.got, Lossy(k))
          /\ m.toCli = n.toCli /\ m.hgot = n.hgot /\ m.replies = n.replies
      BY <1>1, <1>2, <1>5, PassedUp
    <2>2. CASE o = Outcome(x, m, "kill")
      BY <1>1, <2>1, <2>2, Ends
    <2>3. CASE q = r /\ o = Outcome([x EXCEPT !.moved = TRUE], m, "continue")
      <3>1. /\ Reaches(m.toHost, FirstUp(k.kind), m.got - Held(k, x), Lossy(k))
            /\ Reaches(m.toCli, 1, m.hgot, Lossy(k))
        BY <1>2, <2>1, <2>3, AllCarried
      <3>2. Relays(k, [x EXCEPT !.moved = TRUE], m)
        BY <2>1, <3>1, MovedRelays
      <3> QED
        BY <2>1, <2>3, <3>2, GoesOn
    <2> QED
      BY <1>5, <2>2, <2>3
  <1>6. ASSUME NEW r \in Received(c), r > 0 PROVE r \in Nat /\ r <= n.sent - n.got
    BY <1>6, ReceivedMost
  <1>7. ASSUME o # Outcome(x, n, "kill") PROVE Relayed(k, n, o)
    <2>1. PICK r \in Received(c) :
            /\ r > 0
            /\ LET had == [n EXCEPT !.got = @ + r]
               IN  \/ x.working /\ o = Outcome(x, had, "throw")
                   \/ o = Outcome([x EXCEPT !.moved = TRUE], PassedOn(n, r, r), "continue")
                   \/ \E q \in 0..(r - 1) : o = Outcome(x, PassedOn(n, r, q), "kill")
      BY <1>7 DEF Cli2Host, PassedOn
    <2>2. r \in Nat /\ r <= n.sent - n.got
      BY <1>6, <2>1
    <2>3. r \in 0..r /\ \A q \in 0..(r - 1) : q \in 0..r
      BY <2>2
    <2> QED
      BY <1>4, <1>5, <2>1, <2>2, <2>3
  <1> QED
    BY <1>3, <1>7

\* How many pieces of the host a receive may take.
LEMMA HostPiecesMost ==
  ASSUME NEW c, NEW k, NEW x, NEW n, Base(k, x, n), NEW r \in HostPieces(c, x, n)
  PROVE  r \in Nat /\ n.hgot + r <= n.hsent
  <1>1. n.hsent \in Nat /\ n.hgot \in Nat
    BY DEF Base, Streams
  <1> QED
    BY <1>1 DEF HostPieces

\* What goes to the client of a connection that relays.
LEMMA RelaysDown ==
  ASSUME NEW k \in AllConfs, NEW x, NEW n, Relays(k, x, n), NEW r \in Nat, NEW q \in 0..r,
         n.hgot + r <= n.hsent
  PROVE  LET m == ToClient(n, r, q)
         IN  /\ Base(k, x, m) /\ Carries(k, n, m) /\ m.toHost = n.toHost
             /\ q = r \/ Lossy(k) => Relays(k, x, m) /\ Relays(k, [x EXCEPT !.moved = TRUE], m)
  <1> DEFINE m == ToClient(n, r, q)
  <1>1. /\ Base(k, x, n) /\ Reaches(n.toCli, 1, n.hgot, Lossy(k))
        /\ Reaches(n.toHost, FirstUp(k.kind), n.got - Held(k, x), Lossy(k))
        /\ k.kind \in Socks /\ k.access => HasReply(n, "success")
    BY DEF Relays, Flow, Granting, AnswerFirst
  <1>2. /\ Base(k, x, m) /\ Carries(k, n, m)
        /\ q = r \/ Lossy(k) => Reaches(m.toCli, 1, m.hgot, Lossy(k))
        /\ m.toHost = n.toHost /\ m.got = n.got /\ m.replies = n.replies
    BY <1>1, CarriedDown
  <1> HIDE DEF m
  <1>3. q = r \/ Lossy(k) => Relays(k, x, m) /\ Relays(k, [x EXCEPT !.moved = TRUE], m)
    BY <1>1, <1>2, MovedRelays
  <1> QED
    BY <1>2, <1>3 DEF m

\* Ctx::_host2cli passes on what the host has sent, or ends.
LEMMA Host2CliRelays ==
  ASSUME NEW c, NEW k \in AllConfs, NEW x, NEW n, Relays(k, x, n), NEW o \in Host2Cli(c, x, n)
  PROVE  Relayed(k, n, o)
  <1>1. Base(k, x, n) /\ k.access /\ n.toHost \in Seq(Nat) /\ n.toCli \in Seq(Nat)
    BY DEF Relays, Granting, Base, Streams
  <1>2. CASE o = Outcome(x, n, "kill")
    BY <1>1, <1>2, CarriesNothing, Ends
  <1>3. ASSUME o # Outcome(x, n, "kill") PROVE Relayed(k, n, o)
    <2> DEFINE y == [x EXCEPT !.moved = TRUE]
    <2>1. PICK r \in HostPieces(c, x, n) :
            \/ o = Outcome(y, ToClient(n, r, r), "continue")
            \/ \E q \in 0..(r - 1) : o = Outcome(x, ToClient(n, r, q), "kill")
      BY <1>3 DEF Host2Cli
    <2>2. r \in Nat /\ n.hgot + r <= n.hsent
      BY <1>1, HostPiecesMost
    <2>3. CASE o = Outcome([x EXCEPT !.moved = TRUE], ToClient(n, r, r), "continue")
      <3>1. r \in 0..r
        BY <2>2
      <3>2. Carries(k, n, ToClient(n, r, r)) /\ Relays(k, [x EXCEPT !.moved = TRUE], ToClient(n, r, r))
        BY <2>2, <3>1, RelaysDown
      <3> QED
        BY <2>3, <3>2, GoesOn
    <2>4. ASSUME NEW q \in 0..(r - 1), o = Outcome(x, ToClient(n, r, q), "kill")
          PROVE  Relayed(k, n, o)
      <3>1. q \in 0..r
        BY <2>2
      <3>2. Base(k, x, ToClient(n, r, q)) /\ Carries(k, n, ToClient(n, r, q))
        BY <2>2, <3>1, RelaysDown
      <3> QED
        BY <1>1, <2>4, <3>2, Ends
    <2> QED
      BY <2>1, <2>3, <2>4
  <1> QED
    BY <1>2, <1>3

\* Ctx::_io, of any context that is not an HTTP one.
LEMMA RelayIoRelays ==
  ASSUME NEW c \in Conn, NEW k \in AllConfs, k = conf[c], Base(k, cx[c], net[c]),
         NEW x, NEW n, Relays(k, x, n), x.pcall = "io", k.kind # "http",
         n.got = net[c].got, n.sent = net[c].sent, NEW o \in RelayIo(c, x, n)
  PROVE  Relayed(k, n, o)
  <1>1. CASE o \in Cli2Host(c, x, n)
    BY <1>1, Cli2HostRelays
  <1>2. CASE o \in Host2Cli(c, x, n)
    BY <1>2, Host2CliRelays
  <1>3. CASE o = Outcome(x, n, "continue")
    <2>1. n.toHost \in Seq(Nat) /\ n.toCli \in Seq(Nat)
      BY DEF Relays, Base, Streams
    <2> QED
      BY <1>3, <2>1, CarriesNothing, GoesOn
  <1> QED
    BY <1>1, <1>2, <1>3 DEF RelayIo

\* CtxHttp::_get_from_host goes on or ends, and leaves the request alone.
LEMMA GetFromHostRelays ==
  ASSUME NEW c, NEW k \in AllConfs, NEW x, NEW n, Relays(k, x, n), k.kind = "http",
         NEW o \in GetFromHost(c, x, n)
  PROVE  /\ o.rv \in {"continue", "kill"} /\ Relays(k, o.x, o.n) /\ k.access
         /\ o = Outcome(o.x, o.n, o.rv)
         /\ Carries(k, n, o.n) /\ o.n.toHost = n.toHost
  <1>1. /\ Base(k, x, n) /\ k.access /\ n.toHost \in Seq(Nat) /\ n.toCli \in Seq(Nat)
        /\ Lossy(k)
    BY DEF Relays, Granting, Base, Streams, Lossy
  <1>2. ASSUME NEW rv \in {"continue", "kill"}, o = Outcome(x, n, rv)
        PROVE  /\ o.rv \in {"continue", "kill"} /\ Relays(k, o.x, o.n)
               /\ o = Outcome(o.x, o.n, o.rv)
               /\ Carries(k, n, o.n) /\ o.n.toHost = n.toHost
    <2>1. o.rv = rv /\ o.x = x /\ o.n = n
      BY <1>2 DEF Outcome
    <2>2. Carries(k, n, n)
      BY <1>1, CarriesNothing
    <2> QED
      BY <1>2, <2>1, <2>2
  <1>3. ASSUME NEW r \in HostPieces(c, x, n), NEW q \in 0..r,
               o = Outcome([x EXCEPT !.moved = TRUE], ToClient(n, r, q), "continue")
        PROVE  /\ o.rv \in {"continue", "kill"} /\ Relays(k, o.x, o.n)
               /\ o = Outcome(o.x, o.n, o.rv)
               /\ Carries(k, n, o.n) /\ o.n.toHost = n.toHost
    <2>1. r \in Nat /\ n.hgot + r <= n.hsent
      BY <1>1, HostPiecesMost
    <2>2. /\ Carries(k, n, ToClient(n, r, q)) /\ ToClient(n, r, q).toHost = n.toHost
          /\ Relays(k, [x EXCEPT !.moved = TRUE], ToClient(n, r, q))
      BY <1>1, <2>1, RelaysDown
    <2>3. o.rv = "continue" /\ o.x = [x EXCEPT !.moved = TRUE] /\ o.n = ToClient(n, r, q)
      BY <1>3 DEF Outcome
    <2> QED
      BY <1>3, <2>2, <2>3
  <1>4. \/ \E rv \in {"continue", "kill"} : o = Outcome(x, n, rv)
        \/ \E r \in HostPieces(c, x, n) : \E q \in 0..r :
             o = Outcome([x EXCEPT !.moved = TRUE], ToClient(n, r, q), "continue")
    <2> DEFINE y == [x EXCEPT !.moved = TRUE]
    <2>1. \/ o = Outcome(x, n, "continue") \/ o = Outcome(x, n, "kill")
          \/ o \in UNION {{Outcome(y, ToClient(n, r, q), "continue") : q \in 0..r} :
                          r \in HostPieces(c, x, n)}
      BY DEF GetFromHost
    <2> HIDE DEF y
    <2>2. \/ o = Outcome(x, n, "continue") \/ o = Outcome(x, n, "kill")
          \/ \E r \in HostPieces(c, x, n) : \E q \in 0..r :
               o = Outcome(y, ToClient(n, r, q), "continue")
      BY <2>1
    <2> QED
      BY <2>2 DEF y
  <1> QED
    BY <1>1, <1>2, <1>3, <1>4

-----------------------------------------------------------------------------
(* The header.                                                             *)

\* _rec_some: what is received stays in the header.
LEMMA RecSomeKeeps ==
  ASSUME NEW c \in Conn, NEW k, Base(k, cx[c], net[c]), NEW r \in Received(c)
  PROVE  LET a == RecSome(c, r)
         IN  /\ Base(k, a.x, a.n)
             /\ a.n.got - a.x.hdr = net[c].got - cx[c].hdr /\ net[c].got <= a.n.got
             /\ a.x.pcall = cx[c].pcall /\ a.x.working = cx[c].working
             /\ a.x.csock = cx[c].csock /\ a.x.rsock = cx[c].rsock
             /\ a.n.toHost = net[c].toHost /\ a.n.toCli = net[c].toCli
             /\ a.n.hgot = net[c].hgot /\ a.n.replies = net[c].replies
             /\ a.n.sent = net[c].sent
  <1> DEFINE d == IF r > 0 THEN r ELSE 0
  <1>1. d \in Nat /\ d <= net[c].sent - net[c].got
    <2>1. net[c].sent \in Nat /\ net[c].got \in Nat /\ net[c].got <= net[c].sent
      BY DEF Base, Streams
    <2>2. r \in Int /\ (r > 0 => r \in Nat /\ r <= net[c].sent - net[c].got)
      BY ReceivedMost
    <2>3. CASE r > 0
      BY <2>2, <2>3
    <2>4. CASE ~(r > 0)
      BY <2>1, <2>4
    <2> QED
      BY <2>3, <2>4
  <1>2. RecSome(c, r) = [x |-> [cx[c] EXCEPT !.hdr = @ + d], n |-> [net[c] EXCEPT !.got = @ + d]]
    BY DEF RecSome
  <1> HIDE DEF d
  <1> DEFINE y == [cx[c] EXCEPT !.hdr = @ + d]
             m == [net[c] EXCEPT !.got = @ + d]
  <1>3. /\ Base(k, cx[c], m) /\ m.got = net[c].got + d /\ m.sent = net[c].sent
        /\ m.toHost = net[c].toHost /\ m.toCli = net[c].toCli /\ m.hgot = net[c].hgot
        /\ m.replies = net[c].replies
    BY <1>1, GotMore
  <1>4. /\ cx[c] \in Contexts /\ cx[c].hdr \in Nat /\ net[c].got \in Nat /\ cx[c].hdr <= net[c].got
        /\ cx[c].rsock # "closed" => cx[c].csock
    BY DEF Base, Contexts, Streams
  <1>5. PICK e \in Nat : e = cx[c].hdr + d
    BY <1>1, <1>4
  <1>6. /\ y \in Contexts /\ y.hdr = e /\ y.pcall = cx[c].pcall /\ y.working = cx[c].working
        /\ y.csock = cx[c].csock /\ y.rsock = cx[c].rsock
    <2>1. y = [cx[c] EXCEPT !.hdr = e]
      BY <1>5
    <2> QED
      BY <1>4, <2>1 DEF Contexts
  <1> HIDE DEF y, m
  <1>7. PICK g \in Nat : g = m.got /\ g = net[c].got + d
    BY <1>1, <1>3, <1>4
  <1>8. e <= g /\ g - e = net[c].got - cx[c].hdr /\ net[c].got <= g
    BY <1>1, <1>4, <1>5, <1>7
  <1>9. Base(k, y, m)
    BY <1>3, <1>4, <1>6, <1>7, <1>8, OtherContext
  <1>10. RecSome(c, r).x = y /\ RecSome(c, r).n = m
    BY <1>2 DEF y, m
  <1> QED
    BY <1>3, <1>6, <1>7, <1>8, <1>9, <1>10

\* sendall of the header, or of a part of it.
LEMMA HeaderSent ==
  ASSUME NEW k \in AllConfs, NEW x, NEW n, Base(k, x, n), NEW q \in 0..x.hdr,
         Reaches(n.toHost, FirstUp(k.kind), n.got - x.hdr, Lossy(k))
  PROVE  LET m == SendHeader(x, n, q)
         IN  /\ Base(k, x, m) /\ Carries(k, n, m)
             /\ q = x.hdr \/ Lossy(k) => Reaches(m.toHost, FirstUp(k.kind), m.got, Lossy(k))
             /\ m.toCli = n.toCli /\ m.hgot = n.hgot /\ m.replies = n.replies
  <1>0. n \in Streams /\ n.got \in Nat /\ n.toHost \in Seq(Nat) /\ x.hdr \in Nat /\ x.hdr <= n.got
    BY DEF Base, Streams, Contexts
  <1>1. n.got <= n.sent
    BY DEF Base
  <1>2. PICK h \in Nat : h = n.got - x.hdr
    BY <1>0
  <1>3. q \in Nat /\ q <= x.hdr
    BY <1>0
  <1>4. PICK g \in Nat : g = h + q
    BY <1>3
  <1>5. g <= n.got /\ (q = x.hdr => g = n.got)
    BY <1>0, <1>2, <1>3, <1>4
  <1>6. FirstUp(k.kind) \in Nat \ {0} /\ Reaches(n.toHost, FirstUp(k.kind), h, Lossy(k))
    BY <1>2, ConfType
  <1> DEFINE t == Following(n.toHost, h, q)
             m == [n EXCEPT !.toHost = t]
  <1>7. t \in Seq(Nat)
    BY <1>0, <1>3, <1>4, <1>6, FollowingReaches
  <1>8. m = SendHeader(x, n, q)
    BY <1>2 DEF SendHeader, Following
  <1> HIDE DEF t
  <1>9. /\ m \in Streams /\ m.got = n.got /\ m.sent = n.sent /\ m.toHost = t
        /\ m.hgot = n.hgot /\ m.hsent = n.hsent /\ m.toCli = n.toCli /\ m.replies = n.replies
    BY <1>0, <1>7 DEF Streams
  <1> HIDE DEF m
  <1>10. /\ Base(k, x, m) /\ Carries(k, n, m)
         /\ Reaches(m.toHost, FirstUp(k.kind), g, Lossy(k))
    <2>1. m.toHost = Following(n.toHost, h, q)
      BY <1>9 DEF t
    <2>2. n.got <= m.got /\ m.got <= n.sent
      BY <1>0, <1>1, <1>9
    <2> QED
      BY <1>3, <1>4, <1>6, <1>9, <2>1, <2>2, CarriedUp
  <1>11. q = x.hdr \/ Lossy(k) => Reaches(m.toHost, FirstUp(k.kind), m.got, Lossy(k))
    <2>1. CASE q = x.hdr
      BY <1>5, <1>9, <1>10, <2>1
    <2>2. CASE Lossy(k)
      <3>1. Lossy(k) = TRUE /\ m.toHost \in Seq(Nat) /\ m.got \in Nat
        BY <1>0, <1>7, <1>9, <2>2 DEF Lossy
      <3>2. g <= m.got
        BY <1>5, <1>9
      <3> QED
        BY <1>6, <1>10, <3>1, <3>2, ReachesFurther
    <2> QED
      BY <2>1, <2>2
  <1> QED
    BY <1>8, <1>9, <1>10, <1>11

\* CtxHttp sends the request, or some of it.
LEMMA HttpRequestSent ==
  ASSUME NEW k \in AllConfs, NEW x, NEW n, Base(k, x, n), k.kind = "http",
         Reaches(n.toHost, FirstUp(k.kind), n.got - x.hdr, Lossy(k)),
         NEW o \in HttpRequest(x, n)
  PROVE  /\ o = Outcome([x EXCEPT !.hdr = 0], o.n, "continue") /\ o.x = [x EXCEPT !.hdr = 0]
         /\ Base(k, o.x, o.n) /\ Carries(k, n, o.n)
         /\ Reaches(o.n.toHost, FirstUp(k.kind), o.n.got - 0, Lossy(k))
         /\ o.n.toCli = n.toCli /\ o.n.hgot = n.hgot /\ o.n.replies = n.replies
         /\ o.rv = "continue"
  <1> DEFINE y == [x EXCEPT !.hdr = 0]
  <1>1. PICK q \in 0..x.hdr : o = Outcome(y, SendHeader(x, n, q), "continue")
    BY DEF HttpRequest
  <1> DEFINE m == SendHeader(x, n, q)
  <1>2. /\ Base(k, x, m) /\ Carries(k, n, m)
        /\ Lossy(k) => Reaches(m.toHost, FirstUp(k.kind), m.got, Lossy(k))
        /\ m.toCli = n.toCli /\ m.hgot = n.hgot /\ m.replies = n.replies
    BY HeaderSent
  <1> HIDE DEF m
  <1>3. x \in Contexts /\ (x.rsock # "closed" => x.csock) /\ m.got \in Nat /\ 0 <= m.got
    BY <1>2 DEF Base, Streams
  <1>4. y \in Contexts /\ y.hdr = 0 /\ y.rsock = x.rsock /\ y.csock = x.csock
    BY <1>3 DEF Contexts
  <1> HIDE DEF y
  <1>5. Base(k, y, m)
    BY <1>2, <1>3, <1>4, OtherContext
  <1>6. m.got - 0 = m.got
    BY <1>3
  <1>7. o = Outcome(y, m, "continue")
    BY <1>1 DEF m
  <1>8. o.x = y /\ o.n = m /\ o.rv = "continue"
    BY <1>7 DEF Outcome
  <1>9. Lossy(k)
    BY DEF Lossy
  <1>10. o = Outcome(y, o.n, "continue")
    BY <1>7, <1>8
  <1>11. Reaches(o.n.toHost, FirstUp(k.kind), o.n.got - 0, Lossy(k))
    BY <1>2, <1>6, <1>8, <1>9
  <1> QED
    BY <1>2, <1>5, <1>8, <1>10, <1>11 DEF y

-----------------------------------------------------------------------------
(* Replies.                                                                *)

Saying(n, z) == [n EXCEPT !.replies = Append(@, z)]

\* A reply is added behind the others, and the streams stay as they are.
LEMMA Said ==
  ASSUME NEW k, NEW x, NEW n, Base(k, x, n), NEW z \in Codes,
         k.kind \in Socks /\ k.access /\ z # "method" => Answers(n) = {}
  PROVE  LET m == Saying(n, z)
         IN  /\ Base(k, x, m) /\ HasReply(m, z)
             /\ z = "method" => Answers(m) = Answers(n)
             /\ m.toHost = n.toHost /\ m.toCli = n.toCli /\ m.got = n.got /\ m.hgot = n.hgot
             /\ m.sent = n.sent /\ m.hsent = n.hsent
  <1> DEFINE t == Append(n.replies, z)
             m == [n EXCEPT !.replies = t]
  <1>1. n \in Streams /\ n.replies \in Seq(Codes)
    BY DEF Base, Streams
  <1>2. PICK l \in Nat : l = Len(n.replies)
    BY <1>1, LenProperties
  <1>3. DOMAIN n.replies = 1..l
    BY <1>1, <1>2, LenProperties
  <1>4. /\ t \in Seq(Codes) /\ DOMAIN t = 1..(l + 1)
        /\ \A i \in 1..l : t[i] = n.replies[i]
        /\ t[l + 1] = z
    BY <1>1, <1>2, AppendProperties, LenProperties
  <1> HIDE DEF t
  <1>5. /\ m \in Streams /\ m.replies = t
        /\ m.toHost = n.toHost /\ m.toCli = n.toCli /\ m.got = n.got /\ m.hgot = n.hgot
        /\ m.sent = n.sent /\ m.hsent = n.hsent
    BY <1>1, <1>4 DEF Streams
  <1> HIDE DEF m
  <1>6. l + 1 \in 1..(l + 1) /\ 1..(l + 1) = 1..l \cup {l + 1} /\ l + 1 \notin 1..l
    BY <1>2
  <1>7. HasReply(m, z)
    BY <1>4, <1>5, <1>6 DEF HasReply
  <1>8. \A w : HasReply(n, w) => HasReply(m, w)
    BY <1>3, <1>4, <1>5, <1>6 DEF HasReply
  <1>9. z = "method" => Answers(m) = Answers(n)
    BY <1>3, <1>4, <1>5, <1>6 DEF Answers
  <1>10. Answers(n) = {} => \A i \in Answers(m) : i = l + 1
    BY <1>3, <1>4, <1>5, <1>6 DEF Answers
  <1>11. Single(k, m)
    <2> SUFFICES ASSUME k.kind \in Socks, k.access
                 PROVE  /\ \A i, j \in Answers(m) : i = j
                        /\ m.toCli # <<>> => HasReply(m, "success")
      BY DEF Single
    <2>1. \A i, j \in Answers(n) : i = j
      BY DEF Base, Single
    <2>2. m.toCli # <<>> => HasReply(m, "success")
      BY <1>5, <1>8 DEF Base, Single
    <2>3. \A i, j \in Answers(m) : i = j
      BY <1>9, <1>10, <2>1
    <2> QED
      BY <2>2, <2>3
  <1>12. Base(k, x, m)
    BY <1>5, <1>8, <1>11 DEF Base, Polite
  <1> QED
    BY <1>5, <1>7, <1>9, <1>12 DEF m, t, Saying

-----------------------------------------------------------------------------
(* A context that relays goes on relaying.                                 *)

\* One direction after the other.
LEMMA CarriesBoth ==
  ASSUME NEW k, NEW n, NEW m, NEW w, Carries(k, n, m), m.toCli = n.toCli,
         Carries(k, m, w), w.toHost = m.toHost
  PROVE  Carries(k, n, w)
  BY DEF Carries

\* CtxHttp::_s_is_connected of a context that works.
LEMMA NextRequestRelays ==
  ASSUME NEW c \in Conn, NEW k \in AllConfs, k = conf[c], Relays(k, cx[c], net[c]),
         k.kind = "http", NEW o \in NextRequest(c, cx[c], net[c])
  PROVE  \/ /\ Relays(k, o.x, o.n) /\ Carries(k, net[c], o.n) /\ o.n.toCli = net[c].toCli
            /\ o.rv = "continue"
         \/ Relayed(k, net[c], o) /\ o.rv = "kill"
  <1> DEFINE x == cx[c]
             n == net[c]
  <1>1. /\ Base(k, x, n) /\ Granting(k, x, n) /\ x.csock /\ x.pcall \in Relaying
        /\ n.toHost \in Seq(Nat) /\ n.toCli \in Seq(Nat) /\ Lossy(k)
        /\ Reaches(n.toHost, FirstUp(k.kind), n.got - x.hdr, Lossy(k))
        /\ Reaches(n.toCli, 1, n.hgot, Lossy(k))
    BY DEF Relays, Flow, Held, Base, Streams, Lossy
  <1>2. PICK r \in Received(c) :
          LET a == RecSome(c, r)
          IN  \/ o = Outcome(a.x, a.n, "continue")
              \/ o = Outcome(a.x, Reply(c, a.n, "fail"), "kill")
              \/ o = Outcome([a.x EXCEPT !.pcall = "emptyHost"], a.n, "continue")
              \/ o \in HttpRequest(a.x, a.n)
    BY DEF NextRequest
  <1> DEFINE y == RecSome(c, r).x
             m == RecSome(c, r).n
  <1>3. /\ Base(k, y, m) /\ m.got - y.hdr = n.got - x.hdr
        /\ y.pcall = x.pcall /\ y.working = x.working /\ y.csock = x.csock /\ y.rsock = x.rsock
        /\ m.toHost = n.toHost /\ m.toCli = n.toCli /\ m.hgot = n.hgot
        /\ m.replies = n.replies
    BY <1>1, RecSomeKeeps
  <1> HIDE DEF x, n
  <1>4. \/ o = Outcome(y, m, "continue")
        \/ o = Outcome(y, Reply(c, m, "fail"), "kill")
        \/ o = Outcome([y EXCEPT !.pcall = "emptyHost"], m, "continue")
        \/ o \in HttpRequest(y, m)
    BY <1>2
  <1> HIDE DEF y, m
  <1>5. y \in Contexts /\ Held(k, y) = y.hdr /\ Granting(k, y, m)
    BY <1>1, <1>3 DEF Base, Held, Granting, HasReply
  <1>6. Relays(k, y, m)
    BY <1>1, <1>3, <1>5 DEF Relays, Flow
  <1>7. Carries(k, n, m)
    BY <1>1, <1>3, CarriesNothing
  <1>8. CASE o = Outcome(y, m, "continue")
    BY <1>3, <1>6, <1>7, <1>8 DEF Outcome, n
  <1>9. CASE o = Outcome([y EXCEPT !.pcall = "emptyHost"], m, "continue")
    <2> DEFINE z == [y EXCEPT !.pcall = "emptyHost"]
    <2>1. /\ z \in Contexts /\ z.pcall = "emptyHost" /\ z.hdr = y.hdr /\ z.working = y.working
          /\ z.csock = y.csock /\ z.rsock = y.rsock
      BY <1>5 DEF Contexts, Points
    <2>2. o.x = z /\ o.n = m /\ o.rv = "continue"
      BY <1>9 DEF Outcome
    <2> HIDE DEF z
    <2>3. Base(k, z, m)
      BY <1>3, <2>1 DEF Base
    <2>4. Relays(k, z, m)
      BY <1>6, <2>1, <2>3 DEF Relays, Flow, Granting, Held, Relaying
    <2> QED
      BY <1>3, <1>7, <2>2, <2>4 DEF n
  <1>10. CASE o \in HttpRequest(y, m)
    <2>1. Reaches(m.toHost, FirstUp(k.kind), m.got - y.hdr, Lossy(k))
      BY <1>1, <1>3
    <2>2. /\ o.x = [y EXCEPT !.hdr = 0] /\ o.rv = "continue"
          /\ Base(k, o.x, o.n) /\ Carries(k, m, o.n)
          /\ Reaches(o.n.toHost, FirstUp(k.kind), o.n.got - 0, Lossy(k))
          /\ o.n.toCli = m.toCli /\ o.n.hgot = m.hgot /\ o.n.replies = m.replies
      BY <1>3, <1>10, <2>1, HttpRequestSent
    <2>3. /\ o.x.hdr = 0 /\ o.x.pcall = y.pcall /\ o.x.working = y.working
          /\ o.x.csock = y.csock
      BY <1>5, <2>2 DEF Contexts
    <2>4. Relays(k, o.x, o.n)
      <3>1. Held(k, o.x) = 0
        BY <1>1, <2>3 DEF Held
      <3>2. Flow(k, o.x, o.n)
        <4>1. Reaches(o.n.toHost, FirstUp(k.kind), o.n.got - Held(k, o.x), Lossy(k))
          BY <2>2, <3>1
        <4>2. Reaches(o.n.toCli, 1, o.n.hgot, Lossy(k))
          BY <1>1, <1>3, <2>2
        <4> QED
          BY <4>1, <4>2 DEF Flow
      <3>3. Granting(k, o.x, o.n)
        BY <1>6, <2>2, <2>3 DEF Relays, Granting, HasReply
      <3> QED
        BY <1>1, <1>3, <2>2, <2>3, <3>2, <3>3 DEF Relays
    <2>5. Carries(k, n, o.n)
      BY <1>3, <2>2 DEF Carries
    <2> QED
      BY <1>3, <2>2, <2>4, <2>5 DEF n
  <1>11. CASE o = Outcome(y, Reply(c, m, "fail"), "kill")
    <2> DEFINE w == Saying(m, "fail")
    <2>1. Reply(c, m, "fail") = w
      BY DEF Reply, Saying
    <2>2. /\ Base(k, y, w) /\ w.toHost = m.toHost /\ w.toCli = m.toCli
      BY <1>3, Said DEF Codes, Socks
    <2> HIDE DEF w
    <2>3. Carries(k, n, w)
      BY <1>1, <1>3, <2>2, CarriesNothing
    <2>4. k.access
      BY <1>1 DEF Granting
    <2>5. o = Outcome(y, w, "kill") /\ o.rv = "kill"
      BY <1>11, <2>1 DEF Outcome
    <2> QED
      BY <2>2, <2>3, <2>4, <2>5, Ends DEF n
  <1> QED
    BY <1>4, <1>8, <1>9, <1>10, <1>11

\* CtxHttp::_io.
LEMMA HttpIoRelays ==
  ASSUME NEW c \in Conn, NEW k \in AllConfs, k = conf[c], Relays(k, cx[c], net[c]),
         k.kind = "http", NEW o \in HttpIo(c)
  PROVE  Relayed(k, net[c], o)
  <1>1. ASSUME NEW x, NEW n, Relays(k, x, n), Carries(k, net[c], n), n.toCli = net[c].toCli,
               o \in GetFromHost(c, x, n)
        PROVE  Relayed(k, net[c], o)
    <2>1. /\ o.rv \in {"continue", "kill"} /\ Relays(k, o.x, o.n) /\ k.access
          /\ o = Outcome(o.x, o.n, o.rv) /\ Carries(k, n, o.n) /\ o.n.toHost = n.toHost
      BY <1>1, GetFromHostRelays
    <2>2. Carries(k, net[c], o.n)
      BY <1>1, <2>1, CarriesBoth
    <2>3. CASE o.rv = "continue"
      BY <2>1, <2>2, <2>3, GoesOn
    <2>4. CASE o.rv = "kill"
      BY <2>1, <2>2, <2>4, Ends DEF Relays
    <2> QED
      BY <2>1, <2>3, <2>4
  <1>2. CASE o \in GetFromHost(c, cx[c], net[c])
    <2>1. Carries(k, net[c], net[c])
      BY CarriesNothing DEF Relays, Base, Streams
    <2> QED
      BY <1>1, <1>2, <2>1
  <1>3. ASSUME NEW e \in NextRequest(c, cx[c], net[c]),
               o \in IF e.rv = "kill" THEN {e} ELSE GetFromHost(c, e.x, e.n)
        PROVE  Relayed(k, net[c], o)
    <2>1. CASE e.rv = "kill"
      <3>1. o = e
        BY <1>3, <2>1
      <3> QED
        BY <2>1, <3>1, NextRequestRelays
    <2>2. CASE e.rv # "kill"
      <3>1. Relays(k, e.x, e.n) /\ Carries(k, net[c], e.n) /\ e.n.toCli = net[c].toCli
        BY <2>2, NextRequestRelays
      <3>2. o \in GetFromHost(c, e.x, e.n)
        BY <1>3, <2>2
      <3> QED
        BY <1>1, <3>1, <3>2
    <2> QED
      BY <2>1, <2>2
  <1> QED
    BY <1>2, <1>3 DEF HttpIo

\* CtxHttp::_empty_host.
LEMMA EmptyHostRelays ==
  ASSUME NEW c \in Conn, NEW k \in AllConfs, k = conf[c], Relays(k, cx[c], net[c]),
         k.kind = "http", NEW o \in EmptyHost(c)
  PROVE  Relayed(k, net[c], o)
  <1>1. PICK e \in GetFromHost(c, cx[c], net[c]) : o = Outcome(e.x, e.n, "continue")
    BY DEF EmptyHost
  <1>2. Relays(k, e.x, e.n) /\ Carries(k, net[c], e.n)
    BY GetFromHostRelays
  <1> QED
    BY <1>1, <1>2, GoesOn

\* The _io of every context.
LEMMA IoRelays ==
  ASSUME NEW c \in Conn, NEW k \in AllConfs, k = conf[c], Relays(k, cx[c], net[c]),
         cx[c].pcall = "io", NEW o \in Io(c)
  PROVE  Relayed(k, net[c], o)
  <1>1. CASE k.kind = "http"
    BY <1>1, HttpIoRelays DEF Io
  <1>2. CASE k.kind # "http"
    <2>1. Base(k, cx[c], net[c]) /\ o \in RelayIo(c, cx[c], net[c])
      BY <1>2 DEF Io, Relays
    <2> QED
      BY <1>2, <2>1, RelayIoRelays
  <1> QED
    BY <1>1, <1>2

-----------------------------------------------------------------------------
(* Answering a request.                                                    *)

\* _s_send_reply.
LEMMA Replied ==
  ASSUME NEW c, NEW k \in AllConfs, k = conf[c], NEW x, NEW n, Base(k, x, n),
         NEW code \in {"granted", "fail", "method"},
         k.kind \in Socks /\ k.access /\ code # "method" => Answers(n) = {}
  PROVE  LET m == Reply(c, n, code)
         IN  /\ Base(k, x, m)
             /\ code = "granted" /\ k.kind \in Socks => HasReply(m, "success")
             /\ code = "method" /\ k.kind = "socks5" => Answers(m) = Answers(n)
             /\ m.toHost = n.toHost /\ m.toCli = n.toCli /\ m.got = n.got /\ m.hgot = n.hgot
             /\ m.sent = n.sent /\ m.hsent = n.hsent
  <1> DEFINE m == Reply(c, n, code)
             z == IF code = "granted" THEN "success" ELSE code
  <1>1. z \in Codes /\ (z = "method" <=> code = "method") /\ (code = "granted" => z = "success")
    BY DEF Codes
  <1>2. m = n \/ m = Saying(n, z)
    BY DEF Reply, Saying
  <1>3. k.kind \in Socks => m = Saying(n, z)
    BY DEF Reply, Saying, Socks
  <1> HIDE DEF m, z
  <1>4. CASE m = Saying(n, z)
    <2>1. k.kind \in Socks /\ k.access /\ z # "method" => Answers(n) = {}
      BY <1>1
    <2>2. /\ Base(k, x, m) /\ HasReply(m, z)
          /\ z = "method" => Answers(m) = Answers(n)
          /\ m.toHost = n.toHost /\ m.toCli = n.toCli /\ m.got = n.got /\ m.hgot = n.hgot
          /\ m.sent = n.sent /\ m.hsent = n.hsent
      BY <1>1, <1>4, <2>1, Said
    <2> QED
      BY <1>1, <2>2 DEF m
  <1>5. CASE m = n /\ m # Saying(n, z)
    <2>1. k.kind \notin Socks /\ k.kind # "socks5"
      BY <1>3, <1>5 DEF Socks
    <2> QED
      BY <1>5, <2>1 DEF m
  <1> QED
    BY <1>2, <1>4, <1>5

-----------------------------------------------------------------------------
(* A context that asks goes on asking, or it becomes a relay.              *)

\* What holds of a context that asks, wherever it is.
Quiet(k, x, n) ==
  /\ Base(k, x, n) /\ x.csock /\ ~x.working
  /\ n.toHost = <<>> /\ n.toCli = <<>> /\ n.hgot = 0 /\ Answers(n) = {}

\* What a handler does is one or the other.
Steps(k, n, o) == Relayed(k, n, o) \/ Asked(k, o)

\* A context that waits for something goes on asking.
LEMMA AsksOn ==
  ASSUME NEW k, NEW x, NEW n, Base(k, x, n), x.csock, x.pcall \notin Relaying, Asking(k, x, n),
         NEW rv \in {"continue", "done"}
  PROVE  Asked(k, Outcome(x, n, rv))
  <1> DEFINE o == Outcome(x, n, rv)
  <1>1. o.x = x /\ o.n = n /\ o.rv = rv
    BY DEF Outcome
  <1> HIDE DEF o
  <1>2. n.toHost = <<>> /\ n.toCli = <<>>
    BY DEF Asking
  <1>3. Asked(k, o)
    BY <1>1, <1>2 DEF Asked, Sound, Phase, Flow
  <1> QED
    BY <1>3 DEF o

\* It ends, whatever its state, and nothing has been carried.
LEMMA AskEnds ==
  ASSUME NEW k, NEW x, NEW n, Base(k, x, n), n.toHost = <<>>, n.toCli = <<>>
  PROVE  Asked(k, Outcome(x, n, "kill"))
  BY DEF Asked, Sound, Outcome

\* Every stream has come to the piece before its first.
LEMMA QuietReaches ==
  ASSUME NEW k \in AllConfs, NEW x, NEW n, Quiet(k, x, n), Ready(k, x, n)
  PROVE  /\ Reaches(n.toCli, 1, n.hgot, Lossy(k))
         /\ k.kind \in AnswerFirst \cup {"pass"} =>
              Reaches(n.toHost, FirstUp(k.kind), n.got, Lossy(k))
         /\ k.kind \in {"http", "dns", "pass"} =>
              Reaches(n.toHost, FirstUp(k.kind), n.got - x.hdr, Lossy(k))
  <1>1. n.toHost = <<>> /\ n.toCli = <<>> /\ n.hgot = 0 /\ n.got \in Nat
    BY DEF Quiet, Base, Streams
  <1>2. LastOf(n.toCli, 1) = 0 /\ LastOf(n.toHost, FirstUp(k.kind)) = FirstUp(k.kind) - 1
    BY <1>1 DEF LastOf
  <1>3. CASE k.kind \in AnswerFirst
    <2>1. k.kind \notin {"http", "dns", "pass"}
      BY <1>3 DEF AnswerFirst, Socks
    <2>2. FirstUp(k.kind) = Request(k.kind) + 1 /\ Request(k.kind) \in 0..3 /\ n.got = Request(k.kind)
      BY <1>3, ConfType DEF Ready
    <2>3. FirstUp(k.kind) - 1 = n.got
      BY <2>2
    <2> QED
      BY <1>1, <1>2, <2>1, <2>3 DEF Reaches
  <1>4. CASE k.kind \notin AnswerFirst
    <2>1. FirstUp(k.kind) = 1 /\ k.kind \in {"http", "dns", "pass"}
      BY <1>4, ConfType DEF AllKinds, AnswerFirst, Socks
    <2>2. n.got - x.hdr = 0 /\ (k.kind = "pass" => n.got = 0)
      BY <1>1, <2>1 DEF Ready
    <2>3. FirstUp(k.kind) - 1 = 0
      BY <2>1
    <2> QED
      BY <1>1, <1>2, <1>4, <2>2, <2>3 DEF Reaches
  <1> QED
    BY <1>3, <1>4

\* Ctx::_r_is_connected lets a context relay.
LEMMA Grants ==
  ASSUME NEW k \in AllConfs, NEW x, NEW m, Base(k, x, m), NEW y \in Contexts, y.hdr <= m.got,
         y.csock, y.pcall = "io", k.access,
         y.working <=> k.kind \notin {"pass", "dns"},
         k.kind \in AnswerFirst => HasReply(m, "success"),
         Reaches(m.toHost, FirstUp(k.kind), m.got - Held(k, y), Lossy(k)),
         Reaches(m.toCli, 1, m.hgot, Lossy(k))
  PROVE  Relays(k, y, m)
  <1>1. Base(k, y, m)
    BY OtherContext
  <1>2. y.pcall \in Relaying /\ y.pcall # "emptyHost"
    BY DEF Relaying
  <1> QED
    BY <1>1, <1>2 DEF Relays, Granting, Flow

\* What a context needs before its host may be connected.  Only a plain one
\* goes straight on to receive, and it has received nothing before.
Complete(c, k, x, n) ==
  /\ Quiet(k, x, n) /\ Ready(k, x, n)
  /\ k.kind = "pass" => n.got = net[c].got /\ n.sent = net[c].sent

\* The _r_is_connected of each context.
LEMMA ConnectedGrants ==
  ASSUME NEW c \in Conn, NEW k \in AllConfs, k = conf[c], Base(k, cx[c], net[c]),
         NEW x, NEW n, Complete(c, k, x, n), NEW o \in Connected(c, x, n)
  PROVE  Relayed(k, n, o)
  <1>1. /\ Base(k, x, n) /\ x.csock /\ k.access /\ Quiet(k, x, n) /\ Ready(k, x, n)
        /\ n.toHost \in Seq(Nat) /\ n.toCli \in Seq(Nat) /\ Answers(n) = {}
        /\ n.got \in Nat /\ x \in Contexts /\ x.hdr <= n.got /\ 0 <= n.got
        /\ ~x.working
    BY DEF Complete, Quiet, Ready, Base, Streams
  <1>2. /\ Reaches(n.toCli, 1, n.hgot, Lossy(k))
        /\ k.kind \in AnswerFirst \cup {"pass"} =>
             Reaches(n.toHost, FirstUp(k.kind), n.got, Lossy(k))
        /\ k.kind \in {"http", "dns", "pass"} =>
             Reaches(n.toHost, FirstUp(k.kind), n.got - x.hdr, Lossy(k))
    BY <1>1, QuietReaches
  <1>3. CASE k.kind \in AnswerFirst
    <2>1. PICK y \in {Granted(x), [Granted(x) EXCEPT !.hdr = 0]},
               m \in {Reply(c, n, "granted"), [n EXCEPT !.replies = Append(@, "success")]} :
            /\ o = Outcome(y, m, "continue")
            /\ k.kind # "tunnel" => m = Reply(c, n, "granted")
            /\ k.kind = "tunnel" => m = [n EXCEPT !.replies = Append(@, "success")]
      BY <1>3 DEF Connected, AnswerFirst, Socks
    <2>2. /\ Base(k, x, m) /\ HasReply(m, "success")
          /\ m.toHost = n.toHost /\ m.toCli = n.toCli /\ m.got = n.got /\ m.hgot = n.hgot
      <3>1. CASE k.kind = "tunnel"
        <4>1. "success" \in Codes /\ Base(k, x, n) /\ Answers(n) = {}
          BY <1>1 DEF Codes
        <4>2. m = Saying(n, "success")
          BY <2>1, <3>1 DEF Saying
        <4> HIDE DEF Granted
        <4> QED
          BY <4>1, <4>2, Said
      <3>2. CASE k.kind # "tunnel"
        <4>1. k.kind \in Socks /\ Base(k, x, n) /\ Answers(n) = {}
          BY <1>1, <1>3, <3>2 DEF AnswerFirst
        <4>2. m = Reply(c, n, "granted")
          BY <2>1, <3>2
        <4> QED
          BY <4>1, <4>2, Replied
      <3> QED
        BY <3>1, <3>2
    <2>3. y \in Contexts /\ y.hdr <= n.got /\ y.csock /\ y.pcall = "io" /\ y.working
      <3>1. /\ Granted(x) \in Contexts /\ Granted(x).hdr = x.hdr /\ Granted(x).csock
            /\ Granted(x).pcall = "io" /\ Granted(x).working
        BY <1>1 DEF Granted, Contexts, Points
      <3>2. CASE y = Granted(x)
        BY <1>1, <3>1, <3>2
      <3>3. CASE y = [Granted(x) EXCEPT !.hdr = 0]
        <4> HIDE DEF Granted
        <4> QED
          BY <1>1, <3>1, <3>3 DEF Contexts
      <3> QED
        BY <2>1, <3>2, <3>3
    <2>4. k.kind \notin {"pass", "dns", "http"}
      BY <1>3 DEF AnswerFirst, Socks
    <2>5. Held(k, y) = 0 /\ m.got - Held(k, y) = n.got
      <3>1. Held(k, y) = 0
        BY <2>4 DEF Held, Lossy
      <3> QED
        BY <1>1, <2>2, <3>1
    <2>6. Relays(k, y, m)
      BY <1>1, <1>2, <1>3, <2>2, <2>3, <2>4, <2>5, Grants
    <2>7. Carries(k, n, m)
      BY <1>1, <2>2, CarriesNothing
    <2> QED
      BY <2>1, <2>6, <2>7, GoesOn
  <1>4. CASE k.kind = "http"
    <2>1. PICK e \in HttpRequest(x, n) : o = Outcome(Granted(e.x), e.n, e.rv)
      BY <1>4 DEF Connected
    <2>2. /\ e.x = [x EXCEPT !.hdr = 0] /\ Base(k, e.x, e.n) /\ Carries(k, n, e.n)
          /\ Reaches(e.n.toHost, FirstUp(k.kind), e.n.got - 0, Lossy(k))
          /\ e.n.toCli = n.toCli /\ e.n.hgot = n.hgot /\ e.rv = "continue"
      <3>1. Base(k, x, n) /\ Reaches(n.toHost, FirstUp(k.kind), n.got - x.hdr, Lossy(k))
        BY <1>1, <1>2, <1>4
      <3> QED
        BY <1>4, <3>1, HttpRequestSent
    <2> DEFINE y == Granted(e.x)
               z == e.x
    <2>3. z \in Contexts /\ z.hdr = 0 /\ z.csock /\ 0 <= e.n.got
      BY <1>1, <2>2 DEF Contexts, Base, Streams
    <2> HIDE DEF z
    <2>4. y = [z EXCEPT !.pcall = "io", !.working = TRUE]
      BY DEF z, Granted
    <2> HIDE DEF y
    <2>5. y \in Contexts /\ y.hdr = 0 /\ y.csock /\ y.pcall = "io" /\ y.working
      BY <2>3, <2>4 DEF Contexts, Points
    <2>6. Held(k, y) = 0
      BY <2>5 DEF Held
    <2>7. Reaches(e.n.toHost, FirstUp(k.kind), e.n.got - Held(k, y), Lossy(k))
      BY <2>2, <2>6
    <2>8. Reaches(e.n.toCli, 1, e.n.hgot, Lossy(k))
      BY <1>2, <2>2
    <2>9. k.kind \notin AnswerFirst /\ k.kind \notin {"pass", "dns"}
      BY <1>4 DEF AnswerFirst, Socks
    <2>10. Relays(k, y, e.n)
      BY <1>1, <2>2, <2>3, <2>5, <2>7, <2>8, <2>9, Grants
    <2> QED
      BY <2>1, <2>2, <2>10, GoesOn DEF y
  <1>5. CASE k.kind = "pass"
    <2> DEFINE y == [x EXCEPT !.pcall = "io"]
    <2>1. o \in RelayIo(c, y, n)
      BY <1>5 DEF Connected
    <2>2. /\ y \in Contexts /\ y.hdr = x.hdr /\ y.csock /\ y.pcall = "io" /\ ~y.working
      BY <1>1 DEF Contexts, Points
    <2> HIDE DEF y
    <2>3. k.kind \notin AnswerFirst /\ Held(k, y) = 0
      BY <1>5 DEF AnswerFirst, Socks, Held, Lossy
    <2>4. n.got - Held(k, y) = n.got
      BY <1>1, <2>3
    <2>5. Relays(k, y, n)
      BY <1>1, <1>2, <1>5, <2>2, <2>3, <2>4, Grants
    <2>6. n.got = net[c].got /\ n.sent = net[c].sent
      BY <1>5 DEF Complete
    <2> QED
      BY <1>5, <2>1, <2>2, <2>5, <2>6, RelayIoRelays
  <1>6. CASE k.kind = "dns"
    <2>1. \/ o = Outcome([x EXCEPT !.pcall = "io", !.hdr = 0], SendHeader(x, n, x.hdr), "continue")
          \/ \E q \in 0..(x.hdr - 1) : o = Outcome(x, SendHeader(x, n, q), "kill")
      BY <1>6 DEF Connected
    <2>2. x.hdr \in Nat
      BY <1>1 DEF Contexts
    <2>3. ASSUME NEW q \in 0..(x.hdr - 1), o = Outcome(x, SendHeader(x, n, q), "kill")
          PROVE  Relayed(k, n, o)
      <3>1. q \in 0..x.hdr
        BY <2>2
      <3>2. Base(k, x, SendHeader(x, n, q)) /\ Carries(k, n, SendHeader(x, n, q))
        BY <1>1, <1>2, <1>6, <3>1, HeaderSent
      <3> QED
        BY <1>1, <2>3, <3>2, Ends
    <2>4. CASE o = Outcome([x EXCEPT !.pcall = "io", !.hdr = 0], SendHeader(x, n, x.hdr), "continue")
      <3> DEFINE y == [x EXCEPT !.pcall = "io", !.hdr = 0]
                 m == SendHeader(x, n, x.hdr)
      <3>1. x.hdr \in 0..x.hdr
        BY <2>2
      <3>2. /\ Base(k, x, m) /\ Carries(k, n, m)
            /\ Reaches(m.toHost, FirstUp(k.kind), m.got, Lossy(k))
            /\ m.toCli = n.toCli /\ m.hgot = n.hgot
        BY <1>1, <1>2, <1>6, <3>1, HeaderSent
      <3>3. /\ y \in Contexts /\ y.hdr = 0 /\ y.csock /\ y.pcall = "io" /\ ~y.working
        BY <1>1 DEF Contexts, Points
      <3> HIDE DEF y, m
      <3>4. k.kind \notin AnswerFirst /\ Held(k, y) = 0 /\ m.got \in Nat
        BY <1>6, <3>2 DEF AnswerFirst, Socks, Held, Lossy, Base, Streams
      <3>5. m.got - Held(k, y) = m.got /\ 0 <= m.got
        BY <3>4
      <3>6. Reaches(m.toCli, 1, m.hgot, Lossy(k))
        BY <1>2, <3>2
      <3>7. Relays(k, y, m)
        BY <1>1, <1>6, <3>2, <3>3, <3>4, <3>5, <3>6, Grants
      <3> QED
        BY <2>4, <3>2, <3>7, GoesOn DEF y, m
    <2> QED
      BY <2>1, <2>3, <2>4
  <1>7. k.kind \in AnswerFirst \cup {"http", "pass", "dns"}
    BY ConfType DEF AllKinds, AnswerFirst, Socks
  <1> QED
    BY <1>3, <1>4, <1>5, <1>6, <1>7

\* Where it is with its connection does not matter.
LEMMA CompleteKeeps ==
  ASSUME NEW c, NEW k, NEW x, NEW n, Complete(c, k, x, n), NEW y \in Contexts,
         y.hdr = x.hdr, y.csock, ~y.working
  PROVE  Complete(c, k, y, n)
  <1>1. Base(k, y, n)
    BY DEF Complete, Quiet, Base
  <1> QED
    BY <1>1 DEF Complete, Quiet, Ready

\* It may go on waiting for the host.
LEMMA CompleteAsks ==
  ASSUME NEW c, NEW k, NEW x, NEW n, Complete(c, k, x, n),
         x.pcall \in {"pending", "sslConnect", "connected"}, NEW rv \in {"continue", "done"}
  PROVE  Asked(k, Outcome(x, n, rv))
  <1>1. Base(k, x, n) /\ x.csock /\ Asking(k, x, n) /\ x.pcall \notin Relaying
    BY DEF Complete, Quiet, Asking, Relaying
  <1> QED
    BY <1>1, AsksOn

\* It may end, with an answer or without.
LEMMA CompleteEnds ==
  ASSUME NEW c, NEW k \in AllConfs, k = conf[c], NEW x, NEW n, Complete(c, k, x, n)
  PROVE  Asked(k, Outcome(x, n, "kill")) /\ Asked(k, Outcome(x, Reply(c, n, "fail"), "kill"))
  <1>1. Base(k, x, n) /\ n.toHost = <<>> /\ n.toCli = <<>> /\ Answers(n) = {}
    BY DEF Complete, Quiet
  <1> DEFINE m == Reply(c, n, "fail")
  <1>2. Base(k, x, m) /\ m.toHost = n.toHost /\ m.toCli = n.toCli
    BY <1>1, Replied
  <1> HIDE DEF m
  <1>3. Asked(k, Outcome(x, n, "kill")) /\ Asked(k, Outcome(x, m, "kill"))
    BY <1>1, <1>2, AskEnds
  <1> QED
    BY <1>3 DEF m

\* The encryption of the connection to the host.
LEMMA SslConnectAsks ==
  ASSUME NEW c \in Conn, NEW k \in AllConfs, k = conf[c], NEW x, NEW n, Complete(c, k, x, n),
         NEW o \in SslConnect(c, x, n)
  PROVE  Asked(k, o)
  <1>1. x \in Contexts /\ x.csock /\ ~x.working
    BY DEF Complete, Quiet, Base
  <1>2. CASE o = Outcome(x, n, "kill")
    BY <1>2, CompleteEnds
  <1>3. ASSUME NEW p \in {"sslConnect", "connected"}, NEW rv \in {"continue", "done"},
               o = Outcome([x EXCEPT !.pcall = p], n, rv)
        PROVE  Asked(k, o)
    <2> DEFINE y == [x EXCEPT !.pcall = p]
    <2>1. y \in Contexts /\ y.hdr = x.hdr /\ y.csock /\ ~y.working /\ y.pcall = p
      BY <1>1 DEF Contexts, Points
    <2> HIDE DEF y
    <2>2. Complete(c, k, y, n)
      BY <2>1, CompleteKeeps
    <2>3. Asked(k, Outcome(y, n, rv))
      BY <2>1, <2>2, CompleteAsks
    <2> QED
      BY <1>3, <2>3 DEF y
  <1> QED
    BY <1>2, <1>3 DEF SslConnect

\* The host has been reached: the handshake, or what _r_is_connected does.
LEMMA HostUpSteps ==
  ASSUME NEW c \in Conn, NEW k \in AllConfs, k = conf[c], Base(k, cx[c], net[c]),
         NEW x, NEW n, Complete(c, k, x, n), NEW o \in HostUp(c, x, n)
  PROVE  Steps(k, n, o)
  <1> DEFINE y == [x EXCEPT !.rsock = "up"]
  <1>1. x \in Contexts /\ x.csock /\ ~x.working
    BY DEF Complete, Quiet, Base
  <1>2. y \in Contexts /\ y.hdr = x.hdr /\ y.csock /\ ~y.working
    BY <1>1 DEF Contexts
  <1> HIDE DEF y
  <1>3. Complete(c, k, y, n)
    BY <1>2, CompleteKeeps
  <1>4. o \in SslConnect(c, y, n) \/ o \in Connected(c, y, n)
    BY DEF HostUp, y
  <1> QED
    BY <1>3, <1>4, SslConnectAsks, ConnectedGrants DEF Steps

\* The host is refused, on its way, or there.
LEMMA HostConnectSteps ==
  ASSUME NEW c \in Conn, NEW k \in AllConfs, k = conf[c], Base(k, cx[c], net[c]),
         NEW x, NEW n, Complete(c, k, x, n), NEW o \in HostConnect(c, x, n)
  PROVE  Steps(k, n, o)
  <1>1. x \in Contexts /\ x.csock /\ ~x.working /\ n \in Streams
    BY DEF Complete, Quiet, Base
  <1>2. CASE o = Outcome(x, Reply(c, n, "fail"), "kill")
    BY <1>2, CompleteEnds DEF Steps
  <1>3. CASE o = Outcome([x EXCEPT !.pcall = "pending", !.rsock = "connecting"], n, "continue")
    <2> DEFINE y == [x EXCEPT !.pcall = "pending", !.rsock = "connecting"]
    <2>1. y \in Contexts /\ y.hdr = x.hdr /\ y.csock /\ ~y.working /\ y.pcall = "pending"
      BY <1>1 DEF Contexts, Points
    <2> HIDE DEF y
    <2>2. Complete(c, k, y, n)
      BY <2>1, CompleteKeeps
    <2>3. Asked(k, Outcome(y, n, "continue"))
      BY <2>1, <2>2, CompleteAsks
    <2> QED
      BY <1>3, <2>3 DEF Steps, y
  <1>4. CASE o \in HostUp(c, x, [n EXCEPT !.reach = "yes"])
    <2> DEFINE m == [n EXCEPT !.reach = "yes"]
    <2>1. /\ m \in Streams /\ m.sent = n.sent /\ m.got = n.got /\ m.toHost = n.toHost
          /\ m.hsent = n.hsent /\ m.hgot = n.hgot /\ m.toCli = n.toCli /\ m.replies = n.replies
      BY <1>1 DEF Streams
    <2> HIDE DEF m
    <2>2. Answers(m) = Answers(n)
      BY <2>1 DEF Answers
    <2>3. Base(k, x, m)
      BY <2>1, <2>2 DEF Complete, Quiet, Base, Polite, Single, HasReply
    <2>4. Complete(c, k, x, m)
      BY <2>1, <2>2, <2>3 DEF Complete, Quiet, Ready
    <2>5. Steps(k, m, o)
      BY <1>4, <2>4, HostUpSteps DEF m
    <2> QED
      BY <2>1, <2>5 DEF Steps, Relayed, Carries
  <1> QED
    BY <1>2, <1>3, <1>4 DEF HostConnect

\* The client is told, before the host is connected, of a request that is bad or
\* that the rules refuse.
LEMMA AskSteps ==
  ASSUME NEW c \in Conn, NEW k \in AllConfs, k = conf[c], Base(k, cx[c], net[c]),
         NEW x, NEW n, Quiet(k, x, n), k.access => Complete(c, k, x, n), NEW o \in Ask(c, x, n)
  PROVE  Steps(k, n, o)
  <1>1. /\ x \in Contexts /\ x.csock /\ ~x.working /\ n.toHost = <<>> /\ n.toCli = <<>>
        /\ n.hgot = 0 /\ n.got \in Nat /\ 0 <= n.got /\ x.hdr <= n.got /\ Base(k, x, n)
        /\ Answers(n) = {}
    BY DEF Quiet, Base, Streams
  <1>2. CASE o = Outcome(x, Reply(c, n, "fail"), "kill")
    <2> DEFINE m == Reply(c, n, "fail")
    <2>1. Base(k, x, m) /\ m.toHost = n.toHost /\ m.toCli = n.toCli
      BY <1>1, Replied
    <2> HIDE DEF m
    <2>2. Asked(k, Outcome(x, m, "kill"))
      BY <1>1, <2>1, AskEnds
    <2> QED
      BY <1>2, <2>2 DEF Steps, m
  <1>3. CASE k.access /\ o \in HostConnect(c, x, n)
    BY <1>3, HostConnectSteps
  <1>4. ASSUME ~k.access, NEW h \in {x.hdr, 0},
               o = Outcome([x EXCEPT !.pcall = "redirecting", !.hdr = h], Reply(c, n, "granted"), "continue")
        PROVE  Steps(k, n, o)
    <2> DEFINE y == [x EXCEPT !.pcall = "redirecting", !.hdr = h]
               m == Reply(c, n, "granted")
    <2>1. h \in Nat /\ h <= n.got
      BY <1>1 DEF Contexts
    <2>2. /\ y \in Contexts /\ y.hdr = h /\ y.csock /\ ~y.working /\ y.pcall = "redirecting"
      BY <1>1, <2>1 DEF Contexts, Points
    <2>3. /\ Base(k, x, m) /\ m.toHost = n.toHost /\ m.toCli = n.toCli /\ m.got = n.got
          /\ m.hgot = n.hgot
      <3>1. Base(k, x, n) /\ Answers(n) = {}
        BY <1>1
      <3> HIDE DEF y
      <3> QED
        BY <3>1, Replied
    <2> HIDE DEF y, m
    <2>4. Base(k, y, m)
      BY <2>1, <2>2, <2>3, OtherContext
    <2>5. Asking(k, y, m) /\ y.pcall \notin Relaying
      BY <1>1, <1>4, <2>2, <2>3 DEF Asking, Relaying
    <2>6. Asked(k, Outcome(y, m, "continue"))
      BY <2>2, <2>4, <2>5, AsksOn
    <2> QED
      BY <1>4, <2>6 DEF Steps, y, m
  <1>5. \/ o = Outcome(x, Reply(c, n, "fail"), "kill")
        \/ k.access /\ o \in HostConnect(c, x, n)
        \/ ~k.access /\ \E h \in {x.hdr, 0} :
             o = Outcome([x EXCEPT !.pcall = "redirecting", !.hdr = h], Reply(c, n, "granted"), "continue")
    BY DEF Ask
  <1> QED
    BY <1>2, <1>3, <1>4, <1>5

\* A context that asks.
Asks(c, k) ==
  /\ k = conf[c] /\ Base(k, cx[c], net[c]) /\ cx[c].csock
  /\ cx[c].pcall \notin Relaying /\ Asking(k, cx[c], net[c])

\* What it receives goes to its header and changes nothing else.
LEMMA ReceivedQuiet ==
  ASSUME NEW c \in Conn, NEW k \in AllConfs, Asks(c, k), cx[c].pcall # "redirecting",
         NEW r \in Received(c)
  PROVE  LET a == RecSome(c, r)
         IN  /\ Quiet(k, a.x, a.n) /\ a.n.got - a.x.hdr = net[c].got - cx[c].hdr
             /\ a.x.pcall = cx[c].pcall /\ a.x \in Contexts
             /\ a.x.hdr \in Nat /\ a.n.got \in Nat /\ a.x.hdr <= a.n.got
             /\ \A w : HasReply(a.n, w) <=> HasReply(net[c], w)
             /\ a.n.got <= a.n.sent /\ a.n.sent \in Nat
  <1> DEFINE x == RecSome(c, r).x
             n == RecSome(c, r).n
  <1>1. /\ Base(k, x, n) /\ n.got - x.hdr = net[c].got - cx[c].hdr
        /\ x.pcall = cx[c].pcall /\ x.working = cx[c].working /\ x.csock = cx[c].csock
        /\ n.toHost = net[c].toHost /\ n.toCli = net[c].toCli /\ n.hgot = net[c].hgot
        /\ n.replies = net[c].replies
    <2>1. Base(k, cx[c], net[c])
      BY DEF Asks
    <2> QED
      BY <2>1, RecSomeKeeps
  <1> HIDE DEF x, n
  <1>2. Answers(n) = {}
    BY <1>1 DEF Answers, Asks, Asking
  <1>3. Quiet(k, x, n)
    BY <1>1, <1>2 DEF Quiet, Asks, Asking
  <1>4. x \in Contexts /\ x.hdr \in Nat /\ n.got \in Nat /\ x.hdr <= n.got /\ n.got <= n.sent /\ n.sent \in Nat
    BY <1>1 DEF Base, Contexts, Streams
  <1>5. \A w : HasReply(n, w) <=> HasReply(net[c], w)
    BY <1>1 DEF HasReply
  <1> QED
    BY <1>1, <1>3, <1>4, <1>5 DEF x, n

\* Ctx5: the greeting is no longer than it has to be.
LEMMA GreetSteps ==
  ASSUME NEW c \in Conn, NEW k \in AllConfs, Asks(c, k), cx[c].pcall = "hello",
         k.kind = "socks5", NEW o \in Greet(c)
  PROVE  Asked(k, o)
  <1>0. k = conf[c]
    BY DEF Asks
  <1>1. PICK r \in Received(c) :
          LET a == RecSome(c, r)
          IN  \/ o = Outcome(a.x, a.n, "continue") /\ a.x.hdr < 1
              \/ /\ ~(a.x.hdr < 1)
                 /\ o = Outcome([a.x EXCEPT !.hdr = 0, !.pcall = "negociate"],
                                Reply(c, a.n, "method"), "continue")
              \/ \E code \in {"fail", "method"} : o = Outcome(a.x, Reply(c, a.n, code), "kill")
    BY DEF Greet
  <1> DEFINE x == RecSome(c, r).x
             n == RecSome(c, r).n
  <1>2. /\ Quiet(k, x, n) /\ n.got - x.hdr = net[c].got - cx[c].hdr
        /\ x.pcall = cx[c].pcall /\ x \in Contexts
        /\ x.hdr \in Nat /\ n.got \in Nat /\ x.hdr <= n.got
        /\ \A w : HasReply(n, w) <=> HasReply(net[c], w)
        /\ n.got <= n.sent /\ n.sent \in Nat
    <2>1. cx[c].pcall # "redirecting"
      OBVIOUS
    <2> QED
      BY <2>1, ReceivedQuiet
  <1>3. \/ o = Outcome(x, n, "continue") /\ x.hdr < 1
        \/ /\ ~(x.hdr < 1)
           /\ o = Outcome([x EXCEPT !.hdr = 0, !.pcall = "negociate"], Reply(c, n, "method"), "continue")
        \/ \E code \in {"fail", "method"} : o = Outcome(x, Reply(c, n, code), "kill")
    BY <1>1
  <1> HIDE DEF x, n
  <1>4. x.hdr = n.got /\ ~HasReply(n, "method")
    <2>1. net[c].got \in Nat /\ cx[c].hdr = net[c].got /\ ~HasReply(net[c], "method")
      BY DEF Asks, Asking, Base, Streams
    <2> QED
      BY <1>2, <2>1
  <1>5. n.got <= 1
    <2>1. n.sent <= 1
      BY <1>4, <1>2 DEF Quiet, Base, Polite
    <2> QED
      BY <1>2, <2>1
  <1>6. /\ Base(k, x, n) /\ x.csock /\ ~x.working /\ n.toHost = <<>> /\ n.toCli = <<>> /\ n.hgot = 0
        /\ Answers(n) = {}
    BY <1>2 DEF Quiet
  <1>7. CASE o = Outcome(x, n, "continue")
    <2>1. Asking(k, x, n) /\ x.pcall \notin Relaying
      BY <1>2, <1>4, <1>6 DEF Asking, Relaying
    <2> QED
      BY <1>6, <1>7, <2>1, AsksOn
  <1>8. CASE /\ ~(x.hdr < 1)
             /\ o = Outcome([x EXCEPT !.hdr = 0, !.pcall = "negociate"], Reply(c, n, "method"), "continue")
    <2> DEFINE y == [x EXCEPT !.hdr = 0, !.pcall = "negociate"]
               m == Reply(c, n, "method")
    <2>1. /\ y \in Contexts /\ y.hdr = 0 /\ y.csock /\ ~y.working /\ y.pcall = "negociate"
      BY <1>2, <1>6 DEF Contexts, Points
    <2>2. /\ Base(k, x, m) /\ m.toHost = n.toHost /\ m.toCli = n.toCli /\ m.got = n.got
          /\ m.hgot = n.hgot /\ Answers(m) = Answers(n)
      <3>1. Base(k, x, n) /\ Answers(n) = {}
        BY <1>6
      <3> HIDE DEF y
      <3> QED
        BY <1>0, <3>1, Replied
    <2> HIDE DEF y, m
    <2>3. n.got = 1
      BY <1>2, <1>4, <1>5, <1>8
    <2>4. Base(k, y, m)
      BY <1>2, <2>1, <2>2, <2>3, OtherContext
    <2>5. y.hdr + 1 = m.got
      BY <2>1, <2>2, <2>3
    <2>6. Asking(k, y, m) /\ y.pcall \notin Relaying
      BY <1>6, <2>1, <2>2, <2>5 DEF Asking, Relaying
    <2> QED
      BY <1>8, <2>1, <2>4, <2>6, AsksOn DEF y, m
  <1>9. ASSUME NEW code \in {"fail", "method"}, o = Outcome(x, Reply(c, n, code), "kill")
        PROVE  Asked(k, o)
    <2> DEFINE m == Reply(c, n, code)
    <2>1. Base(k, x, m) /\ m.toHost = n.toHost /\ m.toCli = n.toCli
      <3>1. /\ Base(k, x, n) /\ k = conf[c] /\ Answers(n) = {}
            /\ code \in {"granted", "fail", "method"}
        BY <1>0, <1>6, <1>9
      <3> QED
        BY <3>1, Replied
    <2> HIDE DEF m
    <2>2. Asked(k, Outcome(x, m, "kill"))
      BY <1>6, <2>1, AskEnds
    <2> QED
      BY <1>9, <2>2 DEF m
  <1> QED
    BY <1>3, <1>7, <1>8, <1>9

\* A request that has been received is all that the client has sent, unless it
\* is an HTTP client.
LEMMA RequestSteps ==
  ASSUME NEW c \in Conn, NEW k \in AllConfs, Asks(c, k),
         \/ cx[c].pcall = "hello" /\ k.kind \in {"socks4", "http", "tunnel"}
         \/ cx[c].pcall = "negociate",
         NEW o \in Request4Http(c)
  PROVE  Steps(k, net[c], o)
  <1>0. /\ k = conf[c] /\ Base(k, cx[c], net[c]) /\ net[c].got \in Nat /\ cx[c].hdr \in Nat
        /\ net[c].toHost = <<>> /\ net[c].toCli = <<>>
    BY DEF Asks, Asking, Base, Streams, Contexts
  <1>1. PICK r \in Received(c) :
          LET a == RecSome(c, r)
          IN  \/ o = Outcome(a.x, a.n, "continue")
              \/ ~(a.x.hdr < 2) /\ o \in Ask(c, a.x, a.n)
    BY DEF Request4Http
  <1> DEFINE x == RecSome(c, r).x
             n == RecSome(c, r).n
  <1>2. /\ Quiet(k, x, n) /\ n.got - x.hdr = net[c].got - cx[c].hdr
        /\ x.pcall = cx[c].pcall /\ x \in Contexts
        /\ x.hdr \in Nat /\ n.got \in Nat /\ x.hdr <= n.got
        /\ \A w : HasReply(n, w) <=> HasReply(net[c], w)
        /\ n.got <= n.sent /\ n.sent \in Nat
    <2>1. cx[c].pcall # "redirecting"
      OBVIOUS
    <2> QED
      BY <2>1, ReceivedQuiet
  <1>3. \/ o = Outcome(x, n, "continue")
        \/ ~(x.hdr < 2) /\ o \in Ask(c, x, n)
    BY <1>1
  <1> HIDE DEF x, n
  <1>4. /\ Base(k, x, n) /\ x.csock /\ ~x.working /\ n.toHost = <<>> /\ n.toCli = <<>> /\ n.hgot = 0
        /\ Answers(n) = {}
    BY <1>2 DEF Quiet
  <1>5. /\ x.pcall = "hello" => /\ k.kind \in {"socks4", "http", "tunnel"} /\ x.hdr = n.got
        /\ x.pcall = "negociate" => k.kind = "socks5" /\ x.hdr + 1 = n.got
        /\ x.pcall \in {"hello", "negociate"}
    <2>1. /\ cx[c].pcall = "hello" => cx[c].hdr = net[c].got
          /\ cx[c].pcall = "negociate" => k.kind = "socks5" /\ cx[c].hdr + 1 = net[c].got
      BY DEF Asks, Asking
    <2> QED
      BY <1>0, <1>2, <2>1
  <1>6. CASE o = Outcome(x, n, "continue")
    <2>1. Asking(k, x, n) /\ x.pcall \notin Relaying
      BY <1>4, <1>5 DEF Asking, Relaying
    <2>2. Asked(k, o)
      BY <1>4, <1>6, <2>1, AsksOn
    <2> QED
      BY <2>2 DEF Steps
  <1>7. CASE ~(x.hdr < 2) /\ o \in Ask(c, x, n)
    <2>1. k.access => Complete(c, k, x, n)
      <3> SUFFICES ASSUME k.access PROVE Ready(k, x, n) /\ k.kind # "pass"
        BY <1>2 DEF Complete
      <3>1. CASE k.kind = "http"
        BY <1>5, <3>1 DEF Ready, AnswerFirst, Socks
      <3>2. CASE k.kind \in AnswerFirst
        <4>1. ~HasReply(n, "success")
          BY <1>4 DEF HasReply, Answers
        <4>2. n.sent <= Request(k.kind)
          BY <1>4, <3>2, <4>1 DEF Base, Polite
        <4>3. /\ k.kind = "socks5" => Request(k.kind) = 3 /\ x.pcall = "negociate"
              /\ k.kind # "socks5" => Request(k.kind) = 2 /\ x.pcall = "hello"
          BY <1>5, <3>2 DEF Request, AnswerFirst, Socks
        <4>4. n.got = Request(k.kind)
          <5>1. CASE k.kind = "socks5"
            BY <1>2, <1>5, <1>7, <4>2, <4>3, <5>1
          <5>2. CASE k.kind # "socks5"
            BY <1>2, <1>5, <1>7, <4>2, <4>3, <5>2
          <5> QED
            BY <5>1, <5>2
        <4>5. k.kind \notin {"http", "dns", "pass"}
          BY <3>2 DEF AnswerFirst, Socks
        <4> QED
          BY <4>4, <4>5 DEF Ready
      <3> QED
        BY <1>5, <3>1, <3>2 DEF AnswerFirst, Socks
    <2>2. Steps(k, n, o)
      BY <1>0, <1>2, <1>7, <2>1, AskSteps
    <2>3. n.toHost = net[c].toHost /\ n.toCli = net[c].toCli
      BY <1>0, <1>4
    <2> QED
      BY <2>2, <2>3 DEF Steps, Relayed, Carries
  <1> QED
    BY <1>3, <1>6, <1>7

\* A DNS context that has a request, and a plain one, go on to their host.
LEMMA DnsHelloAsks ==
  ASSUME NEW c \in Conn, NEW k \in AllConfs, Asks(c, k), cx[c].pcall = "hello",
         k.kind = "dns", NEW o \in DnsHello(c)
  PROVE  Asked(k, o)
  <1>1. PICK r \in Received(c) :
          LET a == RecSome(c, r)
          IN  \/ o = Outcome(a.x, a.n, "kill")
              \/ \E p \in {a.x.pcall, "getHost"} :
                   o = Outcome([a.x EXCEPT !.pcall = p], a.n, "continue")
    BY DEF DnsHello
  <1> DEFINE x == RecSome(c, r).x
             n == RecSome(c, r).n
  <1>2. /\ Quiet(k, x, n) /\ n.got - x.hdr = net[c].got - cx[c].hdr
        /\ x.pcall = cx[c].pcall /\ x \in Contexts
        /\ x.hdr \in Nat /\ n.got \in Nat /\ x.hdr <= n.got
        /\ \A w : HasReply(n, w) <=> HasReply(net[c], w)
        /\ n.got <= n.sent /\ n.sent \in Nat
    <2>1. cx[c].pcall # "redirecting"
      OBVIOUS
    <2> QED
      BY <2>1, ReceivedQuiet
  <1>3. \/ o = Outcome(x, n, "kill")
        \/ \E p \in {"hello", "getHost"} : o = Outcome([x EXCEPT !.pcall = p], n, "continue")
    BY <1>1, <1>2
  <1> HIDE DEF x, n
  <1>4. /\ Base(k, x, n) /\ x.csock /\ ~x.working /\ n.toHost = <<>> /\ n.toCli = <<>> /\ n.hgot = 0
        /\ Answers(n) = {}
    BY <1>2 DEF Quiet
  <1>5. x.hdr = n.got
    <2>1. net[c].got \in Nat /\ cx[c].hdr = net[c].got
      BY DEF Asks, Asking, Base, Streams
    <2> QED
      BY <1>2, <2>1
  <1>6. CASE o = Outcome(x, n, "kill")
    BY <1>4, <1>6, AskEnds
  <1>7. ASSUME NEW p \in {"hello", "getHost"}, o = Outcome([x EXCEPT !.pcall = p], n, "continue")
        PROVE  Asked(k, o)
    <2> DEFINE y == [x EXCEPT !.pcall = p]
    <2>1. /\ y \in Contexts /\ y.hdr = x.hdr /\ y.csock /\ ~y.working /\ y.pcall = p
      BY <1>2, <1>4 DEF Contexts, Points
    <2> HIDE DEF y
    <2>2. Base(k, y, n)
      BY <1>2, <1>4, <2>1, OtherContext
    <2>3. Asking(k, y, n) /\ y.pcall \notin Relaying
      BY <1>4, <1>5, <2>1 DEF Asking, Relaying
    <2> QED
      BY <1>7, <2>1, <2>2, <2>3, AsksOn DEF y
  <1> QED
    BY <1>3, <1>6, <1>7

\* A context that asks has been silent, unless it redirects the client.
LEMMA AsksQuiet ==
  ASSUME NEW c \in Conn, NEW k \in AllConfs, Asks(c, k), cx[c].pcall # "redirecting"
  PROVE  /\ Quiet(k, cx[c], net[c])
         /\ Ready(k, cx[c], net[c]) => Complete(c, k, cx[c], net[c])
  BY DEF Asks, Asking, Quiet, Complete

\* The first state of every protocol.
LEMMA HelloSteps ==
  ASSUME NEW c \in Conn, NEW k \in AllConfs, Asks(c, k), cx[c].pcall = "hello", NEW o \in Hello(c)
  PROVE  Steps(k, net[c], o)
  <1>0. k = conf[c] /\ Base(k, cx[c], net[c]) /\ cx[c].pcall # "redirecting"
    BY DEF Asks
  <1>1. CASE k.kind = "socks5"
    <2>1. o \in Greet(c)
      BY <1>0, <1>1 DEF Hello
    <2> QED
      BY <1>1, <2>1, GreetSteps DEF Steps
  <1>2. CASE k.kind \in {"socks4", "http", "tunnel"}
    <2>1. o \in Request4Http(c)
      BY <1>0, <1>2 DEF Hello
    <2> QED
      BY <1>2, <2>1, RequestSteps
  <1>3. CASE k.kind = "dns"
    <2>1. o \in DnsHello(c)
      BY <1>0, <1>3 DEF Hello
    <2> QED
      BY <1>3, <2>1, DnsHelloAsks DEF Steps
  <1>4. CASE k.kind = "pass"
    <2>1. o = Outcome(cx[c], net[c], "kill") \/ o \in HostConnect(c, cx[c], net[c])
      BY <1>0, <1>4 DEF Hello
    <2>2. Complete(c, k, cx[c], net[c])
      <3>1. k.access /\ cx[c].hdr = net[c].got /\ net[c].got = 0 /\ k.kind \notin AnswerFirst
        BY <1>4, ConfType DEF Asks, Asking, AnswerFirst, Socks
      <3>2. Ready(k, cx[c], net[c])
        BY <1>4, <3>1 DEF Ready
      <3> QED
        BY <1>0, <3>2, AsksQuiet
    <2>3. CASE o = Outcome(cx[c], net[c], "kill")
      BY <1>0, <2>2, <2>3, CompleteEnds DEF Steps
    <2>4. CASE o \in HostConnect(c, cx[c], net[c])
      BY <1>0, <2>2, <2>4, HostConnectSteps
    <2> QED
      BY <2>1, <2>3, <2>4
  <1> QED
    BY <1>1, <1>2, <1>3, <1>4, ConfType DEF AllKinds

\* CtxDns::_get_hostname.
LEMMA GetHostnameSteps ==
  ASSUME NEW c \in Conn, NEW k \in AllConfs, Asks(c, k), cx[c].pcall = "getHost",
         NEW o \in GetHostname(c)
  PROVE  Steps(k, net[c], o)
  <1>0. k = conf[c] /\ Base(k, cx[c], net[c]) /\ cx[c].pcall # "redirecting"
    BY DEF Asks
  <1>1. k.kind = "dns" /\ cx[c].hdr = net[c].got
    BY DEF Asks, Asking
  <1>2. Ready(k, cx[c], net[c])
    <2>1. k.access /\ k.kind \notin AnswerFirst
      BY <1>1, ConfType DEF AnswerFirst, Socks
    <2> QED
      BY <1>1, <2>1 DEF Ready
  <1>3. Complete(c, k, cx[c], net[c])
    BY <1>0, <1>2, AsksQuiet
  <1>4. CASE o = Outcome(cx[c], net[c], "kill")
    BY <1>0, <1>3, <1>4, CompleteEnds DEF Steps
  <1>5. CASE o \in HostConnect(c, cx[c], net[c])
    BY <1>0, <1>3, <1>5, HostConnectSteps
  <1> QED
    BY <1>4, <1>5 DEF GetHostname

\* The host is still on its way, is not to be reached, or is there.
LEMMA PendingSteps ==
  ASSUME NEW c \in Conn, NEW k \in AllConfs, Asks(c, k), cx[c].pcall = "pending",
         NEW o \in Pending(c)
  PROVE  Steps(k, net[c], o)
  <1>0. k = conf[c] /\ Base(k, cx[c], net[c]) /\ cx[c].pcall # "redirecting"
    BY DEF Asks
  <1> DEFINE x == cx[c]
             n == net[c]
             y == [x EXCEPT !.rsock = "up", !.pcall = "connected"]
  <1>1. Complete(c, k, x, n)
    BY <1>0, AsksQuiet DEF Asks, Asking
  <1>2. x \in Contexts /\ x.csock /\ ~x.working
    BY <1>1 DEF Complete, Quiet, Base
  <1>3. y \in Contexts /\ y.hdr = x.hdr /\ y.csock /\ ~y.working /\ y.pcall = "connected"
    BY <1>2 DEF Contexts, Points
  <1>4. \/ o = Outcome(x, n, "continue") \/ o = Outcome(x, Reply(c, n, "fail"), "kill")
        \/ o \in HostUp(c, x, n) \/ o = Outcome(y, n, "continue")
    BY DEF Pending
  <1> HIDE DEF y
  <1>5. CASE o = Outcome(x, n, "continue")
    BY <1>1, <1>5, CompleteAsks DEF Steps
  <1>6. CASE o = Outcome(x, Reply(c, n, "fail"), "kill")
    BY <1>0, <1>1, <1>6, CompleteEnds DEF Steps
  <1>7. CASE o \in HostUp(c, x, n)
    BY <1>0, <1>1, <1>7, HostUpSteps
  <1>8. CASE o = Outcome(y, n, "continue")
    <2>1. Complete(c, k, y, n)
      BY <1>1, <1>3, CompleteKeeps
    <2> QED
      BY <1>3, <1>8, <2>1, CompleteAsks DEF Steps
  <1> QED
    BY <1>4, <1>5, <1>6, <1>7, <1>8

\* Ctx::_redirecting: a client the rules refuse is redirected, and that is all.
LEMMA RedirectingEnds ==
  ASSUME NEW c \in Conn, NEW k \in AllConfs, Asks(c, k), cx[c].pcall = "redirecting",
         NEW o \in Redirecting(c)
  PROVE  Asked(k, o)
  <1>1. PICK r \in Received(c) :
          LET a == RecSome(c, r)
          IN  o = Outcome(a.x, [a.n EXCEPT !.replies = Append(@, "redirect")], "kill")
    BY DEF Redirecting
  <1> DEFINE x == RecSome(c, r).x
             n == RecSome(c, r).n
             m == [n EXCEPT !.replies = Append(@, "redirect")]
  <1>2. ~k.access /\ net[c].toHost = <<>> /\ net[c].toCli = <<>> /\ Base(k, cx[c], net[c])
    BY DEF Asks, Asking
  <1>3. Base(k, x, n) /\ n.toHost = <<>> /\ n.toCli = <<>>
    BY <1>2, RecSomeKeeps
  <1> HIDE DEF x, n
  <1>4. Base(k, x, m) /\ m.toHost = n.toHost /\ m.toCli = n.toCli
    <2>1. "redirect" \in Codes
      BY DEF Codes
    <2>2. m = Saying(n, "redirect")
      BY DEF Saying
    <2> HIDE DEF m
    <2> QED
      BY <1>2, <1>3, <2>1, <2>2, Said
  <1>5. o = Outcome(x, m, "kill")
    BY <1>1 DEF x, n
  <1> HIDE DEF m
  <1> QED
    BY <1>3, <1>4, <1>5, AskEnds

-----------------------------------------------------------------------------
(* The invariant.                                                          *)

\* A step that changes one connection, and keeps what holds of it.
LEMMA OneConn ==
  ASSUME Types, Conns, NEW c \in Conn, NEW y, NEW m,
         conf' = conf, cx' = [cx EXCEPT ![c] = y], net' = [net EXCEPT ![c] = m],
         Base(conf[c], y, m), Phase(conf[c], y, m),
         ~crashed, ~crashed' => Flow(conf[c], y, m)
  PROVE  Types' /\ Conns'
  <1>1. y \in Contexts /\ m \in Streams
    BY DEF Base
  <1>2. Types'
    BY <1>1 DEF Types
  <1>3. ASSUME NEW d \in Conn PROVE ConnInv(d)'
    <2>1. CASE d = c
      <3>1. conf'[d] = conf[c] /\ cx'[d] = y /\ net'[d] = m
        BY <2>1 DEF Types
      <3>2. conf[c] \in Confs[c] /\ conf[c] \in AllConfs
        BY DEF Conns, ConnInv
      <3> QED
        BY <2>1, <3>1, <3>2 DEF ConnInv
    <2>2. CASE d # c
      <3>1. conf'[d] = conf[d] /\ cx'[d] = cx[d] /\ net'[d] = net[d]
        BY <2>2 DEF Types
      <3>2. ConnInv(d)
        BY DEF Conns
      <3> QED
        BY <3>1, <3>2 DEF ConnInv
    <2> QED
      BY <2>1, <2>2
  <1> QED
    BY <1>2, <1>3 DEF Conns

\* A handler returns what its context may go on with.
LEMMA SpinSteps ==
  ASSUME Types, Conns, NEW c \in Conn, Spin(c)
  PROVE  /\ Comes(c, "spin") /\ IsOpen(cx[c])
         /\ \E o : /\ Returns(c, o) /\ Steps(conf[c], net[c], o)
                   /\ cx[c].pcall \in Relaying => Relayed(conf[c], net[c], o)
  <1>1. Comes(c, "spin") /\ IsOpen(cx[c])
    BY DEF Spin, SpinHello, SpinNegociate, SpinGetHostname, SpinPending, SpinSslConnect,
           SpinConnected, SpinRedirecting, SpinIo, SpinEmptyHost, Spins
  <1> DEFINE k == conf[c]
  <1>2. /\ k \in AllConfs /\ Base(k, cx[c], net[c]) /\ Phase(k, cx[c], net[c])
        /\ Flow(k, cx[c], net[c]) /\ k = conf[c]
    BY <1>1 DEF Conns, ConnInv, Comes
  <1>3. cx[c].csock
    BY <1>1, <1>2 DEF IsOpen, Base
  <1>4. cx[c].pcall \in Relaying => Relays(k, cx[c], net[c])
    BY <1>2, <1>3 DEF Relays, Phase
  <1>5. cx[c].pcall \notin Relaying => Asks(c, k)
    BY <1>2, <1>3 DEF Asks, Phase
  <1> HIDE DEF k
  <1>6. ASSUME NEW o, Returns(c, o), Steps(k, net[c], o), cx[c].pcall \notin Relaying
        PROVE  \E e : /\ Returns(c, e) /\ Steps(k, net[c], e)
                      /\ cx[c].pcall \in Relaying => Relayed(k, net[c], e)
    BY <1>6
  <1>7. ASSUME NEW o, Returns(c, o), Relayed(k, net[c], o)
        PROVE  \E e : /\ Returns(c, e) /\ Steps(k, net[c], e)
                      /\ cx[c].pcall \in Relaying => Relayed(k, net[c], e)
    BY <1>7 DEF Steps
  <1>8. CASE SpinHello(c)
    <2>1. cx[c].pcall = "hello" /\ \E o \in Hello(c) : Returns(c, o)
      BY <1>8 DEF SpinHello, Spins
    <2>2. cx[c].pcall \notin Relaying
      BY <2>1 DEF Relaying
    <2> QED
      BY <1>1, <1>2, <1>5, <1>6, <2>1, <2>2, HelloSteps DEF k
  <1>9. CASE SpinNegociate(c)
    <2>1. cx[c].pcall = "negociate" /\ \E o \in Request4Http(c) : Returns(c, o)
      BY <1>9 DEF SpinNegociate, Spins
    <2>2. cx[c].pcall \notin Relaying
      BY <2>1 DEF Relaying
    <2> QED
      BY <1>1, <1>2, <1>5, <1>6, <2>1, <2>2, RequestSteps DEF k
  <1>10. CASE SpinGetHostname(c)
    <2>1. cx[c].pcall = "getHost" /\ \E o \in GetHostname(c) : Returns(c, o)
      BY <1>10 DEF SpinGetHostname, Spins
    <2>2. cx[c].pcall \notin Relaying
      BY <2>1 DEF Relaying
    <2> QED
      BY <1>1, <1>2, <1>5, <1>6, <2>1, <2>2, GetHostnameSteps DEF k
  <1>11. CASE SpinPending(c)
    <2>1. cx[c].pcall = "pending" /\ \E o \in Pending(c) : Returns(c, o)
      BY <1>11 DEF SpinPending, Spins
    <2>2. cx[c].pcall \notin Relaying
      BY <2>1 DEF Relaying
    <2> QED
      BY <1>1, <1>2, <1>5, <1>6, <2>1, <2>2, PendingSteps DEF k
  <1>12. CASE SpinSslConnect(c)
    <2>1. cx[c].pcall = "sslConnect" /\ \E o \in SslConnect(c, cx[c], net[c]) : Returns(c, o)
      BY <1>12 DEF SpinSslConnect, Spins
    <2>2. cx[c].pcall \notin Relaying
      BY <2>1 DEF Relaying
    <2>3. Complete(c, k, cx[c], net[c])
      BY <1>2, <1>5, <2>1, <2>2, AsksQuiet DEF Asks, Asking
    <2>4. PICK o \in SslConnect(c, cx[c], net[c]) : Returns(c, o)
      BY <2>1
    <2>5. Asked(k, o)
      BY <1>2, <2>3, SslConnectAsks
    <2> QED
      BY <1>1, <1>6, <2>2, <2>4, <2>5 DEF Steps, k
  <1>13. CASE SpinConnected(c)
    <2>1. cx[c].pcall = "connected" /\ \E o \in Connected(c, cx[c], net[c]) : Returns(c, o)
      BY <1>13 DEF SpinConnected, Spins
    <2>2. cx[c].pcall \notin Relaying
      BY <2>1 DEF Relaying
    <2>3. Complete(c, k, cx[c], net[c])
      BY <1>2, <1>5, <2>1, <2>2, AsksQuiet DEF Asks, Asking
    <2>4. PICK o \in Connected(c, cx[c], net[c]) : Returns(c, o)
      BY <2>1
    <2>5. Relayed(k, net[c], o)
      BY <1>2, <2>3, ConnectedGrants
    <2> QED
      BY <1>1, <1>7, <2>4, <2>5 DEF k
  <1>14. CASE SpinRedirecting(c)
    <2>1. cx[c].pcall = "redirecting" /\ \E o \in Redirecting(c) : Returns(c, o)
      BY <1>14 DEF SpinRedirecting, Spins
    <2>2. cx[c].pcall \notin Relaying
      BY <2>1 DEF Relaying
    <2>3. PICK o \in Redirecting(c) : Returns(c, o)
      BY <2>1
    <2>4. Asked(k, o)
      BY <1>2, <1>5, <2>1, <2>2, RedirectingEnds
    <2> QED
      BY <1>1, <1>6, <2>2, <2>3, <2>4 DEF Steps, k
  <1>15. CASE SpinIo(c)
    <2>1. cx[c].pcall = "io" /\ \E o \in Io(c) : Returns(c, o)
      BY <1>15 DEF SpinIo, Spins
    <2>2. PICK o \in Io(c) : Returns(c, o)
      BY <2>1
    <2>3. Relayed(k, net[c], o)
      BY <1>2, <1>4, <2>1, IoRelays DEF Relaying
    <2> QED
      BY <1>1, <1>7, <2>2, <2>3 DEF k
  <1>16. CASE SpinEmptyHost(c)
    <2>1. cx[c].pcall = "emptyHost" /\ \E o \in EmptyHost(c) : Returns(c, o)
      BY <1>16 DEF SpinEmptyHost, Spins
    <2>2. PICK o \in EmptyHost(c) : Returns(c, o)
      BY <2>1
    <2>3. k.kind = "http"
      BY <1>4, <2>1 DEF Relays, Granting, Relaying
    <2>4. Relayed(k, net[c], o)
      BY <1>2, <1>4, <2>1, <2>3, EmptyHostRelays DEF Relaying
    <2> QED
      BY <1>1, <1>7, <2>2, <2>4 DEF k
  <1>17. \/ SpinHello(c) \/ SpinNegociate(c) \/ SpinGetHostname(c) \/ SpinPending(c)
         \/ SpinSslConnect(c) \/ SpinConnected(c) \/ SpinRedirecting(c) \/ SpinIo(c)
         \/ SpinEmptyHost(c)
    BY DEF Spin
  <1> QED
    BY <1>8, <1>9, <1>10, <1>11, <1>12, <1>13, <1>14, <1>15, <1>16, <1>17

\* A context that has been spun.
LEMMA SpinKeeps ==
  ASSUME Inv, NEW c \in Conn, Spin(c)
  PROVE  Inv'
  <1>0. Types /\ Conns /\ LoopInv
    BY DEF Inv
  <1>1. PICK o : /\ Comes(c, "spin") /\ IsOpen(cx[c])
                 /\ Returns(c, o) /\ Steps(conf[c], net[c], o)
    BY <1>0, SpinSteps
  <1> DEFINE y == IF o.rv = "kill" THEN Destroyed(o.x) ELSE o.x
             k == conf[c]
  <1>2. Sound(k, o)
    BY <1>1 DEF Steps, Relayed, Asked
  <1>3. /\ ~crashed /\ conf' = conf /\ crashed' = (o.rv = "throw")
        /\ cx' = [cx EXCEPT ![c] = y] /\ net' = [net EXCEPT ![c] = o.n]
    BY <1>1 DEF Returns, Spun, Comes
  <1>4. Base(k, y, o.n) /\ Phase(k, y, o.n) /\ (~crashed' => Flow(k, y, o.n))
    <2>1. CASE o.rv = "kill"
      <3>1. y = Destroyed(o.x) /\ Base(k, o.x, o.n) /\ o.x \in Contexts /\ o.x.hdr <= o.n.got
        BY <1>2, <2>1 DEF Sound, Base
      <3>2. y \in Contexts /\ y.hdr = o.x.hdr /\ ~y.csock /\ y.rsock = "closed"
        BY <3>1 DEF Destroyed, Contexts
      <3> HIDE DEF y, k
      <3>3. Base(k, y, o.n)
        BY <3>1, <3>2, OtherContext
      <3> QED
        BY <3>2, <3>3 DEF Phase, Flow
    <2>2. CASE o.rv # "kill"
      <3>1. y = o.x
        BY <2>2
      <3> HIDE DEF y, k
      <3> QED
        BY <1>2, <1>3, <2>2, <3>1 DEF Sound
    <2> QED
      BY <2>1, <2>2
  <1> HIDE DEF y
  <1>5. Types' /\ Conns'
    BY <1>0, <1>3, <1>4, OneConn
  <1>6. LoopInv'
    <2>1. /\ stage = "spin" /\ at <= Len(bucket) /\ taken' = taken /\ bucket' = bucket
          /\ turn' = IF turn = "ended" \/ o.rv \in {"kill", "done"} THEN "ended" ELSE "spun"
          /\ old' = (o.rv # "continue") /\ AfterSpin
      BY <1>1 DEF Returns, Spun, Comes
    <2>2. at' \in 1..Len(bucket') + 1 /\ stage' \in {"spin", "sweep"}
      <3>1. at \in Nat /\ at \in 1..Len(bucket) + 1 /\ Len(bucket) \in Nat
        BY <1>0, LenProperties DEF LoopInv
      <3> QED
        BY <2>1, <3>1 DEF AfterSpin
    <2>3. turn' = "spun" /\ ~crashed' => ~old'
      BY <1>2, <1>3, <2>1 DEF Sound
    <2> QED
      BY <1>0, <1>3, <2>1, <2>2, <2>3 DEF LoopInv
  <1>7. CrashCulprit'
    <2> SUFFICES ASSUME o.rv = "throw" PROVE CrashCulprit'
      BY <1>3 DEF CrashCulprit
    <2>1. /\ k.kind \in AnswerFirst /\ o.x.pcall = "io" /\ HasReply(o.n, "success") /\ y = o.x
      BY <1>2 DEF Sound, y
    <2>2. cx'[c] = y /\ net'[c] = o.n /\ conf'[c] = k
      BY <1>0, <1>3 DEF Types
    <2> HIDE DEF k
    <2>3. conf'[c].kind \in AnswerFirst /\ cx'[c].pcall = "io"
      BY <2>1, <2>2
    <2>4. \E i \in DOMAIN net'[c].replies : net'[c].replies[i] = "success"
      BY <2>1, <2>2 DEF HasReply
    <2> QED
      BY <2>3, <2>4 DEF CrashCulprit, Answered, AnswerFirst
  <1> QED
    BY <1>5, <1>6, <1>7 DEF Inv

\* The sweep destroys an idle context, and takes it off the bucket.
LEMMA SweepKeeps ==
  ASSUME Inv, NEW c \in Conn, Sweep(c)
  PROVE  Inv'
  <1>0. Types /\ Conns /\ LoopInv /\ ~crashed /\ ~crashed' /\ crashed' = crashed
    BY DEF Inv, Sweep, Comes
  <1> DEFINE k == conf[c]
             x == cx[c]
             n == net[c]
             asked == old \/ ~IsOpen(x)
             idle == asked /\ ~x.moved
             z == IF idle THEN Destroyed(x) ELSE x
             y == [z EXCEPT !.moved = @ /\ ~asked]
             m == IF idle /\ x.csock /\ ~x.working THEN Reply(c, n, "fail") ELSE n
             rest == IF IsOpen(y) THEN bucket ELSE SwapRemove(bucket, at)
             over == at >= Len(rest)
  <1>1. /\ k \in AllConfs /\ Base(k, x, n) /\ Phase(k, x, n) /\ Flow(k, x, n) /\ x \in Contexts
        /\ n \in Streams
    BY <1>0 DEF Conns, ConnInv, Base
  <1>2. /\ stage = "sweep" /\ at <= Len(bucket) /\ taken' = taken /\ conf' = conf
        /\ cx' = [cx EXCEPT ![c] = y] /\ bucket' = rest
        /\ at' = IF over THEN 1 ELSE at + 1
        /\ stage' = IF over THEN "select" ELSE "sweep"
        /\ old' = (old /\ ~over) /\ turn' = IF over THEN "quiet" ELSE turn
    BY DEF Sweep, Comes
  <1>3. net' = [net EXCEPT ![c] = m]
    BY DEF Sweep
  <1>4. /\ y \in Contexts /\ y.hdr = x.hdr /\ y.pcall = x.pcall /\ y.working = x.working
        /\ idle => ~y.csock /\ y.rsock = "closed"
        /\ ~idle => y.csock = x.csock /\ y.rsock = x.rsock
    <2>1. /\ z \in Contexts /\ z.hdr = x.hdr /\ z.pcall = x.pcall /\ z.working = x.working
          /\ idle => ~z.csock /\ z.rsock = "closed"
          /\ ~idle => z.csock = x.csock /\ z.rsock = x.rsock
      <3>1. CASE idle
        <4>1. z = [x EXCEPT !.csock = FALSE, !.rsock = "closed"]
          BY <3>1 DEF Destroyed
        <4> HIDE DEF x, z, idle
        <4> QED
          BY <1>1, <3>1, <4>1 DEF Contexts
      <3>2. CASE ~idle
        <4>1. z = x
          BY <3>2
        <4> HIDE DEF x, z, idle
        <4> QED
          BY <1>1, <3>2, <4>1
      <3> QED
        BY <3>1, <3>2
    <2>2. z.moved \in BOOLEAN /\ (z.moved /\ ~asked) \in BOOLEAN
      BY <2>1 DEF Contexts
    <2>3. PICK b \in BOOLEAN : b = (z.moved /\ ~asked)
      BY <2>2
    <2>4. y = [z EXCEPT !.moved = b]
      BY <2>3
    <2> HIDE DEF x, z, idle, asked, y
    <2> QED
      BY <2>1, <2>4 DEF Contexts
  <1>5. /\ Base(k, x, m) /\ m.got = n.got
        /\ ~idle => m = n
    <2>1. CASE idle /\ x.csock /\ ~x.working
      <3>1. k.kind \in Socks /\ k.access => Answers(n) = {}
        BY <1>1, <2>1 DEF Phase, Granting, Asking, Socks
      <3>2. m = Reply(c, n, "fail")
        BY <2>1
      <3> HIDE DEF x, n, m, idle
      <3>3. Base(k, x, m) /\ m.got = n.got
        BY <1>1, <3>1, <3>2, Replied
      <3> QED
        BY <2>1, <3>3
    <2>2. CASE ~(idle /\ x.csock /\ ~x.working)
      <3>1. m = n
        BY <2>2
      <3> HIDE DEF x, n, m, idle
      <3> QED
        BY <1>1, <3>1
    <2> QED
      BY <2>1, <2>2
  <1> HIDE DEF x, n, m, idle, y
  <1>6. Base(k, y, m) /\ Phase(k, y, m) /\ Flow(k, y, m)
    <2>1. y.hdr <= m.got /\ (y.rsock # "closed" => y.csock)
      BY <1>1, <1>4, <1>5 DEF Base
    <2>2. Base(k, y, m)
      BY <1>4, <1>5, <2>1, OtherContext
    <2>3. CASE idle
      BY <1>4, <2>2, <2>3 DEF Phase, Flow
    <2>4. CASE ~idle
      BY <1>1, <1>4, <1>5, <2>2, <2>4
         DEF Phase, Flow, Granting, Asking, Ready, Held
    <2> QED
      BY <2>3, <2>4
  <1>7. Types' /\ Conns'
    BY <1>0, <1>2, <1>3, <1>6, OneConn
  <1>8. LoopInv'
    <2>1. /\ taken \in 0..NConn /\ bucket \in Seq(1..taken) /\ at \in 1..Len(bucket) + 1
          /\ stage \in {"select", "spin", "sweep"} /\ old \in BOOLEAN
          /\ turn \in {"quiet", "spun", "ended"} /\ crashed \in BOOLEAN
          /\ turn = "spun" /\ ~crashed => ~old
      BY <1>0 DEF LoopInv
    <2>2. rest \in Seq(1..taken)
      <3>1. SwapRemove(bucket, at) \in Seq(1..taken)
        <4>1. Len(bucket) \in Nat /\ Len(bucket) # 0 /\ Len(bucket) \in 1..Len(bucket)
          BY <1>2, <2>1, LenProperties
        <4>2. \A j \in 1..Len(bucket) : bucket[j] \in 1..taken
          BY <2>1, ElementOfSeq
        <4>3. \A j \in 1..Len(bucket) - 1 : j \in 1..Len(bucket)
          BY <4>1
        <4>4. Len(bucket) - 1 \in Nat
          BY <4>1
        <4>5. \A j \in 1..Len(bucket) - 1 :
                (IF j = at THEN bucket[Len(bucket)] ELSE bucket[j]) \in 1..taken
          BY <4>1, <4>2, <4>3
        <4> QED
          BY <4>4, <4>5 DEF SwapRemove
      <3> QED
        BY <2>1, <3>1
    <2> HIDE DEF rest
    <2>3. Len(rest) \in Nat /\ at \in Nat
      BY <2>1, <2>2, LenProperties
    <2>4. at' \in 1..Len(rest) + 1
      BY <1>2, <2>3
    <2>5. stage' = "select" => turn' = "quiet"
      BY <1>2
    <2>6. turn' = "spun" /\ ~crashed' => ~old'
      BY <1>0, <1>2, <2>1
    <2>7. /\ turn' \in {"quiet", "spun", "ended"} /\ old' \in BOOLEAN
          /\ stage' \in {"select", "spin", "sweep"}
      BY <1>2, <2>1
    <2> HIDE DEF over
    <2> QED
      BY <1>0, <1>2, <2>1, <2>2, <2>4, <2>5, <2>6, <2>7 DEF LoopInv
  <1> QED
    BY <1>0, <1>7, <1>8 DEF Inv, CrashCulprit

\* The peers, while the worker waits.
LEMMA PeersKeep ==
  ASSUME Inv, NEW c \in Conn, Peers(c)
  PROVE  Inv'
  <1>0. /\ Types /\ Conns /\ LoopInv /\ ~crashed /\ crashed' = crashed /\ UNCHANGED <<conf, cx, loopVars>>
    BY DEF Inv, Peers, ClientSend, ClientClose, HostAnswer, HostSend, HostClose, loopVars
  <1> DEFINE k == conf[c]
             x == cx[c]
             n == net[c]
  <1>1. /\ k \in AllConfs /\ Base(k, x, n) /\ Phase(k, x, n) /\ Flow(k, x, n) /\ n \in Streams
        /\ Request(k.kind) \in 0..3
    BY <1>0, ConfType DEF Conns, ConnInv, Base
  \* what the peer of a connection may change of its streams
  <1>2. ASSUME NEW m \in Streams, net' = [net EXCEPT ![c] = m],
               m.got = n.got /\ m.hgot = n.hgot /\ m.toHost = n.toHost /\ m.toCli = n.toCli,
               m.replies = n.replies,
               n.sent <= m.sent, n.hsent <= m.hsent, m.sent <= Request(k.kind) + k.up, Polite(k, m)
        PROVE  Types' /\ Conns'
    <2> HIDE DEF k, x, n
    <2>1. Answers(m) = Answers(n) /\ \A w : HasReply(m, w) <=> HasReply(n, w)
      BY <1>2 DEF Answers, HasReply
    <2>2. x.hdr <= m.got /\ m.got <= m.sent /\ m.hgot <= m.hsent
      BY <1>1, <1>2 DEF Base, Streams
    <2>3. Base(k, x, m)
      BY <1>1, <1>2, <2>1, <2>2 DEF Base, Single
    <2>4. Phase(k, x, m) /\ Flow(k, x, m)
      BY <1>1, <1>2, <2>1 DEF Phase, Flow, Granting, Asking, Ready
    <2>5. cx' = [cx EXCEPT ![c] = x] /\ conf' = conf
      BY <1>0 DEF Types, x
    <2> QED
      BY <1>0, <1>2, <2>3, <2>4, <2>5, OneConn DEF k
  <1>3. /\ Polite(k, n) /\ n.sent <= Request(k.kind) + k.up /\ n.sent \in Nat /\ n.hsent \in Nat
        /\ n.sent <= n.sent /\ n.hsent <= n.hsent
    BY <1>1 DEF Base, Streams
  <1>4. ASSUME ClientSend(c) PROVE Types' /\ Conns'
    <2>0. PICK e \in Nat : e = n.sent + 1 /\ n.sent <= e
      BY <1>3
    <2> DEFINE m == [n EXCEPT !.sent = e]
    <2>1. /\ m \in Streams /\ m.sent = e
          /\ m.got = n.got /\ m.hgot = n.hgot /\ m.toHost = n.toHost /\ m.toCli = n.toCli
          /\ m.replies = n.replies /\ m.hsent = n.hsent
      <3> HIDE DEF n
      <3> QED
        BY <1>1 DEF Streams
    <2>2. net' = [net EXCEPT ![c] = m]
      BY <1>4, <2>0 DEF ClientSend
    <2>3. /\ e <= Request(k.kind) + k.up
          /\ k.kind = "socks5" /\ e > 1 => HasReply(n, "method")
          /\ k.kind \in AnswerFirst /\ e > Request(k.kind) => HasReply(n, "success")
      BY <1>4, <2>0 DEF ClientSend, MaySend, Answered, HasReply, AnswerFirst, Greeting
    <2> HIDE DEF m, n, k
    <2>4. \A w : HasReply(m, w) <=> HasReply(n, w)
      BY <2>1 DEF HasReply
    <2>5. Polite(k, m)
      BY <1>1, <1>3, <2>1, <2>3, <2>4 DEF Polite
    <2> QED
      BY <1>2, <1>3, <2>0, <2>1, <2>2, <2>3, <2>5
  <1>5. ASSUME HostSend(c) PROVE Types' /\ Conns'
    <2>0. PICK e \in Nat : e = n.hsent + 1 /\ n.hsent <= e
      BY <1>3
    <2> DEFINE m == [n EXCEPT !.hsent = e]
    <2>1. /\ m \in Streams /\ m.hsent = e
          /\ m.got = n.got /\ m.hgot = n.hgot /\ m.toHost = n.toHost /\ m.toCli = n.toCli
          /\ m.replies = n.replies /\ m.sent = n.sent
      <3> HIDE DEF n
      <3> QED
        BY <1>1 DEF Streams
    <2>2. net' = [net EXCEPT ![c] = m]
      BY <1>5, <2>0 DEF HostSend
    <2> HIDE DEF m, n, k
    <2>3. Polite(k, m) /\ n.hsent <= m.hsent
      BY <1>3, <2>0, <2>1 DEF Polite, HasReply
    <2> QED
      BY <1>2, <1>3, <2>1, <2>2, <2>3
  <1>6. ASSUME ClientClose(c) \/ HostClose(c) \/ HostAnswer(c) PROVE Types' /\ Conns'
    <2>1. PICK m \in {[n EXCEPT !.cEnd = TRUE], [n EXCEPT !.hEnd = TRUE],
                      [n EXCEPT !.reach = "yes"], [n EXCEPT !.reach = "no"]} :
            net' = [net EXCEPT ![c] = m]
      BY <1>6 DEF ClientClose, HostClose, HostAnswer
    <2>2. /\ m \in Streams
          /\ m.got = n.got /\ m.hgot = n.hgot /\ m.toHost = n.toHost /\ m.toCli = n.toCli
          /\ m.replies = n.replies /\ m.sent = n.sent /\ m.hsent = n.hsent
      <3> HIDE DEF n
      <3> QED
        BY <1>1, ZenonT(40) DEF Streams
    <2> HIDE DEF n, k
    <2>3. Polite(k, m)
      BY <1>3, <2>2 DEF Polite, HasReply
    <2> QED
      BY <1>2, <1>3, <2>1, <2>2, <2>3
  <1>7. Types' /\ Conns'
    BY <1>4, <1>5, <1>6 DEF Peers
  <1>8. LoopInv'
    BY <1>0 DEF LoopInv, loopVars
  <1> QED
    BY <1>0, <1>7, <1>8 DEF Inv, CrashCulprit

\* The steps of the loop that touch no connection.
LEMMA LoopKeeps ==
  ASSUME Inv, Take \/ Select \/ (\E c \in Conn : Skip(c))
  PROVE  Inv'
  <1>1. UNCHANGED <<conf, cx, net, crashed>> /\ ~crashed
    BY DEF Take, Select, Skip, Comes
  <1>2. Types' /\ CrashCulprit'
    BY <1>1 DEF Inv, Types, CrashCulprit
  <1>3. Conns'
    <2>1. ASSUME NEW c \in Conn PROVE ConnInv(c)'
      <3>1. ConnInv(c)
        BY DEF Inv, Conns
      <3> QED
        BY <1>1, <3>1 DEF ConnInv
    <2> QED
      BY <2>1 DEF Conns
  <1>4. LoopInv'
    <2>1. /\ taken \in 0..NConn /\ bucket \in Seq(1..taken) /\ at \in 1..Len(bucket) + 1
          /\ stage \in {"select", "spin", "sweep"} /\ old \in BOOLEAN
          /\ turn \in {"quiet", "spun", "ended"} /\ crashed \in BOOLEAN
          /\ stage = "select" => turn = "quiet"
          /\ turn = "spun" /\ ~crashed => ~old
          /\ Len(bucket) \in Nat /\ NConn \in Nat
      BY CtxConnAssumption, LenProperties DEF Inv, LoopInv
    <2>2. CASE Take
      <3>1. /\ taken < NConn /\ taken' = taken + 1 /\ bucket' = Append(bucket, taken + 1)
            /\ UNCHANGED <<stage, at, old, turn, crashed>>
        BY <2>2 DEF Take
      <3>2. bucket \in Seq(1..(taken + 1)) /\ taken + 1 \in 1..(taken + 1) /\ taken + 1 \in 0..NConn
        <4>1. \A j \in 1..Len(bucket) : bucket[j] \in 1..(taken + 1)
          <5>1. \A j \in 1..Len(bucket) : bucket[j] \in 1..taken
            BY <2>1, ElementOfSeq
          <5> QED
            BY <2>1, <5>1
        <4>2. bucket = [j \in 1..Len(bucket) |-> bucket[j]]
          BY <2>1, LenProperties
        <4>3. taken + 1 \in 1..(taken + 1) /\ taken + 1 \in 0..NConn
          BY <2>1, <3>1
        <4> QED
          BY <2>1, <4>1, <4>2, <4>3
      <3>3. bucket' \in Seq(1..(taken + 1)) /\ Len(bucket') = Len(bucket) + 1
        BY <3>1, <3>2, AppendProperties
      <3>4. at \in 1..Len(bucket') + 1
        BY <2>1, <3>3
      <3> QED
        BY <2>1, <3>1, <3>2, <3>3, <3>4 DEF LoopInv
    <2>3. CASE Select
      BY <2>1, <2>3 DEF Select, LoopInv
    <2>4. CASE \E c \in Conn : Skip(c)
      <3>1. /\ stage = "spin" /\ at <= Len(bucket) /\ AfterSpin
            /\ UNCHANGED <<taken, bucket, old, turn, crashed>>
        BY <2>4 DEF Skip, Comes
      <3>2. at' \in 1..Len(bucket) + 1 /\ stage' \in {"spin", "sweep"}
        BY <2>1, <3>1 DEF AfterSpin
      <3> QED
        BY <2>1, <3>1, <3>2 DEF LoopInv
    <2> QED
      BY <2>2, <2>3, <2>4
  <1> QED
    BY <1>2, <1>3, <1>4 DEF Inv

\* At the start every connection says hello.
LEMMA Starts == Init => Inv
  <1> SUFFICES ASSUME Init PROVE Inv
    OBVIOUS
  <1> DEFINE x == [pcall |-> "hello", hdr |-> 0, working |-> FALSE,
                   moved |-> FALSE, csock |-> TRUE, rsock |-> "closed"]
             n == [sent |-> 0, got |-> 0, cEnd |-> FALSE, toHost |-> <<>>,
                   hsent |-> 0, hgot |-> 0, hEnd |-> FALSE, toCli |-> <<>>,
                   replies |-> <<>>, reach |-> "unknown"]
  <1>1. /\ conf \in [Conn -> AllConfs] /\ \A c \in Conn : conf[c] \in Confs[c]
        /\ cx = [c \in Conn |-> x] /\ net = [c \in Conn |-> n]
    BY DEF Init
  <1>2. x \in Contexts /\ x.pcall = "hello" /\ x.hdr = 0 /\ x.csock /\ ~x.working /\ x.rsock = "closed"
    BY DEF Contexts, Points
  <1>3. /\ n \in Streams /\ n.sent = 0 /\ n.got = 0 /\ n.toHost = <<>> /\ n.hsent = 0
        /\ n.hgot = 0 /\ n.toCli = <<>> /\ n.replies = <<>>
    BY DEF Streams
  <1> HIDE DEF x, n
  <1>4. Types
    BY <1>1, <1>2, <1>3 DEF Types
  <1>5. Answers(n) = {} /\ \A w : ~HasReply(n, w)
    BY <1>3 DEF Answers, HasReply
  <1>6. ASSUME NEW c \in Conn PROVE ConnInv(c)
    <2> DEFINE k == conf[c]
    <2>1. k \in AllConfs /\ k \in Confs[c] /\ cx[c] = x /\ net[c] = n
      BY <1>1
    <2> HIDE DEF k
    <2>2. Request(k.kind) \in 0..3 /\ k.up \in 0..MaxUp /\ MaxUp \in Nat
      BY <2>1, ConfType, CtxConnAssumption
    <2>3. 0 <= Request(k.kind) + k.up /\ 0 <= Request(k.kind)
      BY <2>2
    <2>4. Base(k, x, n)
      BY <1>2, <1>3, <1>5, <2>3 DEF Base, Polite, Single
    <2>5. Phase(k, x, n) /\ Flow(k, x, n)
      BY <1>2, <1>3, <1>5 DEF Phase, Flow, Relaying, Asking
    <2> QED
      BY <2>1, <2>4, <2>5 DEF ConnInv, k
  <1>7. LoopInv
    <2>1. /\ taken = 0 /\ bucket = <<>> /\ stage = "select" /\ at = 1
          /\ old = FALSE /\ turn = "quiet" /\ crashed = FALSE
      BY DEF Init
    <2>2. Len(bucket) = 0 /\ bucket \in Seq(1..taken)
      BY <2>1
    <2>3. taken \in 0..NConn /\ at \in 1..Len(bucket) + 1
      BY <2>1, <2>2, CtxConnAssumption
    <2> QED
      BY <2>1, <2>2, <2>3 DEF LoopInv
  <1>8. CrashCulprit
    BY DEF Init, CrashCulprit
  <1> QED
    BY <1>4, <1>6, <1>7, <1>8 DEF Inv, Conns

\* Nothing happens to what the invariant is about.
LEMMA Stutters == Inv /\ UNCHANGED vars => Inv'
  <1> SUFFICES ASSUME Inv, UNCHANGED vars PROVE Inv'
    OBVIOUS
  <1>1. UNCHANGED <<conf, cx, net, taken, bucket, stage, at, old, turn, crashed>>
    BY DEF vars, loopVars
  <1>2. ASSUME NEW c \in Conn PROVE ConnInv(c)'
    <2>1. ConnInv(c)
      BY DEF Inv, Conns
    <2> QED
      BY <1>1, <2>1 DEF ConnInv
  <1> QED
    BY <1>1, <1>2 DEF Inv, Types, Conns, LoopInv, CrashCulprit, Answered

\* The inductive invariant of the connections: what a client waits for, what has
\* been received and what has been carried on, in each state of each protocol.
THEOREM ConnInvariant == Spec => []Inv
  <1>1. Inv /\ [Next]_vars => Inv'
    <2> SUFFICES ASSUME Inv, [Next]_vars PROVE Inv'
      OBVIOUS
    <2>1. CASE UNCHANGED vars
      BY <2>1, Stutters
    <2>2. CASE Worker
      <3>1. \/ Take \/ Select \/ (\E c \in Conn : Skip(c))
            \/ \E c \in Conn : Spin(c)
            \/ \E c \in Conn : Sweep(c)
        BY <2>2 DEF Worker
      <3> QED
        BY <3>1, LoopKeeps, SpinKeeps, SweepKeeps
    <2>3. CASE \E c \in Conn : Peers(c)
      BY <2>3, PeersKeep
    <2> QED
      BY <2>1, <2>2, <2>3 DEF Next
  <1> QED
    BY <1>1, Starts, PTL DEF Spec

\* Every variable keeps its type; a header is no longer than what a client may
\* send, and nobody receives more than was sent.
THEOREM TypeCorrect == Spec => []TypeOK
  <1>1. Inv => TypeOK
    <2> SUFFICES ASSUME Inv PROVE TypeOK
      OBVIOUS
    <2>1. ASSUME NEW c \in Conn
          PROVE  /\ conf[c] \in Confs[c]
                 /\ cx[c].hdr \in 0..(Request("socks5") + MaxUp)
                 /\ cx[c].pcall \in Points
                 /\ cx[c].working \in BOOLEAN /\ cx[c].moved \in BOOLEAN /\ cx[c].csock \in BOOLEAN
                 /\ cx[c].rsock \in {"closed", "connecting", "up"}
                 /\ net[c].got \in 0..net[c].sent /\ net[c].hgot \in 0..net[c].hsent
                 /\ net[c].reach \in {"unknown", "yes", "no"}
      <3> DEFINE k == conf[c]
      <3>1. k \in AllConfs /\ k \in Confs[c] /\ Base(k, cx[c], net[c])
        BY DEF Inv, Conns, ConnInv
      <3>2. Request(k.kind) \in 0..3 /\ k.up \in 0..MaxUp /\ MaxUp \in Nat /\ Request("socks5") = 3
        BY <3>1, ConfType, CtxConnAssumption DEF Request
      <3>3. cx[c] \in Contexts /\ net[c] \in Streams /\ cx[c].hdr <= net[c].got
            /\ net[c].got <= net[c].sent /\ net[c].hgot <= net[c].hsent
            /\ net[c].sent <= Request(k.kind) + k.up
        BY <3>1 DEF Base
      <3> HIDE DEF k
      <3>4. cx[c].hdr \in Nat /\ net[c].got \in Nat /\ net[c].sent \in Nat /\ net[c].hgot \in Nat /\ net[c].hsent \in Nat
        BY <3>3 DEF Contexts, Streams
      <3>5. cx[c].hdr \in 0..(3 + MaxUp)
        BY <3>2, <3>3, <3>4
      <3>6. net[c].got \in 0..net[c].sent /\ net[c].hgot \in 0..net[c].hsent
        BY <3>3, <3>4
      <3> QED
        BY <3>1, <3>2, <3>3, <3>5, <3>6 DEF Contexts, Streams, k
    <2>2. /\ taken \in 0..NConn /\ bucket \in Seq(1..taken) /\ at \in 1..Len(bucket) + 1
          /\ stage \in {"select", "spin", "sweep"} /\ old \in BOOLEAN
          /\ turn \in {"quiet", "spun", "ended"} /\ crashed \in BOOLEAN
      BY DEF Inv, LoopInv
    <2> QED
      BY <2>1, <2>2 DEF TypeOK, Points
  <1> QED
    BY <1>1, ConnInvariant, PTL

\* A SOCKS client that the rules let in gets one answer, and no data of the host
\* before it has had a success.
THEOREM OneAnswerHolds == Spec => []OneAnswer
  <1>1. Inv => OneAnswer
    <2> SUFFICES ASSUME Inv, NEW c \in Conn, conf[c].kind \in Socks, conf[c].access
                 PROVE  /\ \A i, j \in Answers(net[c]) : i = j
                        /\ net[c].toCli # <<>> =>
                             \E i \in Answers(net[c]) : net[c].replies[i] = "success"
      BY DEF OneAnswer, Answers
    <2>1. Single(conf[c], net[c])
      BY DEF Inv, Conns, ConnInv, Base
    <2>2. HasReply(net[c], "success") => \E i \in Answers(net[c]) : net[c].replies[i] = "success"
      BY DEF HasReply, Answers
    <2> QED
      BY <2>1, <2>2 DEF Single
  <1> QED
    BY <1>1, ConnInvariant, PTL

\* The worker dies of an exception only of a SOCKS connection or an HTTP tunnel
\* that relays.
THEOREM CrashCulpritHolds == Spec => []CrashCulprit
  <1>1. Inv => CrashCulprit
    BY DEF Inv
  <1> QED
    BY <1>1, ConnInvariant, PTL

\* An open connection is not swept in a turn in which one was spun and none
\* ended: the last to be spun calls a lapse of time_out off.
THEOREM SweptWithAnotherHolds == Spec => SweptWithAnother
  <1>1. Inv /\ [Next]_vars =>
          [\A c \in Conn : Sweep(c) /\ IsOpen(cx[c]) /\ ~IsOpen(cx'[c]) => turn # "spun"]_vars
    <2> SUFFICES ASSUME Inv, NEW c \in Conn, Sweep(c), IsOpen(cx[c]), ~IsOpen(cx'[c]), turn = "spun"
                 PROVE  FALSE
      OBVIOUS
    <2>1. ~old
      BY DEF Inv, LoopInv, Sweep, Comes
    <2> DEFINE x == cx[c]
               asked == old \/ ~IsOpen(x)
               idle == asked /\ ~x.moved
               z == IF idle THEN Destroyed(x) ELSE x
               y == [z EXCEPT !.moved = @ /\ ~asked]
    <2>2. cx' = [cx EXCEPT ![c] = y] /\ x \in Contexts /\ cx \in [Conn -> Contexts]
      BY DEF Sweep, Inv, Types
    <2>3. z = x
      BY <2>1
    <2>4. PICK b : y = [z EXCEPT !.moved = b]
      OBVIOUS
    <2> HIDE DEF x, y, z
    <2>5. y.csock = x.csock /\ y.rsock = x.rsock
      BY <2>2, <2>3, <2>4 DEF Contexts
    <2>6. cx'[c] = y
      BY <2>2
    <2>7. IsOpen(cx'[c])
      BY <2>5, <2>6 DEF IsOpen, x
    <2> QED
      BY <2>7
  <1> QED
    BY <1>1, ConnInvariant, PTL DEF Spec, SweptWithAnother

-----------------------------------------------------------------------------
(* The abstract relay.                                                     *)

\* Where the relay has a connection whose context is x.
StatusOf(x) == IF ~IsOpen(x) THEN "ended" ELSE IF x.pcall \in Relaying THEN "granted" ELSE "asking"

SameStreams(n, m) == m.toHost = n.toHost /\ m.toCli = n.toCli

\* What one connection may do, seen as a relay; the last is to do nothing.
RelayStep(k, x, n, y, m) ==
  \/ /\ StatusOf(x) = "asking" /\ StatusOf(y) = "granted"
     /\ k.access /\ Carries(k, n, m)
  \/ StatusOf(x) = "granted" /\ StatusOf(y) = "granted" /\ Carries(k, n, m)
  \/ /\ StatusOf(x) # "ended" /\ StatusOf(y) = "ended"
     /\ (k.access /\ Carries(k, n, m)) \/ SameStreams(n, m)
  \/ StatusOf(y) = StatusOf(x) /\ SameStreams(n, m)

\* The status of the refinement mapping is that of the context.
LEMMA StatusIs ==
  /\ \A c \in Conn : Status(c) = StatusOf(cx[c])
  /\ \A c \in Conn : Status(c)' = StatusOf(cx'[c])
  <1>1. ASSUME NEW c PROVE Status(c) = StatusOf(cx[c])
    BY DEF Status, StatusOf, Relaying
  <1>2. ASSUME NEW c PROVE Status(c)' = StatusOf(cx'[c])
    BY DEF Status, StatusOf, Relaying
  <1> QED
    BY <1>1, <1>2

\* One connection does it and the others stay: the relay takes a step, or none.
LEMMA StepRefines ==
  ASSUME Types, Types', NEW c \in Conn, conf' = conf,
         \A d \in Conn \ {c} : cx'[d] = cx[d] /\ net'[d] = net[d],
         RelayStep(conf[c], cx[c], net[c], cx'[c], net'[c])
  PROVE  [Contract!RelayNext]_(Contract!relayVars)
  <1> DEFINE k == conf[c]
             x == cx[c]
             y == cx'[c]
             n == net[c]
             m == net'[c]
  <1>1. /\ n.toHost \in Seq(Nat) /\ n.toCli \in Seq(Nat)
        /\ Lossy(k) = (k.kind = "http")
    BY DEF Types, Streams, Lossy
  <1>2. ASSUME SameStreams(n, m) PROVE Carries(k, n, m)
    BY <1>1, <1>2, Continued DEF SameStreams, Carries
  <1>3. ASSUME Carries(k, n, m) PROVE Contract!CarryUp(c) /\ Contract!CarryDown(c)
    BY <1>3 DEF Carries, Lossy, Contract!CarryUp, Contract!CarryDown
  <1>4. Contract!OthersStay(c)
    <2>1. \A d \in Conn \ {c} : Status(d)' = Status(d)
      BY StatusIs
    <2> QED
      BY <2>1 DEF Contract!OthersStay
  <1>5. /\ [d \in Conn |-> conf[d].access]' = [d \in Conn |-> conf[d].access]
        /\ [d \in Conn |-> conf[d].kind = "http"]' = [d \in Conn |-> conf[d].kind = "http"]
        /\ [d \in Conn |-> FirstUp(conf[d].kind)]' = [d \in Conn |-> FirstUp(conf[d].kind)]
    OBVIOUS
  <1>6. Status(c) = StatusOf(x) /\ Status(c)' = StatusOf(y)
    BY StatusIs
  <1>7. CASE StatusOf(x) = "asking" /\ StatusOf(y) = "granted" /\ k.access /\ Carries(k, n, m)
    <2>1. Contract!Grant(c)
      BY <1>3, <1>6, <1>7 DEF Contract!Grant
    <2> QED
      BY <1>4, <1>5, <2>1 DEF Contract!RelayNext
  <1>8. CASE StatusOf(x) = "granted" /\ StatusOf(y) = "granted" /\ Carries(k, n, m)
    <2>1. Contract!Carry(c)
      BY <1>3, <1>6, <1>8 DEF Contract!Carry
    <2> QED
      BY <1>4, <1>5, <2>1 DEF Contract!RelayNext
  <1>9. CASE /\ StatusOf(x) # "ended" /\ StatusOf(y) = "ended"
             /\ (k.access /\ Carries(k, n, m)) \/ SameStreams(n, m)
    <2>1. Contract!End(c)
      BY <1>2, <1>3, <1>6, <1>9 DEF Contract!End, SameStreams
    <2> QED
      BY <1>4, <1>5, <2>1 DEF Contract!RelayNext
  <1>10. CASE StatusOf(y) = StatusOf(x) /\ SameStreams(n, m)
    <2>1. \A d \in Conn : Status(d)' = Status(d)
      BY <1>10, StatusIs
    <2>2. \A d \in Conn : net'[d].toHost = net[d].toHost /\ net'[d].toCli = net[d].toCli
      BY <1>10 DEF SameStreams
    <2> QED
      BY <1>5, <2>1, <2>2 DEF Contract!relayVars
  <1> QED
    BY <1>7, <1>8, <1>9, <1>10 DEF RelayStep

\* What spins a context: an outcome that relays carries pieces on or ends, one
\* that asks changes nothing the relay shows but the end.
LEMMA SpinRefines ==
  ASSUME Inv, Types', NEW c \in Conn, Spin(c)
  PROVE  [Contract!RelayNext]_(Contract!relayVars)
  <1>0. Types /\ Conns
    BY DEF Inv
  <1>1. PICK o : /\ Comes(c, "spin") /\ IsOpen(cx[c])
                 /\ Returns(c, o) /\ Steps(conf[c], net[c], o)
                 /\ cx[c].pcall \in Relaying => Relayed(conf[c], net[c], o)
    BY <1>0, SpinSteps
  <1> DEFINE k == conf[c]
             x == cx[c]
             n == net[c]
             y == IF o.rv = "kill" THEN Destroyed(o.x) ELSE o.x
  <1>2. /\ ~crashed /\ conf' = conf
        /\ cx' = [cx EXCEPT ![c] = y] /\ net' = [net EXCEPT ![c] = o.n]
    BY <1>1 DEF Returns, Spun, Comes
  <1>3. /\ cx'[c] = y /\ net'[c] = o.n
        /\ \A d \in Conn \ {c} : cx'[d] = cx[d] /\ net'[d] = net[d]
    BY <1>0, <1>2 DEF Types
  <1>4. Sound(k, o)
    BY <1>1 DEF Steps, Relayed, Asked
  <1>5. o.rv = "kill" => StatusOf(y) = "ended"
    <2>1. o.x \in Contexts
      BY <1>4 DEF Sound, Base
    <2>2. Destroyed(o.x).csock = FALSE /\ Destroyed(o.x).rsock = "closed"
      BY <2>1 DEF Destroyed, Contexts
    <2> QED
      BY <2>2 DEF StatusOf, IsOpen
  <1>6. o.rv # "kill" => y = o.x /\ y.csock = TRUE
    BY <1>4 DEF Sound, Base, Contexts
  <1>7. StatusOf(x) = IF x.pcall \in Relaying THEN "granted" ELSE "asking"
    BY <1>1 DEF StatusOf
  <1> HIDE DEF k, x, n, y
  <1>8. ASSUME Relayed(k, n, o) PROVE RelayStep(k, x, n, y, o.n)
    <2>1. k.access /\ Carries(k, n, o.n) /\ (o.rv # "kill" => o.x.pcall \in Relaying)
      BY <1>8 DEF Relayed
    <2>2. o.rv # "kill" => StatusOf(y) = "granted"
      BY <1>6, <2>1 DEF StatusOf, IsOpen
    <2> QED
      BY <1>5, <1>7, <2>1, <2>2 DEF RelayStep
  <1>9. ASSUME Asked(k, o), x.pcall \notin Relaying PROVE RelayStep(k, x, n, y, o.n)
    <2>1. x.csock
      BY <1>0, <1>1 DEF Conns, ConnInv, Base, IsOpen, x
    <2>2. n.toHost = <<>> /\ n.toCli = <<>>
      BY <1>0, <1>9, <2>1 DEF Conns, ConnInv, Phase, Asking, x, n
    <2>3. SameStreams(n, o.n)
      BY <1>9, <2>2 DEF Asked, SameStreams
    <2>4. o.rv # "kill" => StatusOf(y) = "asking"
      BY <1>6, <1>9 DEF StatusOf, IsOpen, Asked
    <2> QED
      BY <1>5, <1>7, <1>9, <2>3, <2>4 DEF RelayStep
  <1>10. RelayStep(k, x, n, y, o.n)
    BY <1>1, <1>8, <1>9 DEF Steps, k, x, n
  <1> QED
    BY <1>0, <1>2, <1>3, <1>10, StepRefines DEF k, x, n

\* The sweep may end a connection, and adds nothing to its streams.
LEMMA SweepRefines ==
  ASSUME Inv, Types', NEW c \in Conn, Sweep(c)
  PROVE  [Contract!RelayNext]_(Contract!relayVars)
  <1>0. Types /\ conf' = conf
    BY DEF Inv, Sweep
  <1> DEFINE x == cx[c]
             n == net[c]
             asked == old \/ ~IsOpen(x)
             idle == asked /\ ~x.moved
             z == IF idle THEN Destroyed(x) ELSE x
             y == [z EXCEPT !.moved = @ /\ ~asked]
             m == IF idle /\ x.csock /\ ~x.working THEN Reply(c, n, "fail") ELSE n
  <1>1. cx' = [cx EXCEPT ![c] = y] /\ net' = [net EXCEPT ![c] = m]
    BY DEF Sweep
  <1>2. x \in Contexts /\ n \in Streams
    BY <1>0 DEF Types
  <1>3. SameStreams(n, m)
    BY <1>2 DEF SameStreams, Reply, Streams
  <1>4. /\ idle => z.csock = FALSE /\ z.rsock = "closed"
        /\ ~idle => z.csock = x.csock /\ z.rsock = x.rsock
        /\ z \in Contexts /\ z.pcall = x.pcall
    <2> HIDE DEF x, idle
    <2> QED
      BY <1>2 DEF Destroyed, Contexts
  <1>5. PICK b : y = [z EXCEPT !.moved = b]
    OBVIOUS
  <1> HIDE DEF x, y, z, m, n, idle
  <1>6. y.csock = z.csock /\ y.rsock = z.rsock /\ y.pcall = z.pcall
    BY <1>4, <1>5 DEF Contexts
  <1>7. StatusOf(y) = "ended" \/ StatusOf(y) = StatusOf(x)
    BY <1>4, <1>6 DEF StatusOf, IsOpen
  <1>8. RelayStep(conf[c], x, n, y, m)
    BY <1>3, <1>7 DEF RelayStep
  <1>9. /\ cx'[c] = y /\ net'[c] = m
        /\ \A d \in Conn \ {c} : cx'[d] = cx[d] /\ net'[d] = net[d]
    BY <1>0, <1>1 DEF Types
  <1> QED
    BY <1>0, <1>8, <1>9, StepRefines DEF x, n

\* A step that changes no context and no stream that the relay shows.
LEMMA NothingShown ==
  ASSUME conf' = conf, cx' = cx,
         \A d \in Conn : net'[d].toHost = net[d].toHost /\ net'[d].toCli = net[d].toCli
  PROVE  UNCHANGED Contract!relayVars
  <1>1. \A d \in Conn : Status(d)' = Status(d)
    BY StatusIs
  <1>2. /\ [d \in Conn |-> conf[d].access]' = [d \in Conn |-> conf[d].access]
        /\ [d \in Conn |-> conf[d].kind = "http"]' = [d \in Conn |-> conf[d].kind = "http"]
        /\ [d \in Conn |-> FirstUp(conf[d].kind)]' = [d \in Conn |-> FirstUp(conf[d].kind)]
    OBVIOUS
  <1> QED
    BY <1>1, <1>2 DEF Contract!relayVars

\* What the peers do is not what the relay carries.
LEMMA PeersRefine ==
  ASSUME Types, NEW c \in Conn, Peers(c)
  PROVE  UNCHANGED Contract!relayVars
  <1>1. conf' = conf /\ cx' = cx
    BY DEF Peers, ClientSend, ClientClose, HostAnswer, HostSend, HostClose
  <1>2. ASSUME NEW m, net' = [net EXCEPT ![c] = m], SameStreams(net[c], m)
        PROVE  \A d \in Conn : net'[d].toHost = net[d].toHost /\ net'[d].toCli = net[d].toCli
    BY <1>2 DEF Types, SameStreams
  <1>3. net[c] \in Streams /\ net \in [Conn -> Streams]
    BY DEF Types
  <1>4. CASE ClientSend(c)
    <2> DEFINE m == [net[c] EXCEPT !.sent = @ + 1]
    <2>1. net' = [net EXCEPT ![c] = m] /\ SameStreams(net[c], m)
      BY <1>3, <1>4 DEF ClientSend, SameStreams, Streams
    <2> QED
      BY <1>1, <1>2, <2>1, NothingShown
  <1>5. CASE ClientClose(c)
    <2> DEFINE m == [net[c] EXCEPT !.cEnd = TRUE]
    <2>1. net' = [net EXCEPT ![c] = m] /\ SameStreams(net[c], m)
      BY <1>3, <1>5 DEF ClientClose, SameStreams, Streams
    <2> QED
      BY <1>1, <1>2, <2>1, NothingShown
  <1>6. CASE HostAnswer(c)
    <2>1. PICK r : net' = [net EXCEPT ![c].reach = r]
      BY <1>6 DEF HostAnswer
    <2> DEFINE m == [net[c] EXCEPT !.reach = r]
    <2>2. net' = [net EXCEPT ![c] = m] /\ SameStreams(net[c], m)
      BY <1>3, <2>1 DEF SameStreams, Streams
    <2> QED
      BY <1>1, <1>2, <2>2, NothingShown
  <1>7. CASE HostSend(c)
    <2> DEFINE m == [net[c] EXCEPT !.hsent = @ + 1]
    <2>1. net' = [net EXCEPT ![c] = m] /\ SameStreams(net[c], m)
      BY <1>3, <1>7 DEF HostSend, SameStreams, Streams
    <2> QED
      BY <1>1, <1>2, <2>1, NothingShown
  <1>8. CASE HostClose(c)
    <2> DEFINE m == [net[c] EXCEPT !.hEnd = TRUE]
    <2>1. net' = [net EXCEPT ![c] = m] /\ SameStreams(net[c], m)
      BY <1>3, <1>8 DEF HostClose, SameStreams, Streams
    <2> QED
      BY <1>1, <1>2, <2>1, NothingShown
  <1> QED
    BY <1>4, <1>5, <1>6, <1>7, <1>8 DEF Peers

\* Every context is a relay, whatever its protocol: in order, nothing twice,
\* nothing before the grant or against the rules, nothing after the end.
THEOREM RelayImplemented == Spec => IsARelay
  <1>1. Init => Contract!RelayInit
    <2> SUFFICES ASSUME Init PROVE Contract!RelayInit
      OBVIOUS
    <2>1. conf \in [Conn -> AllConfs]
      BY DEF Init
    <2>2. ASSUME NEW c \in Conn
          PROVE  /\ Status(c) = "asking" /\ net[c].toHost = <<>> /\ net[c].toCli = <<>>
                 /\ conf[c].access \in BOOLEAN /\ FirstUp(conf[c].kind) \in Nat
      BY <2>1, ConfType DEF Init, Status, IsOpen
    <2>3. /\ [c \in Conn |-> conf[c].access] \in [Conn -> BOOLEAN]
          /\ [c \in Conn |-> conf[c].kind = "http"] \in [Conn -> BOOLEAN]
          /\ [c \in Conn |-> FirstUp(conf[c].kind)] \in [Conn -> Nat]
      BY <2>2
    <2> QED
      BY <2>2, <2>3 DEF Contract!RelayInit
  <1>2. Inv /\ Inv' /\ [Next]_vars => [Contract!RelayNext]_(Contract!relayVars)
    <2> SUFFICES ASSUME Inv, Inv', [Next]_vars
                 PROVE  [Contract!RelayNext]_(Contract!relayVars)
      OBVIOUS
    <2>0. Types /\ Types'
      BY DEF Inv
    <2>1. CASE UNCHANGED <<conf, cx, net>>
      BY <2>1, NothingShown
    <2>2. CASE Take \/ Select \/ (\E c \in Conn : Skip(c)) \/ UNCHANGED vars
      <3>1. UNCHANGED <<conf, cx, net>>
        BY <2>2 DEF Take, Select, Skip, vars
      <3> QED
        BY <2>1, <3>1
    <2>3. CASE \E c \in Conn : Spin(c)
      BY <2>0, <2>3, SpinRefines
    <2>4. CASE \E c \in Conn : Sweep(c)
      BY <2>0, <2>4, SweepRefines
    <2>5. CASE \E c \in Conn : Peers(c)
      BY <2>0, <2>5, PeersRefine
    <2> QED
      BY <2>2, <2>3, <2>4, <2>5 DEF Next, Worker
  <1> QED
    BY <1>1, <1>2, ConnInvariant, PTL DEF Spec, IsARelay, Contract!RelaySpec

=============================================================================
