---------------------------- MODULE AclDb_proofs ----------------------------
(***************************************************************************)
(* Theorems about AclDb, for every number of clients and workers and every *)
(* setting of the limits, files and commands.                              *)
(***************************************************************************)
EXTENDS AclDb, TLAPS, FiniteSetTheorems

\* Ages, with NoRec for a record that is not there.
AgesOrNone == Ages \cup {NoRec}

\* The workers that have found c not allowed and have still to count it.
Counting(c) == {w \in Worker : chk[w] = c}

\* A client in session has at most been counted by workers that found it not
\* allowed before: each of those is counted once, and none is added, because
\* is_client_allowed says yes to a client in session.
SessionCounts ==
  \A c \in Client :
    InSession(c) => bcount[c] + Cardinality(Counting(c)) <= Cardinality(Worker)

\* Once a connection is being decided on, its client is remembered.
Listening == lpc # "accept" => previp \in Client

-----------------------------------------------------------------------------
(* Ages and counts.                                                        *)

\* NoRec is no age, and the clock cannot fall behind the oldest one.
LEMMA AgeBounds ==
  /\ MaxAge \in Nat /\ MaxLag < MaxAge /\ NoRec \notin Ages
  /\ \A a \in AgesOrNone : a \in Int /\ (a # NoRec <=> a >= 0)
<1>1. MaxAge \in Nat /\ MaxLag < MaxAge
  BY AclDbAssumption DEF MaxAge
<1> QED
  BY <1>1 DEF Ages, AgesOrNone, NoRec

\* A second later a record is as old or a second older, and no record is made.
LEMMA OlderAge ==
  ASSUME NEW a \in AgesOrNone
  PROVE  /\ Older(a) \in AgesOrNone
         /\ Older(a) = NoRec <=> a = NoRec
         /\ \A n \in 0..MaxLag : n < MaxLag /\ a # NoRec /\ a >= n => Older(a) >= n + 1
  BY AgeBounds, AclDbAssumption DEF Older, Ages, AgesOrNone, NoRec

\* delete_oldies by number only removes records.
LEMMA TrimmedAges ==
  ASSUME NEW age \in [Client -> AgesOrNone], NEW new \in Trimmed(age)
  PROVE  /\ new \in [Client -> AgesOrNone]
         /\ \A c \in Client : new[c] # NoRec => new[c] = age[c]
  BY DEF Trimmed, AgesOrNone

\* delete_oldies by age only removes records.
LEMMA ExpiredAges ==
  ASSUME NEW age \in [Client -> AgesOrNone], NEW now, NEW limit
  PROVE  /\ Expired(age, now, limit) \in [Client -> AgesOrNone]
         /\ \A c \in Client : Expired(age, now, limit)[c] # NoRec => Expired(age, now, limit)[c] = age[c]
  BY DEF Expired, AgesOrNone

\* The counts go with the records that are removed, and the others stay.
LEMMA CountsOfAges ==
  ASSUME TypeOK, RecordsSane, NEW new \in [Client -> AgesOrNone],
         \A c \in Client : new[c] # NoRec => new[c] = bage[c]
  PROVE  /\ CountsOf(new) \in [Client -> 0..Blocked]
         /\ \A c \in Client : /\ new[c] = NoRec <=> CountsOf(new)[c] = 0
                              /\ new[c] # NoRec => new[c] >= lag
                              /\ CountsOf(new)[c] <= bcount[c]
<1>1. \A c \in Client : CountsOf(new)[c] = IF new[c] = NoRec THEN 0 ELSE bcount[c]
  BY DEF CountsOf
<1>2. CountsOf(new) \in [Client -> 0..Blocked]
  BY AclDbAssumption DEF CountsOf, TypeOK
<1>3. ASSUME NEW c \in Client
      PROVE  /\ new[c] = NoRec <=> CountsOf(new)[c] = 0
             /\ new[c] # NoRec => new[c] >= lag
             /\ CountsOf(new)[c] <= bcount[c]
  BY <1>1 DEF TypeOK, RecordsSane
<1> QED
  BY <1>2, <1>3

-----------------------------------------------------------------------------
\* The records and the bans, whatever the listener, the workers, the commands and
\* the database thread do and whatever order they do it in.
THEOREM TypesAndRecords == Spec => [](TypeOK /\ RecordsSane /\ Listening)
<1> USE AclDbAssumption
<1>1. Init => TypeOK /\ RecordsSane /\ Listening
  <2> SUFFICES ASSUME Init PROVE TypeOK /\ RecordsSane /\ Listening
    OBVIOUS
  <2>1. /\ sess \in [Client -> Ages \cup {NoRec}] /\ bage \in [Client -> Ages \cup {NoRec}]
        /\ bcount \in [Client -> 0..Blocked] /\ chk \in [Worker -> Client \cup {NoClient}]
        /\ lag \in 0..MaxLag
    BY AgeBounds DEF Init, Ages
  <2>2. RecordsSane
    BY DEF Init, RecordsSane
  <2> QED
    BY <2>1, <2>2 DEF Init, TypeOK, DbPoints, LoadPoints, Listening
<1>2. TypeOK /\ RecordsSane /\ Listening /\ [Next]_vars => TypeOK' /\ RecordsSane' /\ Listening'
  <2> SUFFICES ASSUME TypeOK, RecordsSane, Listening, [Next]_vars PROVE TypeOK' /\ RecordsSane' /\ Listening'
    OBVIOUS
  <2> USE DEF dbVars, listenerVars, DbPoints, LoadPoints
  <2>a. sess \in [Client -> AgesOrNone] /\ bage \in [Client -> AgesOrNone]
    BY DEF TypeOK, AgesOrNone
  <2>b. BannedFile \subseteq Client /\ SubsFile \subseteq Client /\ DestFile \subseteq Client
    OBVIOUS
  <2>1. ASSUME NEW c \in Client, AskBanned(c) PROVE TypeOK' /\ RecordsSane' /\ Listening'
    BY <2>1, <2>a DEF AskBanned, Found, TypeOK, RecordsSane, Listening
  <2>2. CASE AskBounced
    BY <2>2, <2>a DEF AskBounced, TypeOK, RecordsSane, Listening
  <2>3. ASSUME NEW c \in Client, SameAgain(c) PROVE TypeOK' /\ RecordsSane' /\ Listening'
    BY <2>3, <2>a DEF SameAgain, TypeOK, RecordsSane, Listening
  <2>4. CASE Decide
    BY <2>4, <2>a DEF Decide, TypeOK, RecordsSane, Listening
  <2>5. ASSUME NEW w \in Worker, NEW c \in Client, Serve(w, c) PROVE TypeOK' /\ RecordsSane' /\ Listening'
    BY <2>5, <2>a DEF Serve, TypeOK, RecordsSane, Listening
  <2>6. ASSUME NEW w \in Worker, NEW c \in Client, Refuse(w, c) PROVE TypeOK' /\ RecordsSane' /\ Listening'
    BY <2>6, <2>a DEF Refuse, TypeOK, RecordsSane, Listening
  <2>7. ASSUME NEW w \in Worker, Count(w) PROVE TypeOK' /\ RecordsSane' /\ Listening'
    <3> DEFINE c == chk[w]
    <3>1. c \in Client /\ lag \in Ages
      BY <2>7, AgeBounds DEF Count, TypeOK, Ages
    <3>2. UNCHANGED <<lag, banned, subs, dest, sess, reload, dbpc, listenerVars, ordered, met>>
      BY <2>7 DEF Count
    <3>3. inside' \subseteq Client /\ chk' \in [Worker -> Client \cup {NoClient}]
      BY <2>7, <3>1 DEF Count, TypeOK
    <3>4. /\ bage' \in [Client -> Ages \cup {NoRec}] /\ bcount' \in [Client -> 0..Blocked]
          /\ RecordsSane'
      <4>1. CASE bage[c] = NoRec /\ bage' = [bage EXCEPT ![c] = lag] /\ bcount' = [bcount EXCEPT ![c] = 1]
        BY <3>1, <3>2, <4>1, AgeBounds DEF TypeOK, RecordsSane
      <4>2. CASE NoBounce(c)
        BY <3>1, <3>2, <4>2 DEF TypeOK, RecordsSane, NoBounce
      <4>3. CASE /\ bage[c] # NoRec
                 /\ bage' = [bage EXCEPT ![c] = lag]
                 /\ bcount' = [bcount EXCEPT ![c] = IF @ < Blocked THEN @ + 1 ELSE @]
        <5>1. bcount[c] \in 1..Blocked
          BY <3>1, <4>3 DEF TypeOK, RecordsSane
        <5> QED
          BY <3>1, <3>2, <4>3, <5>1, AgeBounds DEF TypeOK, RecordsSane
      <4> QED
        BY <2>7, <4>1, <4>2, <4>3 DEF Count
    <3> QED
      BY <3>2, <3>3, <3>4 DEF TypeOK, Listening
  <2>8. ASSUME NEW c \in Client, CmdA(c) PROVE TypeOK' /\ RecordsSane' /\ Listening'
    BY <2>8, AgeBounds DEF CmdA, NoBounce, TypeOK, RecordsSane, Ages, Listening
  <2>9. ASSUME NEW c \in Client, Cmda(c) PROVE TypeOK' /\ RecordsSane' /\ Listening'
    BY <2>9, <2>a DEF Cmda, TypeOK, RecordsSane, Listening
  <2>10. ASSUME NEW c \in Client, CmdB(c) PROVE TypeOK' /\ RecordsSane' /\ Listening'
    <3>1. /\ banned' \subseteq Client /\ ordered' \subseteq Client /\ met' \subseteq LoadPoints
          /\ UNCHANGED <<lag, subs, dest, sess, reload, dbpc, listenerVars, inside, chk>>
      BY <2>10, <2>b DEF CmdB, Changed, Meets, BanPoints, TypeOK
    <3>2. bage' = [bage EXCEPT ![c] = NoRec] /\ bcount' = [bcount EXCEPT ![c] = 0]
      BY <2>10 DEF CmdB, NoBounce
    <3>3. /\ bage' \in [Client -> Ages \cup {NoRec}] /\ bcount' \in [Client -> 0..Blocked]
          /\ RecordsSane'
      BY <3>1, <3>2, <2>a DEF TypeOK, RecordsSane
    <3> QED
      BY <3>1, <3>3 DEF TypeOK, Listening
  <2>11. ASSUME NEW c \in Client, Cmdb(c) PROVE TypeOK' /\ RecordsSane' /\ Listening'
    <3>1. /\ banned' \subseteq Client /\ ordered' \subseteq Client /\ met' \subseteq LoadPoints
          /\ UNCHANGED <<lag, subs, dest, sess, reload, dbpc, listenerVars, inside, chk>>
      BY <2>11, <2>b DEF Cmdb, Changed, Meets, BanPoints, TypeOK
    <3>2. bage' = [bage EXCEPT ![c] = NoRec] /\ bcount' = [bcount EXCEPT ![c] = 0]
      BY <2>11 DEF Cmdb, NoBounce
    <3>3. /\ bage' \in [Client -> Ages \cup {NoRec}] /\ bcount' \in [Client -> 0..Blocked]
          /\ RecordsSane'
      BY <3>1, <3>2, <2>a DEF TypeOK, RecordsSane
    <3> QED
      BY <3>1, <3>3 DEF TypeOK, Listening
  <2>12. ASSUME NEW c \in Client, CmdS(c) PROVE TypeOK' /\ RecordsSane' /\ Listening'
    BY <2>12, <2>b, <2>a DEF CmdS, NoBounce, Changed, Meets, TypeOK, RecordsSane, Listening
  <2>13. ASSUME NEW c \in Client, Cmds(c) PROVE TypeOK' /\ RecordsSane' /\ Listening'
    BY <2>13, <2>b, <2>a DEF Cmds, Changed, Meets, TypeOK, RecordsSane, Listening
  <2>14. ASSUME NEW c \in Client, CmdH(c) PROVE TypeOK' /\ RecordsSane' /\ Listening'
    BY <2>14, <2>b, <2>a DEF CmdH, Changed, Meets, TypeOK, RecordsSane, Listening
  <2>15. ASSUME NEW c \in Client, NEW byName \in BOOLEAN, Cmdh(c, byName) PROVE TypeOK' /\ RecordsSane' /\ Listening'
    BY <2>15, <2>b, <2>a DEF Cmdh, Changed, Meets, TypeOK, RecordsSane, Listening
  <2>16. CASE CmdR
    BY <2>16, <2>a DEF CmdR, TypeOK, RecordsSane, Listening
  <2>17. CASE Second
    <3>1. lag' \in 0..MaxLag /\ lag' = lag + 1 /\ lag \in 0..MaxLag /\ lag < MaxLag
      BY <2>17 DEF Second, TypeOK
    <3>2. sess' \in [Client -> AgesOrNone] /\ bage' \in [Client -> AgesOrNone]
      BY <2>17, <2>a, OlderAge DEF Second
    <3>3. RecordsSane'
      <4> SUFFICES ASSUME NEW c \in Client
                   PROVE (bage'[c] = NoRec <=> bcount'[c] = 0) /\ (bage'[c] # NoRec => bage'[c] >= lag')
        BY DEF RecordsSane
      <4>1. bage'[c] = Older(bage[c]) /\ bcount' = bcount /\ bage[c] \in AgesOrNone
        BY <2>17, <2>a DEF Second
      <4> QED
        BY <3>1, <4>1, OlderAge DEF RecordsSane
    <3> QED
      BY <2>17, <3>1, <3>2, <3>3 DEF Second, TypeOK, Listening, AgesOrNone
  <2>18. CASE DbNow
    BY <2>18, AgeBounds, <2>a DEF DbNow, TypeOK, RecordsSane, Listening
  <2>19. CASE DbTrim
    <3>1. /\ sess' \in [Client -> AgesOrNone] /\ bage' \in [Client -> AgesOrNone]
          /\ \A c \in Client : bage'[c] # NoRec => bage'[c] = bage[c]
      BY <2>19, <2>a, TrimmedAges DEF DbTrim
    <3>2. bcount' = CountsOf(bage') /\ lag' = lag
      BY <2>19 DEF DbTrim
    <3>3. bcount' \in [Client -> 0..Blocked] /\ RecordsSane'
      BY <3>1, <3>2, CountsOfAges DEF RecordsSane
    <3> QED
      BY <2>19, <3>1, <3>3 DEF DbTrim, TypeOK, Listening, AgesOrNone
  <2>20. CASE DbExpire
    <3>1. /\ sess' \in [Client -> AgesOrNone] /\ bage' \in [Client -> AgesOrNone]
          /\ \A c \in Client : bage'[c] # NoRec => bage'[c] = bage[c]
      BY <2>20, <2>a, ExpiredAges DEF DbExpire
    <3>2. bcount' = CountsOf(bage') /\ lag' = lag
      BY <2>20 DEF DbExpire
    <3>3. bcount' \in [Client -> 0..Blocked] /\ RecordsSane'
      BY <3>1, <3>2, CountsOfAges DEF RecordsSane
    <3> QED
      BY <2>20, <3>1, <3>3 DEF DbExpire, TypeOK, Listening, AgesOrNone
  <2>21. CASE DbReload
    <3>1. CASE reload
      <4>1. /\ sess' \in [Client -> Ages \cup {NoRec}] /\ bage' \in [Client -> Ages \cup {NoRec}]
            /\ bcount' \in [Client -> 0..Blocked] /\ RecordsSane'
        BY <2>21, <3>1 DEF DbReload, RecordsSane
      <4> QED
        BY <2>21, <3>1, <4>1 DEF DbReload, TypeOK, Listening
    <3>2. CASE ~reload
      BY <2>21, <3>2 DEF DbReload, TypeOK, RecordsSane, Listening
    <3> QED
      BY <3>1, <3>2
  <2>22. CASE LoadBanned
    BY <2>22, <2>b, AgeBounds, <2>a DEF LoadBanned, Filled, TypeOK, RecordsSane, Listening
  <2>23. CASE LoadSubs
    BY <2>23, <2>b, <2>a DEF LoadSubs, Filled, TypeOK, RecordsSane, Listening
  <2>24. CASE LoadSess
    <3>1. CASE dbpc = "sess"
      BY <2>24, <3>1 DEF LoadSess, TypeOK, RecordsSane, Listening
    <3>2. CASE dbpc = "fillSess"
      <4>1. /\ sess' \in [Client -> AgesOrNone] /\ bage' \in [Client -> AgesOrNone]
            /\ \A c \in Client : bage'[c] # NoRec => bage'[c] = bage[c]
        BY <2>24, <3>2, <2>a, AgeBounds DEF LoadSess, AgesOrNone, Ages
      <4>2. bcount' = CountsOf(bage') /\ lag' = lag
        BY <2>24, <3>2 DEF LoadSess
      <4>3. bcount' \in [Client -> 0..Blocked] /\ RecordsSane'
        BY <4>1, <4>2, CountsOfAges DEF RecordsSane
      <4> QED
        BY <2>24, <3>2, <4>1, <4>3 DEF LoadSess, TypeOK, Listening, AgesOrNone
    <3> QED
      BY <2>24, <3>1, <3>2 DEF LoadSess
  <2>25. CASE LoadDest
    BY <2>25, <2>b, <2>a DEF LoadDest, Filled, TypeOK, RecordsSane, Listening
  <2>26. CASE UNCHANGED vars
    BY <2>26, <2>a DEF vars, TypeOK, RecordsSane, Listening
  <2> QED
    BY <2>1, <2>2, <2>3, <2>4, <2>5, <2>6, <2>7, <2>8, <2>9, <2>10, <2>11, <2>12, <2>13, <2>14, <2>15, <2>16, <2>17, <2>18, <2>19, <2>20, <2>21, <2>22, <2>23, <2>24, <2>25, <2>26 DEF Next, Connect, Listener, WorkerStep, Command, DbThread
<1> QED
  BY <1>1, <1>2, PTL DEF Spec

\* Every variable has its type in every reachable state.
THEOREM TypeCorrect == Spec => []TypeOK
  BY TypesAndRecords, PTL

\* A refusal record and its count come and go together, and no record is stamped
\* ahead of the database thread's clock.
THEOREM RecordsSaneHolds == Spec => []RecordsSane
  BY TypesAndRecords, PTL

-----------------------------------------------------------------------------
(* Sessions.                                                               *)

\* A part of the workers is no more than all of them.
LEMMA SomeWorkers ==
  ASSUME NEW W \in SUBSET Worker
  PROVE  /\ IsFiniteSet(W) /\ Cardinality(W) \in Nat /\ Cardinality(Worker) \in Nat
         /\ Cardinality(W) <= Cardinality(Worker)
  BY AclDbAssumption, FS_Subset, FS_CardinalityType

\* What only drops sessions and counts, or begins a session with no count, keeps
\* the bound.
LEMMA FewerCounts ==
  ASSUME TypeOK, TypeOK', SessionCounts, UNCHANGED chk,
         \A c \in Client : /\ sess'[c] # NoRec => sess[c] # NoRec \/ bcount'[c] = 0
                           /\ bcount'[c] <= bcount[c]
  PROVE  SessionCounts'
<1> SUFFICES ASSUME NEW c \in Client, InSession(c)'
             PROVE  bcount'[c] + Cardinality(Counting(c)') <= Cardinality(Worker)
  BY DEF SessionCounts
<1>1. Counting(c)' = Counting(c) /\ Counting(c) \in SUBSET Worker
  BY DEF Counting
<1>2. Cardinality(Counting(c)) \in Nat /\ Cardinality(Worker) \in Nat
      /\ Cardinality(Counting(c)) <= Cardinality(Worker)
  BY <1>1, SomeWorkers
<1>3. bcount[c] \in Nat /\ bcount'[c] \in Nat
  BY DEF TypeOK
<1>4. CASE bcount'[c] = 0
  BY <1>1, <1>2, <1>4
<1>5. CASE InSession(c)
  <2>1. bcount[c] + Cardinality(Counting(c)) <= Cardinality(Worker)
    BY <1>5 DEF SessionCounts
  <2> QED
    BY <1>1, <1>2, <1>3, <2>1
<1> QED
  BY <1>4, <1>5 DEF InSession

\* The worker that counts a refusal is one less that may count another.
LEMMA OneLessCounting ==
  ASSUME TypeOK, NEW w \in Worker, chk[w] # NoClient, chk' = [chk EXCEPT ![w] = NoClient],
         NEW c \in Client
  PROVE  /\ c # chk[w] => Counting(c)' = Counting(c)
         /\ c = chk[w] => Cardinality(Counting(c)') = Cardinality(Counting(c)) - 1
<1>1. c # NoClient
  BY AclDbAssumption
<1>2. c # chk[w] => Counting(c)' = Counting(c)
  BY <1>1 DEF TypeOK, Counting
<1>3. c = chk[w] => Counting(c)' = Counting(c) \ {w} /\ w \in Counting(c)
  BY <1>1 DEF TypeOK, Counting
<1>4. IsFiniteSet(Counting(c))
  BY SomeWorkers DEF Counting
<1> QED
  BY <1>2, <1>3, <1>4, FS_RemoveElement

\* A client in session has been counted at most once by each worker that found
\* it not allowed before the session began.
THEOREM SessionInvariant == Spec => []SessionCounts
<1> USE AclDbAssumption
<1>1. Init => SessionCounts
  <2> SUFFICES ASSUME Init, NEW c \in Client
               PROVE  bcount[c] + Cardinality(Counting(c)) <= Cardinality(Worker)
    BY DEF SessionCounts
  <2>1. Counting(c) = {}
    BY DEF Init, Counting
  <2> QED
    BY <2>1, SomeWorkers, FS_EmptySet DEF Init
<1>2. TypeOK /\ TypeOK' /\ SessionCounts /\ [Next]_vars => SessionCounts'
  <2> SUFFICES ASSUME TypeOK, TypeOK', SessionCounts, [Next]_vars PROVE SessionCounts'
    OBVIOUS
  <2> USE DEF dbVars, listenerVars, InSession
  <2>a. /\ sess \in [Client -> AgesOrNone] /\ bage \in [Client -> AgesOrNone]
        /\ bcount \in [Client -> 0..Blocked] /\ bcount' \in [Client -> 0..Blocked]
    BY DEF TypeOK, AgesOrNone
  <2>b. ASSUME NEW new \in [Client -> AgesOrNone], bcount' = CountsOf(new), NEW c \in Client
        PROVE  bcount'[c] <= bcount[c]
    BY <2>a, <2>b DEF CountsOf
  <2>1. ASSUME NEW c \in Client, AskBanned(c) PROVE SessionCounts'
    BY <2>1, <2>a, FewerCounts DEF AskBanned, Found
  <2>2. CASE AskBounced
    BY <2>2, <2>a, FewerCounts DEF AskBounced
  <2>3. ASSUME NEW c \in Client, SameAgain(c) PROVE SessionCounts'
    BY <2>3, <2>a, FewerCounts DEF SameAgain
  <2>4. CASE Decide
    BY <2>4, <2>a, FewerCounts DEF Decide
  <2>5. ASSUME NEW w \in Worker, NEW c \in Client, Serve(w, c) PROVE SessionCounts'
    BY <2>5, <2>a, FewerCounts DEF Serve
  <2>6. ASSUME NEW w \in Worker, NEW c \in Client, Refuse(w, c) PROVE SessionCounts'
    <3>1. /\ FALSE \in AllowedAnswers(c) /\ chk[w] = NoClient /\ chk' = [chk EXCEPT ![w] = c]
          /\ UNCHANGED <<sess, bcount>>
      BY <2>6 DEF Refuse
    <3>2. sess[c] = NoRec
      BY <3>1 DEF AllowedAnswers, Found
    <3>3. \A d \in Client : d # c => Counting(d)' = Counting(d)
      BY <3>1 DEF TypeOK, Counting
    <3> QED
      BY <3>1, <3>2, <3>3 DEF SessionCounts
  <2>7. ASSUME NEW w \in Worker, Count(w) PROVE SessionCounts'
    <3>1. /\ chk[w] # NoClient /\ chk' = [chk EXCEPT ![w] = NoClient] /\ sess' = sess
      BY <2>7 DEF Count
    <3>2. \A d \in Client : /\ bcount'[d] <= bcount[d] + 1
                            /\ d # chk[w] => bcount'[d] = bcount[d]
      <4>1. chk[w] \in Client
        BY <3>1 DEF TypeOK
      <4>2. CASE bage[chk[w]] = NoRec
        <5>1. bcount' = [bcount EXCEPT ![chk[w]] = 1]
          BY <2>7, <4>2 DEF Count
        <5> QED
          BY <2>a, <4>1, <5>1
      <4>3. CASE bage[chk[w]] # NoRec
        <5>1. \/ bcount' = [bcount EXCEPT ![chk[w]] = 0]
              \/ bcount' = [bcount EXCEPT ![chk[w]] = IF @ < Blocked THEN @ + 1 ELSE @]
          BY <2>7, <4>3 DEF Count, NoBounce
        <5> QED
          BY <2>a, <4>1, <5>1
      <4> QED
        BY <4>2, <4>3
    <3> SUFFICES ASSUME NEW d \in Client, sess[d] # NoRec
                 PROVE  bcount'[d] + Cardinality(Counting(d)') <= Cardinality(Worker)
      BY <3>1 DEF SessionCounts
    <3>3. bcount[d] + Cardinality(Counting(d)) <= Cardinality(Worker)
      BY DEF SessionCounts
    <3>4. Cardinality(Counting(d)) \in Nat /\ Cardinality(Worker) \in Nat
      BY SomeWorkers DEF Counting
    <3>5. /\ d # chk[w] => Counting(d)' = Counting(d)
          /\ d = chk[w] => Cardinality(Counting(d)') = Cardinality(Counting(d)) - 1
      BY <3>1, OneLessCounting
    <3>6. bcount[d] \in Nat /\ bcount'[d] \in Nat
      BY <2>a
    <3>7. CASE d = chk[w]
      <4>1. bcount'[d] <= bcount[d] + 1 /\ Cardinality(Counting(d)') = Cardinality(Counting(d)) - 1
        BY <3>2, <3>5, <3>7
      <4> QED
        BY <4>1, <3>3, <3>4, <3>6
    <3>8. CASE d # chk[w]
      <4>1. bcount'[d] = bcount[d] /\ Counting(d)' = Counting(d)
        BY <3>2, <3>5, <3>8
      <4> QED
        BY <4>1, <3>3, <3>4, <3>6
    <3> QED
      BY <3>7, <3>8
  <2>8. ASSUME NEW c \in Client, CmdA(c) PROVE SessionCounts'
    BY <2>8, <2>a, FewerCounts DEF CmdA, NoBounce
  <2>9. ASSUME NEW c \in Client, Cmda(c) PROVE SessionCounts'
    BY <2>9, <2>a, FewerCounts DEF Cmda
  <2>10. ASSUME NEW c \in Client, CmdB(c) PROVE SessionCounts'
    BY <2>10, <2>a, FewerCounts DEF CmdB, NoBounce
  <2>11. ASSUME NEW c \in Client, Cmdb(c) PROVE SessionCounts'
    BY <2>11, <2>a, FewerCounts DEF Cmdb, NoBounce
  <2>12. ASSUME NEW c \in Client, CmdS(c) PROVE SessionCounts'
    BY <2>12, <2>a, FewerCounts DEF CmdS, NoBounce
  <2>13. ASSUME NEW c \in Client, Cmds(c) PROVE SessionCounts'
    BY <2>13, <2>a, FewerCounts DEF Cmds
  <2>14. ASSUME NEW c \in Client, CmdH(c) PROVE SessionCounts'
    BY <2>14, <2>a, FewerCounts DEF CmdH
  <2>15. ASSUME NEW c \in Client, NEW byName \in BOOLEAN, Cmdh(c, byName) PROVE SessionCounts'
    BY <2>15, <2>a, FewerCounts DEF Cmdh
  <2>16. CASE CmdR
    BY <2>16, <2>a, FewerCounts DEF CmdR
  <2>17. CASE Second
    <3>1. \A c \in Client : sess'[c] = Older(sess[c])
      BY <2>17 DEF Second
    <3> QED
      BY <2>17, <3>1, <2>a, OlderAge, FewerCounts DEF Second
  <2>18. CASE DbNow
    BY <2>18, <2>a, FewerCounts DEF DbNow
  <2>19. CASE DbTrim
    <3>1. /\ sess' \in Trimmed(sess) /\ bage' \in Trimmed(bage) /\ bcount' = CountsOf(bage')
          /\ UNCHANGED chk
      BY <2>19 DEF DbTrim
    <3> QED
      BY <3>1, <2>a, <2>b, TrimmedAges, FewerCounts
  <2>20. CASE DbExpire
    <3>1. /\ sess' = Expired(sess, 0, SessionTime) /\ bcount' = CountsOf(bage')
          /\ bage' = Expired(bage, lag, BounceTtl) /\ UNCHANGED chk
      BY <2>20 DEF DbExpire
    <3> QED
      BY <3>1, <2>a, <2>b, ExpiredAges, FewerCounts
  <2>21. CASE DbReload
    BY <2>21, <2>a, FewerCounts DEF DbReload
  <2>22. CASE LoadBanned
    BY <2>22, <2>a, FewerCounts DEF LoadBanned
  <2>23. CASE LoadSubs
    BY <2>23, <2>a, FewerCounts DEF LoadSubs
  <2>24. CASE LoadSess
    <3>1. CASE dbpc = "sess"
      BY <2>24, <3>1, <2>a, FewerCounts DEF LoadSess
    <3>2. CASE dbpc = "fillSess"
      <4>1. /\ bcount' = CountsOf(bage') /\ UNCHANGED chk
            /\ \A c \in Client : /\ c \notin SessFile => sess'[c] = sess[c]
                                 /\ c \in SessFile => bage'[c] = NoRec
        BY <2>24, <3>2 DEF LoadSess
      <4>2. bage' \in [Client -> AgesOrNone]
        BY DEF TypeOK, AgesOrNone
      <4>3. \A c \in Client : bage'[c] = NoRec => bcount'[c] = 0
        BY <4>1 DEF CountsOf
      <4>4. \A c \in Client : /\ sess'[c] # NoRec => sess[c] # NoRec \/ bcount'[c] = 0
                              /\ bcount'[c] <= bcount[c]
        <5>1. \A c \in Client : bcount'[c] <= bcount[c]
          BY <4>1, <4>2, <2>b
        <5> QED
          BY <4>1, <4>3, <5>1
      <4> QED
        BY <4>1, <4>4, FewerCounts
    <3> QED
      BY <2>24, <3>1, <3>2 DEF LoadSess
  <2>25. CASE LoadDest
    BY <2>25, <2>a, FewerCounts DEF LoadDest
  <2>26. CASE UNCHANGED vars
    BY <2>26, <2>a DEF vars, SessionCounts, Counting
  <2> QED
    BY <2>1, <2>2, <2>3, <2>4, <2>5, <2>6, <2>7, <2>8, <2>9, <2>10, <2>11, <2>12, <2>13, <2>14, <2>15, <2>16, <2>17, <2>18, <2>19, <2>20, <2>21, <2>22, <2>23, <2>24, <2>25, <2>26 DEF Next, Connect, Listener, WorkerStep, Command, DbThread
<1> QED
  BY <1>1, <1>2, TypesAndRecords, PTL DEF Spec

\* A client in session is not blocked by refusals from before its session: they
\* are no more than there are workers.
THEOREM SessionNotBlockedHolds == Spec => []SessionNotBlocked
<1>1. TypeOK /\ SessionCounts => SessionNotBlocked
  <2> SUFFICES ASSUME TypeOK, SessionCounts, NEW c \in Client, InSession(c)
               PROVE  bcount[c] <= Cardinality(Worker)
    BY DEF SessionNotBlocked
  <2>1. Cardinality(Counting(c)) \in Nat /\ Cardinality(Worker) \in Nat
    BY SomeWorkers DEF Counting
  <2>2. bcount[c] \in Nat /\ bcount[c] + Cardinality(Counting(c)) <= Cardinality(Worker)
    BY DEF TypeOK, SessionCounts
  <2> QED
    BY <2>1, <2>2
<1> QED
  BY <1>1, TypesAndRecords, SessionInvariant, PTL

-----------------------------------------------------------------------------
(* Bans.                                                                   *)

\* Between the clear under the lock and the one without it nobody is banned,
\* unless by a command given just then: so the second clear changes nothing else.
BansCleared == dbpc = "banned" /\ met \cap BanPoints = {} => banned = {}

\* Unless a command changed the bans while a reload was clearing and filling them,
\* exactly those are banned whom the file and the commands order to be.
THEOREM BansOrderedHolds == Spec => []BansOrdered
<1>1. Init => BansOrdered /\ BansCleared
  BY DEF Init, BansOrdered, BansCleared
<1>2. BansOrdered /\ BansCleared /\ [Next]_vars => BansOrdered' /\ BansCleared'
  <2> SUFFICES ASSUME BansOrdered, BansCleared, [Next]_vars PROVE BansOrdered' /\ BansCleared'
    OBVIOUS
  <2> USE DEF dbVars, listenerVars, BanPoints, Meets
  <2>1. ASSUME NEW c \in Client, AskBanned(c) PROVE BansOrdered' /\ BansCleared'
    BY <2>1 DEF AskBanned, Found, BansOrdered, BansCleared
  <2>2. CASE AskBounced
    BY <2>2 DEF AskBounced, BansOrdered, BansCleared
  <2>3. ASSUME NEW c \in Client, SameAgain(c) PROVE BansOrdered' /\ BansCleared'
    BY <2>3 DEF SameAgain, BansOrdered, BansCleared
  <2>4. CASE Decide
    BY <2>4 DEF Decide, BansOrdered, BansCleared
  <2>5. ASSUME NEW w \in Worker, NEW c \in Client, Serve(w, c) PROVE BansOrdered' /\ BansCleared'
    BY <2>5 DEF Serve, BansOrdered, BansCleared
  <2>6. ASSUME NEW w \in Worker, NEW c \in Client, Refuse(w, c) PROVE BansOrdered' /\ BansCleared'
    BY <2>6 DEF Refuse, BansOrdered, BansCleared
  <2>7. ASSUME NEW w \in Worker, Count(w) PROVE BansOrdered' /\ BansCleared'
    BY <2>7 DEF Count, BansOrdered, BansCleared
  <2>8. ASSUME NEW c \in Client, CmdA(c) PROVE BansOrdered' /\ BansCleared'
    BY <2>8 DEF CmdA, BansOrdered, BansCleared
  <2>9. ASSUME NEW c \in Client, Cmda(c) PROVE BansOrdered' /\ BansCleared'
    BY <2>9 DEF Cmda, BansOrdered, BansCleared
  <2>10. ASSUME NEW c \in Client, CmdB(c) PROVE BansOrdered' /\ BansCleared'
    BY <2>10 DEF CmdB, Changed, BansOrdered, BansCleared
  <2>11. ASSUME NEW c \in Client, Cmdb(c) PROVE BansOrdered' /\ BansCleared'
    BY <2>11 DEF Cmdb, Changed, BansOrdered, BansCleared
  <2>12. ASSUME NEW c \in Client, CmdS(c) PROVE BansOrdered' /\ BansCleared'
    BY <2>12 DEF CmdS, BansOrdered, BansCleared
  <2>13. ASSUME NEW c \in Client, Cmds(c) PROVE BansOrdered' /\ BansCleared'
    BY <2>13 DEF Cmds, BansOrdered, BansCleared
  <2>14. ASSUME NEW c \in Client, CmdH(c) PROVE BansOrdered' /\ BansCleared'
    BY <2>14 DEF CmdH, BansOrdered, BansCleared
  <2>15. ASSUME NEW c \in Client, NEW byName \in BOOLEAN, Cmdh(c, byName) PROVE BansOrdered' /\ BansCleared'
    BY <2>15 DEF Cmdh, BansOrdered, BansCleared
  <2>16. CASE CmdR
    BY <2>16 DEF CmdR, BansOrdered, BansCleared
  <2>17. CASE Second
    BY <2>17 DEF Second, BansOrdered, BansCleared
  <2>18. CASE DbNow
    BY <2>18 DEF DbNow, BansOrdered, BansCleared
  <2>19. CASE DbTrim
    BY <2>19 DEF DbTrim, BansOrdered, BansCleared
  <2>20. CASE DbExpire
    BY <2>20 DEF DbExpire, BansOrdered, BansCleared
  <2>21. CASE DbReload
    BY <2>21 DEF DbReload, BansOrdered, BansCleared
  <2>22. CASE LoadBanned
    BY <2>22 DEF LoadBanned, Filled, BansOrdered, BansCleared
  <2>23. CASE LoadSubs
    BY <2>23 DEF LoadSubs, BansOrdered, BansCleared
  <2>24. CASE LoadSess
    BY <2>24 DEF LoadSess, BansOrdered, BansCleared
  <2>25. CASE LoadDest
    BY <2>25 DEF LoadDest, BansOrdered, BansCleared
  <2>26. CASE UNCHANGED vars
    BY <2>26 DEF vars, BansOrdered, BansCleared
  <2> QED
    BY <2>1, <2>2, <2>3, <2>4, <2>5, <2>6, <2>7, <2>8, <2>9, <2>10, <2>11, <2>12, <2>13, <2>14, <2>15, <2>16, <2>17, <2>18, <2>19, <2>20, <2>21, <2>22, <2>23, <2>24, <2>25, <2>26 DEF Next, Connect, Listener, WorkerStep, Command, DbThread
<1> QED
  BY <1>1, <1>2, PTL DEF Spec
=============================================================================
