------------------------------- MODULE AclDb -------------------------------
(***************************************************************************)
(* buflea's access-control database (minidb.cpp, class DbAccess) and the   *)
(* three kinds of threads that meet in it: the listener, which asks it at  *)
(* accept time and caches the answer for the last address                  *)
(* (Listeners::_put_inqueue); the workers, which check a client's session  *)
(* and count its refusals in two separately locked steps (check_bounce);   *)
(* and the database thread, which expires records and rebuilds everything  *)
(* from the files, partly without the lock (thread_main, _load).           *)
(* Control connections change it by commands (instertto, reload).  main    *)
(* starts the database thread and sleeps before it listens: the model      *)
(* begins with the files loaded.                                           *)
(*                                                                         *)
(* Time: a record has an AGE, the seconds since its stamp, which saturates *)
(* above every limit it is compared with.  lag is the age of _now, the     *)
(* database thread's copy of the time.  The ports have openacl == 0.       *)
(***************************************************************************)
EXTENDS Integers, FiniteSets

CONSTANTS
  Client,        \* client addresses; a host is denoted by its address too
  Worker,        \* worker threads
  BannedFile,    \* addresses in the banned file
  SubsFile,      \* addresses in the subscribers file
  SessFile,      \* addresses in the saved-sessions file
  DestFile,      \* hosts in the hosts file
  Blocked,       \* BOUNCE_BLOCKED (100)
  BounceReset,   \* seconds between two refusals that start a new count (60)
  BounceTtl,     \* age at which a refusal record expires (900)
  SessionTime,   \* age at which a session expires
  MaxRecs,       \* records above which the oldest is dropped (_maxrecs)
  Commands,      \* commands the administrators give in this instance
  MaxLag,        \* bound on lag: the database thread is not stopped for longer
  NoClient       \* no address

ASSUME AclDbAssumption ==
  /\ IsFiniteSet(Client) /\ IsFiniteSet(Worker)
  /\ NoClient \notin Client
  /\ {BannedFile, SubsFile, SessFile, DestFile} \subseteq SUBSET Client
  /\ Blocked \in Nat \ {0}
  /\ BounceReset \in Nat \ {0} /\ BounceTtl \in Nat /\ BounceReset < BounceTtl
  /\ SessionTime \in Nat \ {0}
  /\ Commands \subseteq {"A", "a", "B", "b", "S", "s", "H", "h", "R"}
  /\ MaxRecs \in Nat \ {0} /\ MaxLag \in Nat \ {0}

VARIABLES
  lag,       \* seconds since _now was read
  banned,    \* _banned_ips
  subs,      \* _subscribers
  dest,      \* _dest_ips, one name per address
  sess,      \* _insession_ips: age of each client's session, or NoRec
  bage,      \* _bouncing: age of each client's refusal record, or NoRec
  bcount,    \* _bouncing: its count (istore), 0 without a record
  reload,    \* _reload
  dbpc,      \* program point of the database thread
  previp,    \* Listeners::_previp
  rejected,  \* Listeners::_rejected
  lpc,       \* program point of the listener in _put_inqueue
  inside,    \* clients with an accepted connection being served
  chk,       \* client a worker has found not allowed and is about to count
  ordered,   \* who ought to be banned by the file and the commands (history)
  met        \* points of a reload at which a command changed the set being
             \* loaded (history of the reload that began last)

dbVars       == <<banned, subs, dest, sess, bage, bcount>>
listenerVars == <<previp, rejected, lpc>>
vars == <<lag, dbVars, reload, dbpc, listenerVars, inside, chk, ordered, met>>

NoRec == -1

\* Ages saturate here: above the largest limit, whatever _now lags behind.
MaxAge == (IF SessionTime > BounceTtl THEN SessionTime ELSE BounceTtl) + MaxLag + 1
Ages   == 0..MaxAge
Older(age) == IF age \in 0..(MaxAge - 1) THEN age + 1 ELSE age

LoadPoints == {"banned", "fillBanned", "subs", "fillSubs", "sess", "fillSess", "dest", "fillDest"}
DbPoints   == {"sleep", "trim", "expire", "reload"} \cup LoadPoints

InSession(c) == sess[c] # NoRec

\* _load fills three std::sets without the lock.  A lookup that overlaps it may
\* give either answer.  A command that overlaps it relinks the same tree: its own
\* change may be lost, and so may any insertion of the file, before or after it.
Found(c, S, filling) == {c \in S} \cup IF dbpc = filling THEN BOOLEAN ELSE {}
Changed(old, new, file, filling) ==
  IF dbpc = filling THEN SUBSET (old \cup new \cup file) ELSE {new}
Filled(S, file, filling) == IF filling \in met THEN SUBSET (S \cup file) ELSE {S \cup file}

\* A command on the set that is cleared or filled at these points.
BanPoints == {"banned", "fillBanned"}
Meets(points) == met' = met \cup ({dbpc} \cap points)

\* is_client_allowed: the answers it may give
AllowedAnswers(c) == {s \/ InSession(c) : s \in Found(c, subs, "fillSubs")}

\* remove_bounce
NoBounce(c) ==
  /\ bage' = [bage EXCEPT ![c] = NoRec]
  /\ bcount' = [bcount EXCEPT ![c] = 0]

Init ==
  /\ lag = 0
  /\ banned = BannedFile /\ subs = SubsFile /\ dest = DestFile
  /\ sess = [c \in Client |-> IF c \in SessFile THEN 0 ELSE NoRec]
  /\ bage = [c \in Client |-> NoRec] /\ bcount = [c \in Client |-> 0]
  /\ reload = FALSE /\ dbpc = "sleep"
  /\ previp = NoClient /\ rejected = FALSE /\ lpc = "accept"
  /\ inside = {} /\ chk = [w \in Worker |-> NoClient]
  /\ ordered = BannedFile /\ met = {}

-----------------------------------------------------------------------------
(* The listener: a new connection from c.                                  *)

\* Another address than the last one: its ban is looked up
AskBanned(c) ==
  /\ lpc = "accept" /\ previp # c
  /\ previp' = c /\ rejected' \in Found(c, banned, "fillBanned")
  /\ lpc' = IF rejected' THEN "accept" ELSE "bounced"
  /\ UNCHANGED <<lag, dbVars, reload, dbpc, inside, chk, ordered, met>>

\* ... and, under the lock again, its refusals
AskBounced ==
  /\ lpc = "bounced"
  /\ rejected' = (bage[previp] # NoRec /\ bcount[previp] >= Blocked)
  /\ lpc' = "decide"
  /\ UNCHANGED <<lag, dbVars, reload, dbpc, previp, inside, chk, ordered, met>>

\* the same address as last time: the answer of then is used
SameAgain(c) ==
  /\ lpc = "accept" /\ previp = c
  /\ lpc' = "decide"
  /\ UNCHANGED <<lag, dbVars, reload, dbpc, previp, rejected, inside, chk, ordered, met>>

\* the socket is destroyed, or a context for it is queued
Decide ==
  /\ lpc = "decide"
  /\ inside' = IF rejected THEN inside ELSE inside \cup {previp}
  /\ lpc' = "accept"
  /\ UNCHANGED <<lag, dbVars, reload, dbpc, previp, rejected, chk, ordered, met>>

-----------------------------------------------------------------------------
(* The workers.                                                            *)

\* check_bounce, first lock: an allowed client is served (return 0).  inside is
\* a set: another connection of the same client may still be there.
Serve(w, c) ==
  /\ c \in inside /\ chk[w] = NoClient /\ TRUE \in AllowedAnswers(c)
  /\ inside' \in {inside, inside \ {c}}
  /\ UNCHANGED <<lag, dbVars, reload, dbpc, listenerVars, chk, ordered, met>>

\* not allowed: the lock is released before the refusal is counted
Refuse(w, c) ==
  /\ c \in inside /\ chk[w] = NoClient /\ FALSE \in AllowedAnswers(c)
  /\ chk' = [chk EXCEPT ![w] = c]
  /\ UNCHANGED <<lag, dbVars, reload, dbpc, listenerVars, inside, ordered, met>>

\* variant: the limit is compared with <=, and the count goes one beyond it
Count_Beyond(w) ==
  LET c == chk[w] IN
  /\ c # NoClient
  /\ bage' = [bage EXCEPT ![c] = lag]
  /\ bcount' = [bcount EXCEPT ![c] = IF @ <= Blocked THEN @ + 1 ELSE @]
  /\ chk' = [chk EXCEPT ![w] = NoClient] /\ inside' = inside \ {c}
  /\ UNCHANGED <<lag, banned, subs, dest, sess, reload, dbpc, listenerVars, ordered, met>>

\* variant: the refusal is stamped with the clock, ahead of _now
Count_StampsClock(w) ==
  LET c == chk[w] IN
  /\ c # NoClient
  /\ bage' = [bage EXCEPT ![c] = 0]
  /\ bcount' = [bcount EXCEPT ![c] = IF @ < Blocked THEN @ + 1 ELSE @]
  /\ chk' = [chk EXCEPT ![w] = NoClient] /\ inside' = inside \ {c}
  /\ UNCHANGED <<lag, banned, subs, dest, sess, reload, dbpc, listenerVars, ordered, met>>

\* check_bounce, second lock; then the connection is killed
Count(w) ==
  LET c == chk[w] IN
  /\ c # NoClient
  /\ \/ bage[c] = NoRec
        /\ bage' = [bage EXCEPT ![c] = lag] /\ bcount' = [bcount EXCEPT ![c] = 1]
     \/ bage[c] # NoRec /\ bage[c] - lag > BounceReset
        /\ NoBounce(c)
     \/ bage[c] # NoRec /\ bage[c] - lag <= BounceReset
        /\ bage' = [bage EXCEPT ![c] = lag]
        /\ bcount' = [bcount EXCEPT ![c] = IF @ < Blocked THEN @ + 1 ELSE @]
  /\ chk' = [chk EXCEPT ![w] = NoClient]
  /\ inside' \in {inside, inside \ {c}}   \* another one of c may be inside
  /\ UNCHANGED <<lag, banned, subs, dest, sess, reload, dbpc, listenerVars, ordered, met>>

-----------------------------------------------------------------------------
(* Control connections: instertto with one token, under the lock.          *)

\* variant: the new session keeps the client's refusals
CmdA_KeepsBounce(c) ==
  /\ sess' = [sess EXCEPT ![c] = 0]
  /\ UNCHANGED <<lag, banned, subs, dest, bage, bcount, reload, dbpc, listenerVars, inside, chk, ordered, met>>

CmdA(c) ==  \* add to the sessions
  /\ sess' = [sess EXCEPT ![c] = 0] /\ NoBounce(c)
  /\ UNCHANGED <<lag, banned, subs, dest, reload, dbpc, listenerVars, inside, chk, ordered, met>>

Cmda(c) ==  \* remove from the sessions
  /\ InSession(c)
  /\ sess' = [sess EXCEPT ![c] = NoRec]
  /\ UNCHANGED <<lag, banned, subs, dest, bage, bcount, reload, dbpc, listenerVars, inside, chk, ordered, met>>

CmdB(c) ==  \* ban
  /\ banned' \in Changed(banned, banned \cup {c}, BannedFile, "fillBanned")
  /\ NoBounce(c)
  /\ ordered' = ordered \cup {c} /\ Meets(BanPoints)
  /\ UNCHANGED <<lag, subs, dest, sess, reload, dbpc, listenerVars, inside, chk>>

\* variant: only the refusals are dropped, the ban stays
Cmdb_KeepsBan(c) ==
  /\ TRUE \in Found(c, banned, "fillBanned") /\ NoBounce(c)
  /\ ordered' = ordered \ {c} /\ Meets(BanPoints)
  /\ UNCHANGED <<lag, banned, subs, dest, sess, reload, dbpc, listenerVars, inside, chk>>

Cmdb(c) ==  \* unban
  /\ TRUE \in Found(c, banned, "fillBanned")
  /\ banned' \in Changed(banned, banned \ {c}, BannedFile, "fillBanned")
  /\ NoBounce(c)
  /\ ordered' = ordered \ {c} /\ Meets(BanPoints)
  /\ UNCHANGED <<lag, subs, dest, sess, reload, dbpc, listenerVars, inside, chk>>

CmdS(c) ==  \* subscribe
  /\ subs' \in Changed(subs, subs \cup {c}, SubsFile, "fillSubs") /\ NoBounce(c)
  /\ Meets({"fillSubs"})
  /\ UNCHANGED <<lag, banned, dest, sess, reload, dbpc, listenerVars, inside, chk, ordered>>

Cmds(c) ==  \* unsubscribe, then fall through into "case 'H'"
  /\ subs' \in Changed(subs, subs \ {c}, SubsFile, "fillSubs")
  /\ dest' \in Changed(dest, dest \cup {c}, DestFile, "fillDest")
  /\ Meets({"fillSubs", "fillDest"})
  /\ UNCHANGED <<lag, banned, sess, bage, bcount, reload, dbpc, listenerVars, inside, chk, ordered>>

CmdH(c) ==  \* add a host
  /\ dest' \in Changed(dest, dest \cup {c}, DestFile, "fillDest")
  /\ Meets({"fillDest"})
  /\ UNCHANGED <<lag, banned, subs, sess, bage, bcount, reload, dbpc, listenerVars, inside, chk, ordered>>

Cmdh(c, byName) ==  \* a host given by name is removed, by address it is added
  /\ dest' \in Changed(dest, IF byName THEN dest \ {c} ELSE dest \cup {c}, DestFile, "fillDest")
  /\ Meets({"fillDest"})
  /\ UNCHANGED <<lag, banned, subs, sess, bage, bcount, reload, dbpc, listenerVars, inside, chk, ordered>>

CmdR ==
  /\ reload' = TRUE
  /\ UNCHANGED <<lag, dbVars, dbpc, listenerVars, inside, chk, ordered, met>>

-----------------------------------------------------------------------------
(* The database thread and the clock.                                      *)

Second ==
  /\ lag < MaxLag
  /\ lag' = lag + 1
  /\ sess' = [c \in Client |-> Older(sess[c])]
  /\ bage' = [c \in Client |-> Older(bage[c])]
  /\ UNCHANGED <<banned, subs, dest, bcount, reload, dbpc, listenerVars, inside, chk, ordered, met>>

\* _now = time(0)
DbNow ==
  /\ dbpc = "sleep"
  /\ lag' = 0 /\ dbpc' = "trim"
  /\ UNCHANGED <<dbVars, reload, listenerVars, inside, chk, ordered, met>>

\* delete_oldies(now, -1): with too many records the oldest one goes
Oldest(age, c) == age[c] > 0 /\ \A d \in Client : age[d] <= age[c]
Trimmed(age) ==
  IF Cardinality({c \in Client : age[c] # NoRec}) > MaxRecs
       /\ \E c \in Client : Oldest(age, c)
    THEN {[age EXCEPT ![c] = NoRec] : c \in {d \in Client : Oldest(age, d)}}
    ELSE {age}

CountsOf(age) == [c \in Client |-> IF age[c] = NoRec THEN 0 ELSE bcount[c]]

DbTrim ==
  /\ dbpc = "trim"
  /\ sess' \in Trimmed(sess)
  /\ bage' \in Trimmed(bage) /\ bcount' = CountsOf(bage')
  /\ \E due \in BOOLEAN : dbpc' = IF due THEN "expire" ELSE "reload"   \* k % 180
  /\ UNCHANGED <<lag, banned, subs, dest, reload, listenerVars, inside, chk, ordered, met>>

\* delete_oldies(now, limit): sessions by the clock, refusals by _now
Expired(age, now, limit) ==
  [c \in Client |-> IF age[c] - now > limit THEN NoRec ELSE age[c]]

\* variant: only the sessions expire
DbExpire_OnlySessions ==
  /\ dbpc = "expire"
  /\ sess' = Expired(sess, 0, SessionTime) /\ dbpc' = "reload"
  /\ UNCHANGED <<lag, banned, subs, dest, bage, bcount, reload, listenerVars, inside, chk, ordered, met>>

DbExpire ==
  /\ dbpc = "expire"
  /\ sess' = Expired(sess, 0, SessionTime)
  /\ bage' = Expired(bage, lag, BounceTtl) /\ bcount' = CountsOf(bage')
  /\ dbpc' = "reload"
  /\ UNCHANGED <<lag, banned, subs, dest, reload, listenerVars, inside, chk, ordered, met>>

\* With a reload asked for, all of it is cleared under the lock; the age
\* sweeps the code makes just before remove nothing that is not cleared here
DbReload ==
  /\ dbpc = "reload"
  /\ IF reload
       THEN /\ banned' = {} /\ subs' = {} /\ dest' = {}
            /\ sess' = [c \in Client |-> NoRec]
            /\ bage' = [c \in Client |-> NoRec] /\ bcount' = [c \in Client |-> 0]
            /\ dbpc' = "banned" /\ ordered' = {} /\ met' = {}
       ELSE dbpc' = "sleep" /\ UNCHANGED <<dbVars, ordered, met>>
  /\ reload' = FALSE
  /\ UNCHANGED <<lag, listenerVars, inside, chk>>

\* _load, without the lock: each container is cleared, then filled from its
\* file; only the sessions are added by instertto, which locks
LoadBanned ==
  /\ \/ dbpc = "banned" /\ banned' = {} /\ dbpc' = "fillBanned" /\ lag' = 0
        /\ UNCHANGED ordered
     \/ dbpc = "fillBanned" /\ banned' \in Filled(banned, BannedFile, "fillBanned")
        /\ dbpc' = "subs" /\ ordered' = ordered \cup BannedFile /\ UNCHANGED lag
  /\ UNCHANGED <<subs, dest, sess, bage, bcount, reload, listenerVars, inside, chk, met>>

LoadSubs ==
  /\ \/ dbpc = "subs" /\ subs' = {} /\ dbpc' = "fillSubs"
     \/ dbpc = "fillSubs" /\ subs' \in Filled(subs, SubsFile, "fillSubs") /\ dbpc' = "sess"
  /\ UNCHANGED <<lag, banned, dest, sess, bage, bcount, reload, listenerVars, inside, chk, ordered, met>>

LoadSess ==
  /\ \/ dbpc = "sess" /\ dbpc' = "fillSess"
        /\ sess' = [c \in Client |-> NoRec] /\ UNCHANGED <<bage, bcount>>
     \/ dbpc = "fillSess" /\ dbpc' = "dest"
        /\ sess' = [c \in Client |-> IF c \in SessFile THEN 0 ELSE sess[c]]
        /\ bage' = [c \in Client |-> IF c \in SessFile THEN NoRec ELSE bage[c]]
        /\ bcount' = CountsOf(bage')
  /\ UNCHANGED <<lag, banned, subs, dest, reload, listenerVars, inside, chk, ordered, met>>

LoadDest ==
  /\ \/ dbpc = "dest" /\ dest' = {} /\ dbpc' = "fillDest"
     \/ dbpc = "fillDest" /\ dest' \in Filled(dest, DestFile, "fillDest") /\ dbpc' = "sleep"
  /\ UNCHANGED <<lag, banned, subs, sess, bage, bcount, reload, listenerVars, inside, chk, ordered, met>>

-----------------------------------------------------------------------------

Connect(c)   == AskBanned(c) \/ SameAgain(c)
Listener     == AskBounced \/ Decide
WorkerStep(w) == Count(w) \/ \E c \in Client : Serve(w, c) \/ Refuse(w, c)
Given(k) == k \in Commands
Command ==
  \/ \E c \in Client :
       \/ (Given("A") /\ CmdA(c)) \/ (Given("a") /\ Cmda(c))
       \/ (Given("B") /\ CmdB(c)) \/ (Given("b") /\ Cmdb(c))
       \/ (Given("S") /\ CmdS(c)) \/ (Given("s") /\ Cmds(c))
       \/ (Given("H") /\ CmdH(c))
       \/ (Given("h") /\ \E n \in BOOLEAN : Cmdh(c, n))
  \/ Given("R") /\ CmdR
DbThread == \/ DbNow \/ DbTrim \/ DbExpire \/ DbReload
            \/ LoadBanned \/ LoadSubs \/ LoadSess \/ LoadDest

Next ==
  \/ \E c \in Client : Connect(c)
  \/ Listener
  \/ \E w \in Worker : WorkerStep(w)
  \/ Command
  \/ Second
  \/ DbThread

Spec == Init /\ [][Next]_vars

\* The threads are scheduled, the clock ticks, the listener keeps getting
\* connections; every 180th pass of the database thread expires records, and a
\* connection that is being served ends.
FairSpec ==
  /\ Spec
  /\ WF_vars(Second) /\ WF_vars(DbThread) /\ SF_vars(DbTrim /\ dbpc' = "expire")
  /\ WF_vars(Listener) /\ WF_vars(\E c \in Client : Connect(c))
  /\ \A w \in Worker : WF_vars(Count(w)) /\ SF_vars(Count(w) /\ inside' # inside)

\* ... and every client connects again and again.
BusySpec == FairSpec /\ \A c \in Client : SF_vars(Connect(c))

-----------------------------------------------------------------------------
(* Properties.                                                             *)

\* Every variable has its type.
TypeOK ==
  /\ lag \in 0..MaxLag
  /\ banned \subseteq Client /\ subs \subseteq Client /\ dest \subseteq Client
  /\ sess \in [Client -> Ages \cup {NoRec}] /\ bage \in [Client -> Ages \cup {NoRec}]
  /\ bcount \in [Client -> 0..Blocked]
  /\ reload \in BOOLEAN /\ dbpc \in DbPoints
  /\ previp \in Client \cup {NoClient} /\ rejected \in BOOLEAN
  /\ lpc \in {"accept", "bounced", "decide"}
  /\ inside \subseteq Client /\ chk \in [Worker -> Client \cup {NoClient}]
  /\ ordered \subseteq Client /\ met \subseteq LoadPoints

\* A refusal record and its count come and go together, and it is never stamped
\* after _now, so that "ago" in check_bounce is not negative, whatever the order
\* of counts, commands, expiry and reloads.
RecordsSane ==
  \A c \in Client :
    /\ bage[c] = NoRec <=> bcount[c] = 0
    /\ bage[c] # NoRec => bage[c] >= lag

\* A client in session cannot be blocked by its old refusals: adding the session
\* drops its count, and what is counted after that are at most the checks that
\* were between the two locks of check_bounce, one per worker.
SessionNotBlocked ==
  \A c \in Client : InSession(c) => bcount[c] <= Cardinality(Worker)

\* As long as no command banned or unbanned anyone while the last reload cleared
\* and filled the bans, exactly those are banned whom the file and the commands
\* since then order to be, through reloads, retries and repeated commands.
BansOrdered == met \cap BanPoints = {} => banned = ordered

\* A blocked client that keeps trying is let in again when its record has
\* expired (unless it is banned by then), if other clients connect too.
BlockEnds ==
  \A c \in Client :
    previp = c /\ rejected /\ bcount[c] >= Blocked ~> c \in inside \/ c \in banned

\* "B/b:IP  Adds/removes user to banned": a client banned by command stays
\* banned until it is unbanned or a reload is started.  But a reload clears the
\* bans twice, under the lock and again without it, and fills them without it: a
\* ban given after it has started can be lost.
BanKept == ordered \subseteq banned
=============================================================================
