------------------------------ MODULE Crawler ------------------------------
(***************************************************************************)
(* mitza, the crawler: threads that take pages from the queue, read them   *)
(* and queue the links they find, and a main thread that watches until     *)
(* there is nothing left, flushes the queue and stops the threads.         *)
(*                                                                         *)
(* Two locks protect what they share: the database lock (db_lock) and the  *)
(* lock of the working set (glb::_m).  A step that takes a lock and gives  *)
(* it back waits for it to be free; a lock that is held while another is   *)
(* waited for has a holder.  What the steps with the database do to tables *)
(* other than the queue is left out.                                       *)
(***************************************************************************)
EXTENDS CrawlQueue, FiniteSets

CONSTANTS
  Uri, Worker,
  LinksOf,   \* LinksOf[u]: the links on page u, in their order
  Site,
  SiteOf,    \* SiteOf[u]: the site page u belongs to
  Seeds,     \* the queue when the threads are started
  Depth,     \* how deep links are followed
  Cache,     \* how many of the last pages are remembered
  None

Item == [uri : Uri, level : 0..Depth]

ASSUME CrawlerAssumption ==
  /\ IsFiniteSet(Worker) /\ None \notin Worker /\ None \notin Item
  /\ LinksOf \in [Uri -> Seq(Uri)] /\ SiteOf \in [Uri -> Site]
  /\ Depth \in Nat /\ Cache \in Nat
  /\ Seeds \in [Sizes -> Seq(Item)] /\ Len(Seeds.proccache) <= Preque /\ Len(Seeds.dbcache) <= Preque

VARIABLES
  alive,     \* __alive
  q,         \* the queue
  uris,      \* _uris, the working set
  recent,    \* _recent
  refs,      \* _wsites: how many pages each site has
  own,       \* the threads whose page has a wsite that is not in _wsites
  winst,     \* _winstance
  dbHolder, muHolder,
  pc, flip,
  item,      \* the page each thread is at
  todo,      \* the links of the page that are still to be looked at
  links,     \* _links: those found so far
  main,      \* "look", "sleep", "flush", "stop" or "done"
  unread,    \* what the look at the queue has not read yet
  missed,    \* a thread has had a page since the look began (history)
  stopped,   \* the threads that are told to stop
  aborted    \* an assertion of clear has failed

shared == <<q, uris, recent, refs, own>>
locks == <<dbHolder, muHolder>>
local == <<pc, flip, item, todo, links>>
mainVars == <<main, unread, stopped>>
vars == <<alive, shared, winst, locks, local, mainVars, missed, aborted>>

Fetching == {"dig", "touch", "fetch"}
Holding == Fetching \cup {"count", "add", "site", "newsite", "unchanged", "parse", "dblinks",
                         "enqueue", "delsite", "server", "unset"}
InSet == Holding \ {"count", "add"}
WithPage == InSet \ {"site", "newsite", "server", "unset"}

Sizeable == {"uris", "proccache", "dbcache"}

Init ==
  /\ alive = TRUE /\ q = Seeds /\ uris = {} /\ recent = <<>> /\ refs = [s \in Site |-> 0] /\ own = {}
  /\ winst = 0 /\ dbHolder = None /\ muHolder = None
  /\ pc = [w \in Worker |-> "loop"] /\ flip = [w \in Worker |-> FALSE]
  /\ item = [w \in Worker |-> None]
  /\ todo = [w \in Worker |-> <<>>] /\ links = [w \in Worker |-> <<>>]
  /\ main = "look" /\ unread = Sizeable /\ missed = FALSE /\ stopped = {} /\ aborted = FALSE

-----------------------------------------------------------------------------
(* The threads (thr.cpp).                                                  *)

At(w, l) == pc[w] = l /\ ~aborted
Goto(w, l) == pc' = [pc EXCEPT ![w] = l]
DbFree == dbHolder = None
MuFree == muHolder = None

Loop(w) ==
  /\ At(w, "loop")
  /\ Goto(w, IF alive /\ w \notin stopped THEN "dequeue" ELSE "out")
  /\ UNCHANGED <<alive, shared, winst, locks, flip, item, todo, links, mainVars, aborted>>

Dequeue(w) ==
  /\ At(w, "dequeue") /\ DbFree
  /\ IF alive /\ HasNext(q)
     THEN /\ item' = [item EXCEPT ![w] = Dequeued(q).item]
          /\ q' = Dequeued(q).queue
          /\ Goto(w, IF flip[w] THEN "add" ELSE "count")
     ELSE Goto(w, IF flip[w] THEN "idle" ELSE "loop") /\ UNCHANGED <<item, q>>
  /\ UNCHANGED <<alive, uris, recent, refs, own, winst, locks, flip, todo, links, mainVars, aborted>>

\* _working
Count(w) ==
  /\ At(w, "count") /\ DbFree
  /\ winst' = winst + 1 /\ flip' = [flip EXCEPT ![w] = TRUE]
  /\ Goto(w, "add")
  /\ UNCHANGED <<alive, shared, locks, item, todo, links, mainVars, aborted>>

\* variant: clear is not left to the last
Idle_Each(w) ==
  /\ At(w, "idle") /\ DbFree
  /\ winst' = winst - 1 /\ flip' = [flip EXCEPT ![w] = FALSE]
  /\ aborted' = (HasNext([q EXCEPT !.que = <<>>]) \/ uris # {} \/ \E s \in Site : refs[s] # 0)
  /\ recent' = <<>>
  /\ Goto(w, "loop")
  /\ UNCHANGED <<alive, q, uris, refs, own, locks, item, todo, links, mainVars>>

\* _idling: the last thread asserts that nothing is left, and forgets which
\* pages were the last
Idle(w) ==
  /\ At(w, "idle") /\ DbFree
  /\ winst' = winst - 1 /\ flip' = [flip EXCEPT ![w] = FALSE]
  /\ IF winst' = 0
     THEN /\ aborted' = \/ q.proccache # <<>> \/ q.dbcache # <<>>
                        \/ uris # {} \/ \E s \in Site : refs[s] # 0
          /\ recent' = <<>>
     ELSE UNCHANGED <<aborted, recent>>
  /\ Goto(w, "loop")
  /\ UNCHANGED <<alive, q, uris, refs, own, locks, item, todo, links, mainVars>>

-----------------------------------------------------------------------------
(* The working set and the sites (glb.cpp).                                *)

Url(w) == item[w].uri

\* variant: one too many is kept
Remembered_OneMore(s) == IF Len(s) > Cache + 1 THEN Tail(s) ELSE s

Remembered(s) == IF Len(s) > Cache THEN Tail(s) ELSE s

\* variant: only the last pages are looked at
Add_RecentOnly(w) ==
  /\ At(w, "add") /\ MuFree
  /\ IF Url(w) \in ToSet(recent)
     THEN /\ Goto(w, "loop") /\ item' = [item EXCEPT ![w] = None]
          /\ UNCHANGED <<uris, recent>>
     ELSE /\ recent' = Remembered(Append(recent, Url(w)))
          /\ uris' = uris \cup {Url(w)}
          /\ Goto(w, "site") /\ UNCHANGED item
  /\ UNCHANGED <<alive, q, refs, own, winst, locks, flip, todo, links, mainVars, aborted>>

\* add_2_ws
Add(w) ==
  /\ At(w, "add") /\ MuFree
  /\ IF Url(w) \in uris \cup ToSet(recent)
     THEN /\ Goto(w, "loop") /\ item' = [item EXCEPT ![w] = None]
          /\ UNCHANGED <<uris, recent>>
     ELSE /\ recent' = Remembered(Append(recent, Url(w)))
          /\ uris' = uris \cup {Url(w)}
          /\ Goto(w, "site") /\ UNCHANGED item
  /\ UNCHANGED <<alive, q, refs, own, winst, locks, flip, todo, links, mainVars, aborted>>

\* is_site: a page shares the site of the others, if there is one already
FindSite(w) ==
  /\ At(w, "site") /\ MuFree
  /\ LET s == SiteOf[Url(w)]
     IN  IF refs[s] > 0
         THEN refs' = [refs EXCEPT ![s] = @ + 1] /\ Goto(w, "dig")
         ELSE Goto(w, "newsite") /\ UNCHANGED refs
  /\ UNCHANGED <<alive, q, uris, recent, own, winst, locks, flip, item, todo, links, mainVars, aborted>>

\* variant: the site is entered anew
NewSite_Resets(w) ==
  /\ At(w, "newsite") /\ MuFree
  /\ refs' = [refs EXCEPT ![SiteOf[Url(w)]] = 1]
  /\ Goto(w, "dig")
  /\ UNCHANGED <<alive, q, uris, recent, own, winst, locks, flip, item, todo, links, mainVars, aborted>>

\* new_site: if another thread has entered the site in the meantime, the page
\* is counted with it, and keeps the wsite it has made for itself alone
NewSite(w) ==
  /\ At(w, "newsite") /\ MuFree
  /\ LET s == SiteOf[Url(w)]
     IN  /\ refs' = [refs EXCEPT ![s] = @ + 1]
         /\ own' = IF refs[s] > 0 THEN own \cup {w} ELSE own
  /\ Goto(w, "dig")
  /\ UNCHANGED <<alive, q, uris, recent, winst, locks, flip, item, todo, links, mainVars, aborted>>

\* a page whose address cannot be read has no site and is not looked at
BadAddress(w) ==
  /\ At(w, "site") /\ Goto(w, "unset")
  /\ UNCHANGED <<alive, shared, winst, locks, flip, item, todo, links, mainVars, aborted>>

\* an exception in its constructor leaves no page, and ends the crawl
NoPage(w) ==
  /\ At(w, "site") \/ At(w, "newsite")
  /\ Goto(w, "unset") /\ alive' = FALSE
  /\ UNCHANGED <<shared, winst, locks, flip, item, todo, links, mainVars, aborted>>

\* del_site: with the last page the site goes, whose destructor takes the
\* database lock while this one is held
DelSite(w) ==
  /\ At(w, "delsite") /\ MuFree
  /\ LET s == SiteOf[Url(w)]
     IN  /\ refs' = [refs EXCEPT ![s] = @ - 1]
         /\ IF refs[s] = 1
            THEN muHolder' = w /\ Goto(w, "server")
            ELSE Goto(w, "unset") /\ UNCHANGED muHolder
  /\ UNCHANGED <<alive, q, uris, recent, own, winst, dbHolder, flip, item, todo, links, mainVars, aborted>>

UpdateServer(w) ==
  /\ At(w, "server") /\ DbFree
  /\ muHolder' = None
  /\ Goto(w, "unset")
  /\ UNCHANGED <<alive, shared, winst, dbHolder, flip, item, todo, links, mainVars, aborted>>

\* remove_4_ws, when the page has been deleted: its links go with it, a wsite of
\* its own does not
Unset(w) ==
  /\ At(w, "unset") /\ MuFree
  /\ uris' = uris \ {Url(w)} /\ own' = own \ {w}
  /\ item' = [item EXCEPT ![w] = None] /\ links' = [links EXCEPT ![w] = <<>>]
  /\ Goto(w, "loop")
  /\ UNCHANGED <<alive, q, recent, refs, winst, locks, flip, todo, mainVars, aborted>>

-----------------------------------------------------------------------------
(* A page (webpage.cpp).                                                   *)

Deeper(w) == IF item[w].level < Depth THEN LinksOf[Url(w)] ELSE <<>>

\* _add_page: links to pages some thread is at are left out
AddPage(w, u, level) ==
  /\ MuFree
  /\ links' = IF u \in uris THEN links
              ELSE [links EXCEPT ![w] = Append(@, [uri |-> u, level |-> level])]

\* the lock of the database is given back, if the thread has it
LetGo(w) == dbHolder' = IF dbHolder = w THEN None ELSE dbHolder

\* dig, when there is nothing to be read: robots, the header of the page
DigNothing(w) ==
  /\ At(w, "dig") /\ Goto(w, "delsite")
  /\ UNCHANGED <<alive, shared, winst, locks, flip, item, todo, links, mainVars, aborted>>

\* the page a redirected one has moved to is found, as deep as the first; but
\* dig ends without queueing it
DigRedirected(w) ==
  /\ At(w, "dig") /\ Goto(w, "delsite")
  /\ \E u \in Uri : AddPage(w, u, item[w].level)
  /\ UNCHANGED <<alive, shared, winst, locks, flip, item, todo, mainVars, aborted>>

\* an exception anywhere in it ends the crawl, and what was found goes with the page
DigThrows(w) ==
  /\ pc[w] \in Fetching \cup {"unchanged", "parse", "dblinks", "enqueue"} /\ ~aborted
  /\ Goto(w, "delsite") /\ alive' = FALSE
  /\ todo' = [todo EXCEPT ![w] = <<>>] /\ LetGo(w)
  /\ UNCHANGED <<shared, winst, muHolder, flip, item, links, mainVars, aborted>>

\* _touched: the database is asked whether the page is known, and stays locked
\* while the page is fetched to compare it ...
Touch(w) ==
  /\ At(w, "dig") /\ DbFree
  /\ dbHolder' = w /\ Goto(w, "touch")
  /\ UNCHANGED <<alive, shared, winst, muHolder, flip, item, todo, links, mainVars, aborted>>

\* ... and the page is new or has changed, has been done in this session, or is
\* the same as before
Touched(w) ==
  /\ At(w, "touch") /\ dbHolder' = None
  /\ \E l \in {"fetch", "enqueue", "unchanged"} : Goto(w, l)
  /\ UNCHANGED <<alive, shared, winst, muHolder, flip, item, todo, links, mainVars, aborted>>

\* a new or a changed page is fetched, unless it has been already, and parsed
DigPage(w) ==
  /\ At(w, "fetch") /\ Goto(w, "parse")
  /\ todo' = [todo EXCEPT ![w] = Deeper(w)]
  /\ UNCHANGED <<alive, shared, winst, locks, flip, item, links, mainVars, aborted>>

\* nothing has come: there is nothing to be queued either
DigEmpty(w) ==
  /\ At(w, "fetch") /\ Goto(w, "enqueue")
  /\ UNCHANGED <<alive, shared, winst, locks, flip, item, todo, links, mainVars, aborted>>

\* an unchanged one has its links read back from the database, which stays
\* locked meanwhile
DigUnchanged(w) ==
  /\ At(w, "unchanged") /\ Goto(w, "dblinks")
  /\ DbFree /\ dbHolder' = w
  /\ todo' = [todo EXCEPT ![w] = Deeper(w)]
  /\ UNCHANGED <<alive, shared, winst, muHolder, flip, item, links, mainVars, aborted>>

\* the next link of the page is a level deeper
NextLink(w) ==
  /\ AddPage(w, Head(todo[w]), item[w].level + 1)
  /\ todo' = [todo EXCEPT ![w] = Tail(@)]

Parse(w) ==
  /\ At(w, "parse")
  /\ IF alive /\ todo[w] # <<>>
     THEN NextLink(w) /\ UNCHANGED pc
     ELSE todo' = [todo EXCEPT ![w] = <<>>] /\ Goto(w, "enqueue") /\ UNCHANGED links
  /\ UNCHANGED <<alive, shared, winst, locks, flip, item, mainVars, aborted>>

DbLinks(w) ==
  /\ At(w, "dblinks")
  /\ IF todo[w] # <<>>
     THEN NextLink(w) /\ UNCHANGED <<pc, dbHolder>>
     ELSE dbHolder' = None /\ Goto(w, "enqueue") /\ UNCHANGED <<todo, links>>
  /\ UNCHANGED <<alive, shared, winst, muHolder, flip, item, mainVars, aborted>>

\* _enqueue_links, with the database locked from the first to the last.  A link
\* that finds the cache full is gone
EnqueueLinks(w) ==
  /\ At(w, "enqueue") /\ dbHolder \in {None, w} /\ links[w] # <<>>
  /\ IF Overflows(q, Head(links[w]))
     THEN \E o \in Written(q) : q' = o.queue /\ alive' = (alive /\ o.ok)
     ELSE q' = Enqueued(q, Head(links[w])) /\ UNCHANGED alive
  /\ dbHolder' = w /\ links' = [links EXCEPT ![w] = Tail(@)]
  /\ UNCHANGED <<uris, recent, refs, own, winst, muHolder, pc, flip, item, todo, mainVars, aborted>>

AllQueued(w) ==
  /\ At(w, "enqueue") /\ dbHolder \in {None, w} /\ links[w] = <<>>
  /\ dbHolder' = None /\ Goto(w, "delsite")
  /\ UNCHANGED <<alive, shared, winst, muHolder, flip, item, todo, links, mainVars, aborted>>

-----------------------------------------------------------------------------
(* The main thread (main.cpp).                                             *)

MainAt(l) == main = l /\ ~aborted

SizeOf(x) == IF x = "uris" THEN Cardinality(uris) ELSE Len(q[x])

\* what it sees makes it sleep and look again, unless it is to end
Sees == main' = (IF alive THEN "sleep" ELSE "flush") /\ unread' = {}

Wake ==
  /\ MainAt("sleep") /\ main' = "look" /\ unread' = Sizeable
  /\ UNCHANGED <<alive, shared, winst, locks, local, stopped, aborted>>

\* buzzy reads the three sizes without a lock, one after the other ...
Look(x) ==
  /\ MainAt("look") /\ x \in unread
  /\ IF SizeOf(x) > 0 THEN Sees ELSE unread' = unread \ {x} /\ UNCHANGED main
  /\ UNCHANGED <<alive, shared, winst, locks, local, stopped, aborted>>

\* variant: the table is not asked
AskTable_Not ==
  /\ MainAt("look") /\ unread = {}
  /\ main' = "flush" /\ UNCHANGED unread
  /\ UNCHANGED <<alive, shared, winst, locks, local, stopped, aborted>>

\* ... and then asks the table
AskTable ==
  /\ MainAt("look") /\ unread = {}
  /\ IF q.que # <<>> THEN Sees ELSE main' = "flush" /\ UNCHANGED unread
  /\ UNCHANGED <<alive, shared, winst, locks, local, stopped, aborted>>

Flush ==
  /\ MainAt("flush") /\ DbFree
  /\ \E o \in Flushed(q) : q' = o.queue /\ alive' = (alive /\ o.ok)
  /\ main' = "stop"
  /\ UNCHANGED <<uris, recent, refs, own, winst, locks, local, unread, stopped, aborted>>

\* stop_thread, one thread after the other
StopThread(w) ==
  /\ MainAt("stop") /\ w \notin stopped
  /\ \A v \in stopped : pc[v] = "out"
  /\ stopped' = stopped \cup {w}
  /\ UNCHANGED <<alive, shared, winst, locks, local, main, unread, aborted>>

Done ==
  /\ MainAt("stop") /\ stopped = Worker /\ \A w \in Worker : pc[w] = "out"
  /\ main' = "done"
  /\ UNCHANGED <<alive, shared, winst, locks, local, unread, stopped, aborted>>

\* ControlC
ControlC ==
  /\ alive /\ ~aborted /\ main # "done" /\ alive' = FALSE
  /\ UNCHANGED <<shared, winst, locks, local, mainVars, missed, aborted>>

Busy == \E w \in Worker : pc[w] \in Holding

MainStep ==
  /\ \/ \E x \in Sizeable : Look(x)
     \/ AskTable \/ Wake \/ Flush \/ Done
     \/ \E w \in Worker : StopThread(w)
  /\ missed' = ((main # "sleep" /\ missed) \/ Busy')

WorkerStep(w) ==
  /\ \/ Loop(w) \/ Dequeue(w) \/ Count(w) \/ Idle(w) \/ Add(w) \/ FindSite(w) \/ NewSite(w)
     \/ BadAddress(w) \/ NoPage(w) \/ DigNothing(w) \/ DigRedirected(w) \/ DigThrows(w)
     \/ Touch(w) \/ Touched(w) \/ DigPage(w) \/ DigEmpty(w) \/ DigUnchanged(w)
     \/ Parse(w) \/ DbLinks(w) \/ EnqueueLinks(w) \/ AllQueued(w)
     \/ DelSite(w) \/ UpdateServer(w) \/ Unset(w)
  /\ missed' = (missed \/ Busy')

Next == MainStep \/ ControlC \/ \E w \in Worker : WorkerStep(w)

Spec == Init /\ [][Next]_vars

\* every thread runs on, but a host may never answer; nobody has to press
\* Control-C
FairSpec ==
  /\ Spec /\ WF_vars(MainStep)
  /\ \A w \in Worker : WF_vars(pc[w] \notin Fetching /\ WorkerStep(w))

-----------------------------------------------------------------------------
(* Properties.                                                             *)

\* The variables have their types.
TypeOK ==
  /\ alive \in BOOLEAN /\ aborted \in BOOLEAN /\ missed \in BOOLEAN
  /\ q \in [Sizes -> Seq(Item)] /\ Len(q.proccache) <= Preque /\ Len(q.dbcache) <= Preque
  /\ uris \subseteq Uri /\ own \subseteq Worker /\ recent \in Seq(Uri) /\ Len(recent) <= Cache
  /\ refs \in [Site -> 0..Cardinality(Worker)] /\ winst \in 0..Cardinality(Worker)
  /\ dbHolder \in Worker \cup {None} /\ muHolder \in Worker \cup {None}
  /\ pc \in [Worker -> Holding \cup {"loop", "dequeue", "idle", "out"}]
  /\ flip \in [Worker -> BOOLEAN] /\ item \in [Worker -> Item \cup {None}]
  /\ todo \in [Worker -> Seq(Uri)] /\ links \in [Worker -> Seq(Item)]
  /\ main \in {"look", "sleep", "flush", "stop", "done"} /\ unread \subseteq Sizeable
  /\ stopped \subseteq Worker

\* No page is worked at by two threads at a time, whatever the queue holds
\* twice (glb.cpp:30, the working set).
OneWorker ==
  \A v, w \in Worker : v # w /\ pc[v] \in InSet /\ pc[w] \in InSet => Url(v) # Url(w)

\* The wsite that pages share is never deleted under a page and does not outlive
\* the last one, also when two threads found none and both made one: the site
\* counts both pages, although the second has a wsite of its own
\* (webpage.cpp:112, glb.cpp:98).
SitesCounted ==
  \A s \in Site : refs[s] = Cardinality({w \in Worker : pc[w] \in WithPage /\ SiteOf[Url(w)] = s})

\* The assertions of clear (glb.h:101) fail only when the crawl is interrupted:
\* a thread that is refused a page then takes the queue for empty.
AssertsWhenAlive == aborted => ~alive

Held == Queued(q) \cup (UNION {UrlsOf(links[w]) : w \in Worker})
        \cup {Url(w) : w \in {v \in Worker : pc[v] \in Holding}}

\* The main thread ends a crawl that nobody interrupts only when nothing is
\* left, or when a thread had a page while it was looking: the look takes no
\* lock, and a page on its way from the queue to the working set is in neither
\* (glb.cpp:294, thr.cpp:111).
EndExplained == main = "flush" /\ alive /\ ~missed => Held = {}

Finished(u) == \E w \in Worker : pc[w] = "unset" /\ Url(w) = u
Recent(u) == \E w \in Worker : pc[w] = "add" /\ Url(w) = u /\ u \in ToSet(recent)
Overflown(u) ==
  \E w \in Worker :
    pc[w] = "enqueue" /\ links[w] # <<>> /\ u = Head(links[w]).uri /\ Overflows(q, Head(links[w]))
Refused(u) == ~alive' /\ u \in UrlsOf(q.dbcache)
Misflushed(u) == main = "flush" /\ ~alive' /\ u \in UrlsOf(q.proccache)
Dropped(u) ==
  \E w \in Worker :
    /\ pc[w] = "unset" /\ u \in UrlsOf(links[w])
    /\ ~alive \/ \E i \in DOMAIN links[w] : links[w][i] = [uri |-> u, level |-> item[w].level]

\* A page that was found is kept, in the queue or in the hands of a thread,
\* until it has been worked at, was so lately, met a full cache (glb.cpp:241), or
\* was to be written by an INSERT that failed, which ends the crawl: always, when
\* the flush writes two rows that were read in advance (glb.cpp:370).  What goes
\* with its page is the target of a redirect (webpage.cpp:389), or the crawl has
\* been ended (thr.cpp:68).
KeptUntilWorked ==
  [][\A u \in Held \ Held' :
       Finished(u) \/ Recent(u) \/ Overflown(u) \/ Refused(u) \/ Misflushed(u) \/ Dropped(u)]_vars

\* Two threads wait for each other: one deletes a site under the lock of the
\* working set and needs the database's (glb.cpp:127), the other reads links
\* under the database's and needs the former (webpage.cpp:302, 740).
Crossed == \E v, w \in Worker : pc[v] = "server" /\ pc[w] = "dblinks"

\* A host that does not answer holds its thread for ever: no fetch has a time
\* limit (wcurl.cpp:76).
Silent == \E w \in Worker : <>[](pc[w] \in Fetching)

\* The crawl ends, by itself or after Control-C (main.cpp:36, "just wait"),
\* unless an assertion ends it, two threads hold each other's lock for ever, or a
\* host never answers.
CrawlEnds == <>(main = "done") \/ <>aborted \/ <>[]Crossed \/ Silent
=============================================================================
