-------------------------- MODULE Crawler_proofs --------------------------
(***************************************************************************)
(* Theorems about Crawler, for every number of threads, pages and sites    *)
(* and every size of the caches.                                           *)
(***************************************************************************)
EXTENDS Crawler, TLAPS, SequenceTheorems, FiniteSetTheorems

Queues == [Sizes -> Seq(Item)]

Bounded(x) == Len(x.proccache) <= Preque /\ Len(x.dbcache) <= Preque

\* A queue with one of its three sequences replaced is a queue.
LEMMA FieldSet ==
  ASSUME NEW x \in Queues, NEW s \in Sizes, NEW v \in Seq(Item)
  PROVE  /\ [x EXCEPT ![s] = v] \in Queues
         /\ \A t \in Sizes : [x EXCEPT ![s] = v][t] = IF t = s THEN v ELSE x[t]
  BY DEF Queues

\* The three sequences of a queue are sequences of items.
LEMMA Fields ==
  /\ "que" \in Sizes /\ "dbcache" \in Sizes /\ "proccache" \in Sizes
  /\ \A x \in Queues : x.que \in Seq(Item) /\ x.dbcache \in Seq(Item) /\ x.proccache \in Seq(Item)
  BY DEF Queues, Sizes

\* What _enqueue_db leaves is a queue, when the cache had room.
LEMMA EnqueuedType ==
  ASSUME NEW x \in Queues, NEW it \in Item, Bounded(x), ~Overflows(x, it)
  PROVE  Enqueued(x, it) \in Queues /\ Bounded(Enqueued(x, it))
  <1> USE PrequeAssumption
  <1>1. /\ Append(x.dbcache, it) \in Seq(Item) /\ Len(Append(x.dbcache, it)) = Len(x.dbcache) + 1
        /\ Len(x.dbcache) \in Nat
    BY Fields, AppendProperties, LenProperties
  <1>2. CASE Enqueued(x, it) = x
    BY <1>2
  <1>3. CASE Enqueued(x, it) = [x EXCEPT !.dbcache = Append(x.dbcache, it)] /\ it.uri \notin UrlsOf(x.que)
    <2>1. Len(x.dbcache) < Preque
      BY <1>1, <1>3 DEF Overflows
    <2>2. Enqueued(x, it).dbcache = Append(x.dbcache, it) /\ Enqueued(x, it).proccache = x.proccache
      BY <1>1, <1>3 DEF Queues, Sizes
    <2>3. Enqueued(x, it) \in Queues
      BY <1>1, <1>3 DEF Queues, Sizes
    <2> QED
      BY <1>1, <2>1, <2>2, <2>3 DEF Bounded
  <1> QED
    BY <1>2, <1>3 DEF Enqueued

\* An INSERT stores all of its rows or none, and is right when it stores them.
LEMMA InsertsType ==
  ASSUME NEW s \in Seq(Item), NEW i \in Inserts(s)
  PROVE  /\ i.stored \in Seq(Item) /\ i.ok \in BOOLEAN
         /\ i.stored = s \/ (i.stored = <<>> /\ ~i.ok)
  <1>1. CASE s = <<>>
    <2>1. i = [stored |-> <<>>, ok |-> TRUE]
      BY <1>1 DEF Inserts
    <2> QED
      BY <1>1, <2>1
  <1>2. CASE s # <<>>
    <2>1. i = [stored |-> s, ok |-> TRUE] \/ i = [stored |-> <<>>, ok |-> FALSE]
      BY <1>2 DEF Inserts
    <2>2. CASE i = [stored |-> s, ok |-> TRUE]
      BY <2>2
    <2>3. CASE i = [stored |-> <<>>, ok |-> FALSE]
      BY <2>3, EmptySeq
    <2> QED
      BY <2>1, <2>2, <2>3
  <1> QED
    BY <1>1, <1>2

\* What writing the cache leaves is a queue.
LEMMA WrittenType ==
  ASSUME NEW x \in Queues, NEW o \in Written(x), Bounded(x)
  PROVE  o.queue \in Queues /\ Bounded(o.queue) /\ o.ok \in BOOLEAN
  <1>1. PICK i \in Inserts(x.dbcache) :
          o = [queue |-> [x EXCEPT !.que = x.que \o i.stored, !.dbcache = <<>>], ok |-> i.ok]
    BY DEF Written
  <1>2. i.stored \in Seq(Item) /\ i.ok \in BOOLEAN
    BY <1>1, Fields, InsertsType
  <1>3. x.que \o i.stored \in Seq(Item) /\ <<>> \in Seq(Item) /\ Len(<<>>) = 0
    BY <1>2, Fields, ConcatProperties, EmptySeq
  <1> DEFINE y == [x EXCEPT !.que = x.que \o i.stored]
  <1>4. y \in Queues /\ y.proccache = x.proccache
    BY <1>3 DEF Queues, Sizes
  <1>5. o.queue = [y EXCEPT !.dbcache = <<>>] /\ o.ok = i.ok
    BY <1>1
  <1> HIDE DEF y
  <1>6. o.queue.dbcache = <<>> /\ o.queue.proccache = x.proccache /\ o.queue \in Queues
    BY <1>3, <1>4, <1>5 DEF Queues, Sizes
  <1> QED
    BY <1>2, <1>3, <1>5, <1>6, PrequeAssumption DEF Bounded

\* What _dequeue_db gives is an item, and what it leaves a queue.
LEMMA TakeFromType ==
  ASSUME NEW x \in Queues, NEW s \in Sizes, x[s] # <<>>, Bounded(x)
  PROVE  /\ TakeFrom(x, s).item \in Item /\ TakeFrom(x, s).queue \in Queues
         /\ Bounded(TakeFrom(x, s).queue)
  <1>1. x[s] \in Seq(Item) /\ Len(x[s]) \in Nat \ {0}
    BY EmptySeq DEF Queues
  <1>2. Last(x[s]) \in Item
    BY <1>1, ElementOfSeq DEF Last
  <1>3. Front(x[s]) \in Seq(Item) /\ Len(Front(x[s])) = Len(x[s]) - 1
    <2>1. \A i \in 1..(Len(x[s]) - 1) : x[s][i] \in Item
      BY <1>1, ElementOfSeq
    <2> QED
      BY <1>1, <2>1, SubSeqProperties DEF Front
  <1>4. /\ TakeFrom(x, s).queue \in Queues
        /\ \A t \in Sizes : TakeFrom(x, s).queue[t] = IF t = s THEN Front(x[s]) ELSE x[t]
    BY <1>3, FieldSet DEF TakeFrom
  <1>5. Bounded(TakeFrom(x, s).queue)
    <2>1. /\ TakeFrom(x, s).queue.dbcache \in {x.dbcache, Front(x[s])}
          /\ TakeFrom(x, s).queue.proccache \in {x.proccache, Front(x[s])}
          /\ s = "dbcache" \/ TakeFrom(x, s).queue.dbcache = x.dbcache
          /\ s = "proccache" \/ TakeFrom(x, s).queue.proccache = x.proccache
      BY <1>4, Fields
    <2>2. Len(x.dbcache) \in Nat /\ Len(x.proccache) \in Nat
      BY Fields, LenProperties
    <2> QED
      BY <1>1, <1>3, <2>1, <2>2, PrequeAssumption DEF Bounded
  <1> QED
    BY <1>2, <1>4, <1>5 DEF TakeFrom

\* What the rows read in advance leave is a queue (_dequeue_db).
LEMMA FetchedType ==
  ASSUME NEW x \in Queues, Bounded(x)
  PROVE  /\ Fetched(x) \in Queues /\ Bounded(Fetched(x))
         /\ x.que # <<>> => Fetched(x).proccache # <<>>
         /\ Fetched(x).dbcache = x.dbcache
  <1> USE PrequeAssumption
  <1> DEFINE n == AtOnce(x)
  <1>1. x.que \in Seq(Item) /\ Len(x.que) \in Nat /\ n \in 0..Len(x.que) /\ n <= Preque
    BY Fields, LenProperties DEF AtOnce
  <1>2. \A i \in 1..Len(x.que) : x.que[i] \in Item
    BY <1>1, ElementOfSeq
  <1> HIDE DEF n
  <1>3. SubSeq(x.que, 1, n) \in Seq(Item) /\ Len(SubSeq(x.que, 1, n)) = n
    BY <1>1, <1>2, SubSeqProperties
  <1>4. SubSeq(x.que, n + 1, Len(x.que)) \in Seq(Item)
    BY <1>1, <1>2, SubSeqProperties
  <1> DEFINE y == [x EXCEPT !.proccache = SubSeq(x.que, 1, n)]
  <1>5. y \in Queues /\ y.proccache = SubSeq(x.que, 1, n) /\ y.dbcache = x.dbcache
    BY <1>3 DEF Queues, Sizes
  <1>6. Fetched(x) = [y EXCEPT !.que = SubSeq(x.que, n + 1, Len(x.que))]
    BY DEF Fetched, n
  <1> HIDE DEF y
  <1>7. /\ Fetched(x) \in Queues /\ Fetched(x).proccache = SubSeq(x.que, 1, n)
        /\ Fetched(x).dbcache = x.dbcache
    BY <1>4, <1>5, <1>6 DEF Queues, Sizes
  <1>8. x.que # <<>> => n # 0
    BY <1>1, EmptySeq DEF n, AtOnce
  <1>9. Fetched(x).proccache = <<>> => n = 0
    BY <1>3, <1>7, EmptySeq
  <1> QED
    BY <1>1, <1>3, <1>7, <1>8, <1>9 DEF Bounded

\* From a queue that has something, _dequeue_db gives an item and leaves a queue.
LEMMA DequeuedType ==
  ASSUME NEW x \in Queues, HasNext(x), Bounded(x)
  PROVE  /\ Dequeued(x).item \in Item /\ Dequeued(x).queue \in Queues
         /\ Bounded(Dequeued(x).queue)
  <1> DEFINE y == IF x.proccache = <<>> THEN Fetched(x) ELSE x
  <1>1. y \in Queues /\ Bounded(y)
    BY FetchedType
  <1>2. y.proccache = <<>> => y.dbcache # <<>>
    BY FetchedType DEF HasNext, Sizes
  <1>3. Dequeued(x) = IF y.proccache # <<>> THEN TakeFrom(y, "proccache") ELSE TakeFrom(y, "dbcache")
    BY DEF Dequeued
  <1> HIDE DEF y
  <1> QED
    BY <1>1, <1>2, <1>3, Fields, TakeFromType

\* What flush leaves is a queue whose caches are empty, and nothing when there
\* was nothing.
LEMMA FlushedType ==
  ASSUME NEW x \in Queues, NEW o \in Flushed(x)
  PROVE  /\ o.queue \in Queues /\ Bounded(o.queue) /\ o.ok \in BOOLEAN
         /\ HasNext(o.queue) => HasNext(x)
         /\ \E r \in Inserts(x.dbcache), k \in Inserts(x.proccache) :
              o.queue.que = (x.que \o r.stored) \o k.stored /\ (o.ok <=> r.ok /\ k.ok)
  <1> USE PrequeAssumption
  <1> DEFINE F(r, k) == [queue |-> [NoPages EXCEPT !.que = (x.que \o r.stored) \o k.stored],
                         ok |-> r.ok /\ k.ok]
  <1>0. Flushed(x) = {F(r, k) : r \in Inserts(x.dbcache),
                                k \in {i \in Inserts(x.proccache) : Len(i.stored) <= 1}}
    BY DEF Flushed
  <1> HIDE DEF F
  <1>1. PICK r \in Inserts(x.dbcache), k \in Inserts(x.proccache) : o = F(r, k)
    BY <1>0
  <1>2. /\ r.stored \in Seq(Item) /\ k.stored \in Seq(Item) /\ r.ok \in BOOLEAN /\ k.ok \in BOOLEAN
        /\ r.stored \in {x.dbcache, <<>>} /\ k.stored \in {x.proccache, <<>>}
    BY <1>1, Fields, InsertsType
  <1>3. <<>> \in Seq(Item) /\ Len(<<>>) = 0
    BY EmptySeq
  <1>4. (x.que \o r.stored) \o k.stored \in Seq(Item)
    BY <1>2, Fields, ConcatProperties
  <1>5. NoPages \in Queues /\ \A s \in Sizes : NoPages[s] = <<>>
    BY <1>3 DEF NoPages, Queues
  <1>6. o.queue = [NoPages EXCEPT !.que = (x.que \o r.stored) \o k.stored] /\ o.ok = (r.ok /\ k.ok)
    BY <1>1 DEF F
  <1>7. /\ o.queue \in Queues /\ o.queue.proccache = <<>> /\ o.queue.dbcache = <<>>
        /\ o.queue.que = (x.que \o r.stored) \o k.stored
    BY <1>4, <1>5, <1>6 DEF Queues, Sizes
  <1>8. ASSUME ~HasNext(x) PROVE ~HasNext(o.queue)
    <2>1. x.que = <<>> /\ x.dbcache = <<>> /\ x.proccache = <<>>
      BY <1>8, Fields DEF HasNext
    <2>2. r.stored = <<>> /\ k.stored = <<>>
      BY <1>2, <2>1
    <2>3. o.queue.que = <<>>
      BY <1>3, <1>7, <2>1, <2>2, ConcatEmptySeq
    <2> QED
      BY <1>7, <2>3 DEF HasNext, Sizes
  <1>9. o.ok \in BOOLEAN /\ (o.ok <=> r.ok /\ k.ok)
    BY <1>2, <1>6
  <1>10. Bounded(o.queue)
    BY <1>3, <1>7 DEF Bounded
  <1> QED
    BY <1>7, <1>8, <1>9, <1>10

-----------------------------------------------------------------------------
(* Types.                                                                  *)

Points == Holding \cup {"loop", "dequeue", "idle", "out"}

\* TypeOK but for the two counters, whose ranges follow from what they count.
Types ==
  /\ alive \in BOOLEAN /\ aborted \in BOOLEAN /\ missed \in BOOLEAN
  /\ q \in Queues /\ Bounded(q)
  /\ uris \subseteq Uri /\ own \subseteq Worker /\ recent \in Seq(Uri) /\ Len(recent) <= Cache
  /\ refs \in [Site -> Int] /\ winst \in Int
  /\ dbHolder \in Worker \cup {None} /\ muHolder \in Worker \cup {None}
  /\ pc \in [Worker -> Points]
  /\ flip \in [Worker -> BOOLEAN] /\ item \in [Worker -> Item \cup {None}]
  /\ todo \in [Worker -> Seq(Uri)] /\ links \in [Worker -> Seq(Item)]
  /\ main \in {"look", "sleep", "flush", "stop", "done"} /\ unread \subseteq Sizeable
  /\ stopped \subseteq Worker

\* A thread that is past taking a page has one, a link is followed only above
\* the last level, and a thread is counted as working from its first page on.
Placed ==
  \A w \in Worker :
    /\ pc[w] \in Holding => item[w] \in Item
    /\ pc[w] \in {"parse", "dblinks"} /\ todo[w] # <<>> => item[w].level < Depth
    /\ pc[w] = "count" => ~flip[w]
    /\ pc[w] \in (Holding \ {"count"}) \cup {"idle"} => flip[w]

TypeInv == Types /\ Placed

\* The last pages stay as few as the bound on them says (add_2_ws).
LEMMA RememberedType ==
  ASSUME NEW s \in Seq(Uri), Len(s) <= Cache, NEW u \in Uri
  PROVE  /\ Remembered(Append(s, u)) \in Seq(Uri)
         /\ Len(Remembered(Append(s, u))) <= Cache
  <1>1. /\ Append(s, u) \in Seq(Uri) /\ Append(s, u) # <<>>
        /\ Len(Append(s, u)) = Len(s) + 1 /\ Len(s) \in Nat
    BY AppendProperties, LenProperties
  <1>2. Tail(Append(s, u)) \in Seq(Uri) /\ Len(Tail(Append(s, u))) = Len(s)
    BY <1>1, HeadTailProperties
  <1> QED
    BY <1>1, <1>2, CrawlerAssumption DEF Remembered

\* A thread that is at a page is at a page of some site.
LEMMA SiteType ==
  ASSUME NEW w \in Worker, item[w] \in Item
  PROVE  Url(w) \in Uri /\ SiteOf[Url(w)] \in Site
  BY CrawlerAssumption DEF Url, Item

\* Every variable has its type, and each thread the page it is at.
THEOREM TypeInvariant == Spec => []TypeInv
<1>1. Init => TypeInv
  <2> SUFFICES ASSUME Init PROVE TypeInv
    OBVIOUS
  <2>1. <<>> \in Seq(Uri) /\ <<>> \in Seq(Item) /\ Len(<<>>) = 0
    BY EmptySeq
  <2>2. q \in Queues /\ Bounded(q) /\ 0 <= Cache
    BY CrawlerAssumption DEF Init, Queues, Bounded
  <2>3. /\ refs \in [Site -> Int] /\ pc \in [Worker -> Points] /\ flip \in [Worker -> BOOLEAN]
        /\ item \in [Worker -> Item \cup {None}]
        /\ todo \in [Worker -> Seq(Uri)] /\ links \in [Worker -> Seq(Item)]
    BY <2>1 DEF Init, Points
  <2>4. recent \in Seq(Uri) /\ Len(recent) <= Cache
    BY <2>1, <2>2 DEF Init
  <2>5. /\ winst \in Int /\ uris \subseteq Uri /\ own \subseteq Worker /\ stopped \subseteq Worker /\ unread \subseteq Sizeable
        /\ dbHolder \in Worker \cup {None} /\ muHolder \in Worker \cup {None}
        /\ main \in {"look", "sleep", "flush", "stop", "done"}
    BY DEF Init
  <2>6. alive \in BOOLEAN /\ aborted \in BOOLEAN /\ missed \in BOOLEAN
    BY DEF Init
  <2>7. Types
    BY <2>2, <2>3, <2>4, <2>5, <2>6 DEF Types
  <2> QED
    BY <2>7 DEF Init, TypeInv, Placed, Holding, Fetching
<1>2. TypeInv /\ [Next]_vars => TypeInv'
  <2> SUFFICES ASSUME TypeInv, [Next]_vars PROVE TypeInv'
    OBVIOUS
  <2> USE DEF TypeInv, Types, Points, Holding, Fetching, shared, locks, local, mainVars, At, Goto, MainAt
  <2>0. missed' \in BOOLEAN
    BY DEF Next, MainStep, WorkerStep, ControlC, Busy, vars
  <2>1. ASSUME NEW w \in Worker, Loop(w) PROVE TypeInv'
    BY <2>0, <2>1 DEF Loop, Placed
  <2>2. ASSUME NEW w \in Worker, Dequeue(w) PROVE TypeInv'
    <3>1. CASE alive /\ HasNext(q)
      <4>1. /\ item' = [item EXCEPT ![w] = Dequeued(q).item] /\ q' = Dequeued(q).queue
            /\ pc' = [pc EXCEPT ![w] = IF flip[w] THEN "add" ELSE "count"]
        BY <2>2, <3>1 DEF Dequeue
      <4>2. Dequeued(q).item \in Item /\ q' \in Queues /\ Bounded(q')
        BY <3>1, <4>1, DequeuedType
      <4> HIDE DEF Bounded
      <4>3. Types'
        BY <2>0, <2>2, <4>1, <4>2 DEF Dequeue
      <4>4. Placed'
        BY <2>2, <4>1, <4>2 DEF Dequeue, Placed
      <4> QED
        BY <4>3, <4>4
    <3>2. CASE ~(alive /\ HasNext(q))
      <4>1. pc' = [pc EXCEPT ![w] = IF flip[w] THEN "idle" ELSE "loop"] /\ UNCHANGED <<item, q>>
        BY <2>2, <3>2 DEF Dequeue
      <4> HIDE DEF Bounded
      <4>2. Types'
        BY <2>0, <2>2, <4>1 DEF Dequeue
      <4>3. Placed'
        BY <2>2, <4>1 DEF Dequeue, Placed
      <4> QED
        BY <4>2, <4>3
    <3> QED
      BY <3>1, <3>2
  <2>3. ASSUME NEW w \in Worker, Count(w) PROVE TypeInv'
    BY <2>0, <2>3 DEF Count, Placed
  <2>4. ASSUME NEW w \in Worker, Idle(w) PROVE TypeInv'
    <3>1. recent' \in Seq(Uri) /\ Len(recent') <= Cache /\ aborted' \in BOOLEAN
      <4>1. recent' = <<>> \/ recent' = recent
        BY <2>4 DEF Idle
      <4>2. <<>> \in Seq(Uri) /\ Len(<<>>) = 0 /\ 0 <= Cache
        BY EmptySeq, CrawlerAssumption
      <4>3. aborted' \in BOOLEAN
        BY <2>4 DEF Idle
      <4> QED
        BY <4>1, <4>2, <4>3
    <3>2. Types'
      BY <2>0, <2>4, <3>1 DEF Idle, Bounded
    <3>3. Placed'
      BY <2>4 DEF Idle, Placed
    <3> QED
      BY <3>2, <3>3
  <2>5. ASSUME NEW w \in Worker, Add(w) PROVE TypeInv'
    <3>1. Url(w) \in Uri
      BY <2>5 DEF Add, Placed, Url, Item
    <3>2. recent' \in Seq(Uri) /\ Len(recent') <= Cache /\ uris' \subseteq Uri
      BY <2>5, <3>1, RememberedType DEF Add
    <3>3. /\ \/ pc' = [pc EXCEPT ![w] = "loop"] /\ item' = [item EXCEPT ![w] = None]
             \/ pc' = [pc EXCEPT ![w] = "site"] /\ item' = item
          /\ pc[w] = "add" /\ UNCHANGED <<flip, todo>>
      BY <2>5 DEF Add
    <3>4. Placed'
      BY <3>3, ZenonT(40) DEF Placed
    <3>5. Types'
      BY <2>0, <2>5, <3>2, <3>3 DEF Add, Bounded
    <3> QED
      BY <3>4, <3>5
  <2>6. ASSUME NEW w \in Worker, FindSite(w) PROVE TypeInv'
    <3>1. refs' \in [Site -> Int]
      BY <2>6, SiteType DEF FindSite, Placed
    <3> QED
      BY <2>0, <2>6, <3>1, ZenonT(40) DEF FindSite, Placed
  <2>7. ASSUME NEW w \in Worker, NewSite(w) PROVE TypeInv'
    <3>1. refs' \in [Site -> Int] /\ own' \subseteq Worker
      BY <2>7, SiteType DEF NewSite, Placed
    <3>2. Types'
      BY <2>0, <2>7, <3>1 DEF NewSite, Bounded
    <3>3. Placed'
      BY <2>7 DEF NewSite, Placed
    <3> QED
      BY <3>2, <3>3
  <2>8. ASSUME NEW w \in Worker, DigNothing(w) \/ DigEmpty(w) PROVE TypeInv'
    <3>1. Types'
      BY <2>0, <2>8 DEF DigNothing, DigEmpty, Bounded
    <3>2. CASE DigNothing(w)
      BY <3>1, <3>2, ZenonT(40) DEF DigNothing, Placed
    <3>3. CASE DigEmpty(w)
      BY <3>1, <3>3, ZenonT(40) DEF DigEmpty, Placed
    <3> QED
      BY <2>8, <3>2, <3>3
  <2>9. ASSUME NEW w \in Worker, DigThrows(w) PROVE TypeInv'
    <3>1. <<>> \in Seq(Uri) /\ dbHolder' \in Worker \cup {None}
      BY <2>9, EmptySeq DEF DigThrows, LetGo
    <3>2. Types'
      BY <2>0, <2>9, <3>1 DEF DigThrows, Bounded
    <3>3. Placed'
      BY <2>9 DEF DigThrows, Placed
    <3> QED
      BY <3>2, <3>3
  <2>27. ASSUME NEW w \in Worker, BadAddress(w) \/ NoPage(w) PROVE TypeInv'
    <3>1. Types'
      BY <2>0, <2>27 DEF BadAddress, NoPage, Bounded
    <3>2. CASE BadAddress(w)
      BY <3>1, <3>2, ZenonT(40) DEF BadAddress, Placed
    <3>3. CASE NoPage(w)
      BY <3>1, <3>3, ZenonT(40) DEF NoPage, Placed
    <3> QED
      BY <2>27, <3>2, <3>3
  <2>28. ASSUME NEW w \in Worker, Touch(w) \/ Touched(w) PROVE TypeInv'
    <3>1. Types'
      BY <2>0, <2>28 DEF Touch, Touched, Bounded
    <3>2. Placed'
      BY <2>28 DEF Touch, Touched, Placed
    <3> QED
      BY <3>1, <3>2
  <2>29. ASSUME NEW w \in Worker, DigRedirected(w) PROVE TypeInv'
    <3>1. PICK u \in Uri : AddPage(w, u, item[w].level)
      BY <2>29 DEF DigRedirected
    <3>2. item[w] \in Item
      BY <2>29 DEF DigRedirected, Placed
    <3>3. Append(links[w], [uri |-> u, level |-> item[w].level]) \in Seq(Item)
      BY <3>2, AppendProperties DEF Item
    <3>4. links' \in [Worker -> Seq(Item)]
      BY <3>1, <3>3 DEF AddPage
    <3>5. Types'
      BY <2>0, <2>29, <3>4 DEF DigRedirected, Bounded
    <3>6. Placed'
      BY <2>29 DEF DigRedirected, Placed
    <3> QED
      BY <3>5, <3>6
  <2>10. ASSUME NEW w \in Worker, item[w] \in Item
         PROVE  Deeper(w) \in Seq(Uri) /\ (Deeper(w) # <<>> => item[w].level < Depth)
    BY <2>10, EmptySeq, CrawlerAssumption DEF Deeper, Url, Item
  <2>11. ASSUME NEW w \in Worker, DigPage(w) PROVE TypeInv'
    <3>1. item[w] \in Item
      BY <2>11 DEF DigPage, Placed
    <3> QED
      BY <2>0, <2>10, <2>11, <3>1 DEF DigPage, Placed
  <2>12. ASSUME NEW w \in Worker, DigUnchanged(w) PROVE TypeInv'
    <3>1. item[w] \in Item
      BY <2>12 DEF DigUnchanged, Placed
    <3> QED
      BY <2>0, <2>10, <2>12, <3>1 DEF DigUnchanged, Placed
  <2>13. ASSUME NEW w \in Worker, pc[w] \in {"parse", "dblinks"}, todo[w] # <<>>, NextLink(w)
         PROVE  todo' \in [Worker -> Seq(Uri)] /\ links' \in [Worker -> Seq(Item)]
    <3>1. Head(todo[w]) \in Uri /\ Tail(todo[w]) \in Seq(Uri)
      BY <2>13, HeadTailProperties
    <3>2. [uri |-> Head(todo[w]), level |-> item[w].level + 1] \in Item
      <4>1. item[w] \in Item /\ item[w].level < Depth
        BY <2>13 DEF Placed
      <4>2. item[w].level \in 0..Depth /\ Depth \in Nat
        BY <4>1, CrawlerAssumption DEF Item
      <4>3. item[w].level + 1 \in 0..Depth
        BY <4>1, <4>2
      <4> QED
        BY <3>1, <4>3 DEF Item
    <3>3. Append(links[w], [uri |-> Head(todo[w]), level |-> item[w].level + 1]) \in Seq(Item)
      BY <3>2, AppendProperties
    <3> QED
      BY <2>13, <3>1, <3>3 DEF NextLink, AddPage
  <2>14. ASSUME NEW w \in Worker, Parse(w) PROVE TypeInv'
    <3>1. CASE alive /\ todo[w] # <<>>
      <4>1. NextLink(w) /\ UNCHANGED pc
        BY <2>14, <3>1 DEF Parse
      <4>2. \A v \in Worker : v # w => todo'[v] = todo[v]
        BY <4>1 DEF NextLink, AddPage
      <4>3. item[w].level < Depth
        BY <2>14, <3>1 DEF Parse, Placed
      <4>4. Placed'
        BY <2>14, <4>1, <4>2, <4>3 DEF Parse, Placed
      <4> QED
        BY <2>0, <2>13, <2>14, <3>1, <4>1, <4>4 DEF Parse
    <3>2. CASE ~(alive /\ todo[w] # <<>>)
      <4>1. <<>> \in Seq(Uri)
        BY EmptySeq
      <4> QED
        <5>1. /\ todo' = [todo EXCEPT ![w] = <<>>] /\ pc' = [pc EXCEPT ![w] = "enqueue"]
              /\ links' = links /\ pc[w] = "parse"
          BY <2>14, <3>2 DEF Parse
        <5>2. Placed'
          BY <2>14, <5>1 DEF Parse, Placed
        <5>3. Types'
          BY <2>0, <2>14, <4>1, <5>1 DEF Parse, Bounded
        <5> QED
          BY <5>2, <5>3
    <3> QED
      BY <3>1, <3>2
  <2>15. ASSUME NEW w \in Worker, DbLinks(w) PROVE TypeInv'
    <3>1. CASE todo[w] # <<>>
      <4>1. NextLink(w) /\ UNCHANGED <<pc, dbHolder>>
        BY <2>15, <3>1 DEF DbLinks
      <4>2. \A v \in Worker : v # w => todo'[v] = todo[v]
        BY <4>1 DEF NextLink, AddPage
      <4>3. item[w].level < Depth
        BY <2>15, <3>1 DEF DbLinks, Placed
      <4>4. Placed'
        BY <2>15, <4>1, <4>2, <4>3 DEF DbLinks, Placed
      <4> QED
        BY <2>0, <2>13, <2>15, <3>1, <4>1, <4>4, ZenonT(40) DEF DbLinks
    <3>2. CASE todo[w] = <<>>
      BY <2>0, <2>15, <3>2 DEF DbLinks, Placed
    <3> QED
      BY <3>1, <3>2
  <2>16. ASSUME NEW w \in Worker, EnqueueLinks(w) PROVE TypeInv'
    <3>1. Head(links[w]) \in Item /\ Tail(links[w]) \in Seq(Item)
      BY <2>16, HeadTailProperties DEF EnqueueLinks
    <3>2. q' \in Queues /\ Bounded(q') /\ alive' \in BOOLEAN
      <4>1. CASE Overflows(q, Head(links[w]))
        BY <2>16, <4>1, WrittenType DEF EnqueueLinks
      <4>2. CASE ~Overflows(q, Head(links[w]))
        BY <2>16, <3>1, <4>2, EnqueuedType DEF EnqueueLinks
      <4> QED
        BY <4>1, <4>2
    <3>3. links' = [links EXCEPT ![w] = Tail(links[w])] /\ dbHolder' = w /\ UNCHANGED pc
      BY <2>16 DEF EnqueueLinks
    <3> QED
      BY <2>0, <2>16, <3>1, <3>2, <3>3 DEF EnqueueLinks, Placed
  <2>30. ASSUME NEW w \in Worker, AllQueued(w) PROVE TypeInv'
    BY <2>0, <2>30, ZenonT(40) DEF AllQueued, Placed
  <2>17. ASSUME NEW w \in Worker, DelSite(w) PROVE TypeInv'
    <3>1. refs' \in [Site -> Int] /\ muHolder' \in Worker \cup {None}
      BY <2>17, SiteType DEF DelSite, Placed
    <3> QED
      <4>1. Types'
        BY <2>0, <2>17, <3>1 DEF DelSite, Bounded
      <4>2. Placed'
        BY <2>17 DEF DelSite, Placed
      <4> QED
        BY <4>1, <4>2
  <2>18. ASSUME NEW w \in Worker, UpdateServer(w) PROVE TypeInv'
    BY <2>0, <2>18 DEF UpdateServer, Placed
  <2>19. ASSUME NEW w \in Worker, Unset(w) PROVE TypeInv'
    <3>1. links' \in [Worker -> Seq(Item)] /\ own' \subseteq Worker
      BY <2>19, EmptySeq DEF Unset
    <3>2. Types'
      BY <2>0, <2>19, <3>1 DEF Unset, Bounded
    <3>3. Placed'
      BY <2>19 DEF Unset, Placed
    <3> QED
      BY <3>2, <3>3
  <2>20. ASSUME NEW x \in Sizeable, Look(x) PROVE TypeInv'
    BY <2>0, <2>20 DEF Look, Sees, Placed
  <2>21. CASE AskTable \/ Wake
    BY <2>0, <2>21 DEF AskTable, Wake, Sees, Placed
  <2>22. CASE Flush
    <3>1. q' \in Queues /\ Bounded(q') /\ alive' \in BOOLEAN
      <4>1. PICK o \in Flushed(q) : q' = o.queue /\ alive' = (alive /\ o.ok)
        BY <2>22 DEF Flush
      <4>2. o.queue \in Queues /\ Bounded(o.queue)
        BY <4>1, FlushedType
      <4> QED
        BY <4>1, <4>2
    <3> QED
      BY <2>0, <2>22, <3>1 DEF Flush, Placed
  <2>23. ASSUME NEW w \in Worker, StopThread(w) PROVE TypeInv'
    BY <2>0, <2>23 DEF StopThread, Placed
  <2>24. CASE Done
    BY <2>0, <2>24 DEF Done, Placed
  <2>25. CASE ControlC
    BY <2>25 DEF ControlC, Placed
  <2>26. CASE UNCHANGED vars
    BY <2>26 DEF vars, Placed
  <2> QED
    BY <2>1, <2>2, <2>3, <2>4, <2>5, <2>6, <2>7, <2>8, <2>9, <2>11, <2>12, <2>14, <2>15, <2>16,
       <2>17, <2>18, <2>19, <2>20, <2>21, <2>22, <2>23, <2>24, <2>25, <2>26, <2>27,
       <2>28, <2>29, <2>30 DEF Next, MainStep, WorkerStep
<1> QED
  BY <1>1, <1>2, PTL DEF Spec

-----------------------------------------------------------------------------
(* What the threads share agrees with where they are.                      *)

Pages(s) == {w \in Worker : pc[w] \in WithPage /\ SiteOf[Url(w)] = s}
Flipped == {w \in Worker : flip[w]}

\* The working set holds the pages at work, and no others.
WorkingSet ==
  /\ \A w \in Worker : pc[w] \in InSet => Url(w) \in uris
  /\ \A u \in uris : \E w \in Worker : pc[w] \in InSet /\ Url(w) = u

Counted == winst = Cardinality(Flipped)

\* While a thread has found the queue empty and goes to rest, whatever is
\* queued again has a thread that is at work.
Rested ==
  alive /\ HasNext(q) /\ (\E w \in Worker : pc[w] = "idle")
    => \E v \in Worker : flip[v] /\ pc[v] # "idle"

CrawlInv == WorkingSet /\ OneWorker /\ SitesCounted /\ Counted /\ Rested /\ AssertsWhenAlive

Digs(w) ==
  DigNothing(w) \/ DigRedirected(w) \/ DigThrows(w) \/ DigPage(w) \/ DigEmpty(w) \/ DigUnchanged(w)

Quiet(w) ==
  \/ Loop(w) \/ BadAddress(w) \/ NoPage(w) \/ Digs(w) \/ Touch(w) \/ Touched(w)
  \/ Parse(w) \/ DbLinks(w) \/ EnqueueLinks(w) \/ AllQueued(w) \/ UpdateServer(w)

\* The steps of a thread that are of no account here.
LEMMA QuietSteps ==
  ASSUME TypeInv, NEW w \in Worker, Quiet(w)
  PROVE  /\ UNCHANGED <<uris, refs, winst, flip, item, aborted>> /\ (alive' => alive)
         /\ \A v \in Worker : /\ pc'[v] \in InSet <=> pc[v] \in InSet
                              /\ pc'[v] \in WithPage <=> pc[v] \in WithPage
                              /\ pc'[v] = "idle" <=> pc[v] = "idle"
         /\ q' = q \/ (flip[w] /\ pc[w] # "idle")
  <1> USE DEF TypeInv, Types, shared, locks, local, mainVars, At, Goto, InSet, WithPage, Holding, Fetching
  <1>1. pc \in [Worker -> Points] /\ (pc[w] = "enqueue" => flip[w])
    BY DEF Placed
  <1>2. ASSUME NEW l \in InSet, pc[w] \in InSet, pc' = [pc EXCEPT ![w] = l],
               l \in WithPage <=> pc[w] \in WithPage
        PROVE  \A v \in Worker : /\ pc'[v] \in InSet <=> pc[v] \in InSet
                                 /\ pc'[v] \in WithPage <=> pc[v] \in WithPage
                                 /\ pc'[v] = "idle" <=> pc[v] = "idle"
    BY <1>1, <1>2
  <1>3. CASE Loop(w)
    BY <1>1, <1>3 DEF Loop
  <1>4. CASE DigNothing(w) \/ DigPage(w) \/ DigEmpty(w) \/ DigUnchanged(w)
    BY <1>2, <1>4 DEF DigNothing, DigPage, DigEmpty, DigUnchanged
  <1>5. CASE DigThrows(w)
    BY <1>2, <1>5 DEF DigThrows
  <1>6. CASE DigRedirected(w)
    BY <1>2, <1>6 DEF DigRedirected
  <1>7. CASE BadAddress(w) \/ NoPage(w)
    BY <1>2, <1>7 DEF BadAddress, NoPage
  <1>8. CASE Parse(w)
    BY <1>2, <1>8 DEF Parse
  <1>9. CASE DbLinks(w)
    BY <1>2, <1>9 DEF DbLinks
  <1>10. CASE EnqueueLinks(w)
    <2>1. alive' => alive
      BY <1>10 DEF EnqueueLinks
    <2> QED
      BY <1>1, <1>10, <2>1 DEF EnqueueLinks
  <1>11. CASE UpdateServer(w)
    BY <1>2, <1>11 DEF UpdateServer
  <1>12. CASE AllQueued(w)
    BY <1>2, <1>12 DEF AllQueued
  <1>13. CASE Touch(w)
    BY <1>2, <1>13 DEF Touch
  <1>14. CASE Touched(w)
    <2>1. PICK l \in {"fetch", "enqueue", "unchanged"} : pc' = [pc EXCEPT ![w] = l]
      BY <1>14 DEF Touched
    <2> QED
      BY <1>2, <1>14, <2>1 DEF Touched
  <1> QED
    BY <1>3, <1>4, <1>5, <1>6, <1>7, <1>8, <1>9, <1>10, <1>11, <1>12, <1>13, <1>14 DEF Quiet, Digs

\* The main thread touches nothing but the queue, which it never fills.
LEMMA MainSteps ==
  ASSUME TypeInv, MainStep \/ ControlC \/ UNCHANGED vars
  PROVE  /\ UNCHANGED <<uris, refs, winst, flip, item, pc, aborted>>
         /\ (alive' => alive) /\ (HasNext(q') => HasNext(q))
  <1> USE DEF shared, locks, local, mainVars
  <1>1. CASE Flush
    <2>1. PICK o \in Flushed(q) : q' = o.queue /\ alive' = (alive /\ o.ok)
      BY <1>1 DEF Flush
    <2>2. HasNext(q') => HasNext(q)
      BY <2>1, FlushedType DEF TypeInv, Types
    <2> QED
      BY <1>1, <2>1, <2>2 DEF Flush
  <1>2. CASE UNCHANGED <<q, uris, refs, winst, flip, item, pc, aborted>> /\ (alive' => alive)
    BY <1>2
  <1> QED
    BY <1>1, <1>2 DEF MainStep, ControlC, vars, Look, AskTable, Wake, StopThread, Done

\* The pages of a site that threads are at can be counted.
LEMMA PagesFinite ==
  ASSUME NEW S, S \subseteq Worker
  PROVE  IsFiniteSet(S) /\ Cardinality(S) \in 0..Cardinality(Worker)
  BY CrawlerAssumption, FS_Subset, FS_CardinalityType

\* A thread that gets a page of a site is counted with it.
LEMMA PageEnters ==
  ASSUME TypeInv, SitesCounted, NEW w \in Worker, item[w] \in Item,
         pc[w] \notin WithPage, pc' = [pc EXCEPT ![w] = "dig"], item' = item,
         refs' = [refs EXCEPT ![SiteOf[Url(w)]] = @ + 1]
  PROVE  SitesCounted'
  <1> DEFINE s0 == SiteOf[Url(w)]
  <1>1. pc \in [Worker -> Points] /\ refs \in [Site -> Int] /\ s0 \in Site
    BY SiteType DEF TypeInv, Types
  <1>2. SUFFICES ASSUME NEW s \in Site PROVE refs'[s] = Cardinality(Pages(s)')
    BY DEF SitesCounted, Pages
  <1>3. refs[s] = Cardinality(Pages(s)) /\ IsFiniteSet(Pages(s))
    BY PagesFinite DEF SitesCounted, Pages
  <1>4. Pages(s)' = IF s = s0 THEN Pages(s) \cup {w} ELSE Pages(s)
    BY <1>1 DEF Pages, Url, WithPage, InSet, Holding, Fetching
  <1>5. w \notin Pages(s)
    BY DEF Pages
  <1>6. refs'[s] = IF s = s0 THEN refs[s] + 1 ELSE refs[s]
    BY <1>1
  <1>7. CASE s = s0
    <2>1. Cardinality(Pages(s) \cup {w}) = Cardinality(Pages(s)) + 1
      BY <1>3, <1>5, FS_AddElement
    <2> QED
      BY <1>3, <1>4, <1>6, <1>7, <2>1
  <1>8. CASE s # s0
    BY <1>3, <1>4, <1>6, <1>8
  <1> QED
    BY <1>7, <1>8

\* A thread that gives a page of a site back is no longer counted with it (del_site).
LEMMA PageLeaves ==
  ASSUME TypeInv, SitesCounted, NEW w \in Worker, item[w] \in Item,
         pc[w] = "delsite", NEW l \in {"server", "unset"}, pc' = [pc EXCEPT ![w] = l], item' = item,
         refs' = [refs EXCEPT ![SiteOf[Url(w)]] = @ - 1]
  PROVE  SitesCounted'
  <1> DEFINE s0 == SiteOf[Url(w)]
  <1>1. pc \in [Worker -> Points] /\ refs \in [Site -> Int] /\ s0 \in Site
    BY SiteType DEF TypeInv, Types
  <1>2. SUFFICES ASSUME NEW s \in Site PROVE refs'[s] = Cardinality(Pages(s)')
    BY DEF SitesCounted, Pages
  <1>3. refs[s] = Cardinality(Pages(s)) /\ IsFiniteSet(Pages(s))
    BY PagesFinite DEF SitesCounted, Pages
  <1>4. Pages(s)' = IF s = s0 THEN Pages(s) \ {w} ELSE Pages(s)
    BY <1>1 DEF Pages, Url, WithPage, InSet, Holding, Fetching
  <1>5. s = s0 => w \in Pages(s)
    BY DEF Pages, WithPage, InSet, Holding, Fetching
  <1>6. refs'[s] = IF s = s0 THEN refs[s] - 1 ELSE refs[s]
    BY <1>1
  <1>7. CASE s = s0
    <2>1. Cardinality(Pages(s) \ {w}) = Cardinality(Pages(s)) - 1
      BY <1>3, <1>5, <1>7, FS_RemoveElement
    <2> QED
      BY <1>3, <1>4, <1>6, <1>7, <2>1
  <1>8. CASE s # s0
    BY <1>3, <1>4, <1>6, <1>8
  <1> QED
    BY <1>7, <1>8

\* Where no thread gets or leaves a page, the sites need not change.
LEMMA PagesStay ==
  ASSUME SitesCounted, UNCHANGED refs,
         \A w \in Worker : /\ pc'[w] \in WithPage <=> pc[w] \in WithPage
                           /\ pc[w] \in WithPage => item'[w] = item[w]
  PROVE  SitesCounted'
  <1>1. \A s \in Site : Pages(s)' = Pages(s)
    BY DEF Pages, Url
  <1> QED
    BY <1>1 DEF SitesCounted, Pages

\* The invariant the properties below follow from: the working set holds the
\* pages of the threads and nothing else, no page twice, sites and the count of
\* busy threads (_winstance) agree with where the threads are, and while a thread
\* goes to rest, what is queued has another thread that works.
THEOREM CrawlInvariant == Spec => []CrawlInv
<1>1. Init => CrawlInv
  <2> SUFFICES ASSUME Init PROVE CrawlInv
    OBVIOUS
  <2>1. \A w \in Worker : pc[w] = "loop" /\ ~flip[w]
    BY DEF Init
  <2>2. Flipped = {} /\ \A s \in Site : Pages(s) = {}
    BY <2>1 DEF Flipped, Pages, WithPage, InSet, Holding, Fetching
  <2>3. Counted /\ SitesCounted
    BY <2>2, FS_EmptySet DEF Init, Counted, SitesCounted, Pages
  <2>4. WorkingSet /\ OneWorker /\ Rested /\ AssertsWhenAlive
    BY <2>1 DEF Init, WorkingSet, OneWorker, Rested, AssertsWhenAlive, InSet, Holding,
                Fetching
  <2> QED
    BY <2>3, <2>4 DEF CrawlInv
<1>2. TypeInv /\ CrawlInv /\ [Next]_vars => CrawlInv'
  <2> SUFFICES ASSUME TypeInv, CrawlInv, [Next]_vars PROVE CrawlInv'
    OBVIOUS
  <2>0. /\ pc \in [Worker -> Points] /\ flip \in [Worker -> BOOLEAN]
        /\ item \in [Worker -> Item \cup {None}]
        /\ \A w \in Worker : /\ pc[w] \in Holding => item[w] \in Item
                             /\ pc[w] = "count" => ~flip[w]
                             /\ pc[w] \in (Holding \ {"count"}) \cup {"idle"} => flip[w]
    BY DEF TypeInv, Types, Placed
  <2> USE DEF CrawlInv, shared, locks, local, mainVars, At, Goto
  <2>1. CASE MainStep \/ ControlC \/ UNCHANGED vars
    <3>1. /\ UNCHANGED <<uris, refs, winst, flip, item, pc, aborted>>
          /\ (alive' => alive) /\ (HasNext(q') => HasNext(q))
      BY <2>1, MainSteps
    <3>2. SitesCounted'
      BY <3>1, PagesStay
    <3> QED
      BY <3>1, <3>2 DEF WorkingSet, OneWorker, Counted, Flipped, Rested, AssertsWhenAlive, Url
  <2>2. ASSUME NEW w \in Worker, Quiet(w) PROVE CrawlInv'
    <3>1. SitesCounted'
      BY <2>2, QuietSteps, PagesStay
    <3>2. WorkingSet' /\ OneWorker'
      BY <2>2, QuietSteps DEF WorkingSet, OneWorker, Url
    <3>3. Counted' /\ AssertsWhenAlive'
      BY <2>2, QuietSteps DEF Counted, Flipped, AssertsWhenAlive
    <3>4. Rested'
      BY <2>2, QuietSteps DEF Rested
    <3> QED
      BY <3>1, <3>2, <3>3, <3>4
  <2>3. ASSUME NEW w \in Worker, Dequeue(w) PROVE CrawlInv'
    <3>1. /\ UNCHANGED <<uris, refs, winst, flip, aborted, alive>> /\ pc[w] = "dequeue"
          /\ \/ /\ HasNext(q) /\ pc' = [pc EXCEPT ![w] = IF flip[w] THEN "add" ELSE "count"]
             \/ /\ ~(alive /\ HasNext(q)) /\ q' = q
                /\ pc' = [pc EXCEPT ![w] = IF flip[w] THEN "idle" ELSE "loop"]
          /\ \A v \in Worker \ {w} : item'[v] = item[v]
      BY <2>0, <2>3 DEF Dequeue
    <3>2. /\ \A v \in Worker \ {w} : pc'[v] = pc[v]
          /\ pc'[w] \in {"add", "count", "idle", "loop"}
      BY <2>0, <3>1
    <3>3. SitesCounted'
      BY <3>1, <3>2, PagesStay DEF WithPage, InSet, Holding, Fetching
    <3>4. WorkingSet' /\ OneWorker'
      BY <3>1, <3>2 DEF WorkingSet, OneWorker, Url, InSet, Holding, Fetching
    <3>5. Counted' /\ AssertsWhenAlive'
      BY <3>1 DEF Counted, Flipped, AssertsWhenAlive
    <3>6. Rested'
      BY <2>0, <3>1, <3>2 DEF Rested
    <3> QED
      BY <3>3, <3>4, <3>5, <3>6
  <2>4. ASSUME NEW w \in Worker, Count(w) PROVE CrawlInv'
    <3>1. /\ UNCHANGED <<uris, refs, item, q, aborted, alive>> /\ pc[w] = "count" /\ ~flip[w]
          /\ winst' = winst + 1 /\ flip' = [flip EXCEPT ![w] = TRUE] /\ pc' = [pc EXCEPT ![w] = "add"]
      BY <2>0, <2>4 DEF Count
    <3>2. (\A v \in Worker \ {w} : pc'[v] = pc[v]) /\ pc'[w] = "add" /\ flip'[w]
      BY <2>0, <3>1
    <3>3. SitesCounted'
      BY <3>1, <3>2, PagesStay DEF WithPage, InSet, Holding, Fetching
    <3>4. WorkingSet' /\ OneWorker'
      BY <3>1, <3>2 DEF WorkingSet, OneWorker, Url, InSet, Holding, Fetching
    <3>5. Flipped' = Flipped \cup {w} /\ w \notin Flipped /\ IsFiniteSet(Flipped)
      BY <2>0, <3>1, PagesFinite DEF Flipped
    <3>6. Counted'
      BY <3>1, <3>5, FS_AddElement DEF Counted
    <3>7. Rested' /\ AssertsWhenAlive'
      BY <3>1, <3>2 DEF Rested, AssertsWhenAlive
    <3> QED
      BY <3>3, <3>4, <3>6, <3>7
  <2>5. ASSUME NEW w \in Worker, Idle(w) PROVE CrawlInv'
    <3>1. /\ UNCHANGED <<uris, refs, item, q, alive>> /\ pc[w] = "idle" /\ flip[w]
          /\ winst' = winst - 1 /\ flip' = [flip EXCEPT ![w] = FALSE] /\ pc' = [pc EXCEPT ![w] = "loop"]
      BY <2>0, <2>5 DEF Idle
    <3>2. (\A v \in Worker \ {w} : pc'[v] = pc[v] /\ flip'[v] = flip[v]) /\ pc'[w] = "loop" /\ ~flip'[w]
      BY <2>0, <3>1
    <3>3. SitesCounted'
      BY <3>1, <3>2, PagesStay DEF WithPage, InSet, Holding, Fetching
    <3>4. WorkingSet' /\ OneWorker'
      BY <3>1, <3>2 DEF WorkingSet, OneWorker, Url, InSet, Holding, Fetching
    <3>5. Flipped' = Flipped \ {w} /\ w \in Flipped /\ IsFiniteSet(Flipped)
      BY <2>0, <3>1, PagesFinite DEF Flipped
    <3>6. Counted'
      BY <3>1, <3>5, FS_RemoveElement DEF Counted
    <3>7. Rested'
      BY <3>1, <3>2 DEF Rested
    <3>8. ASSUME winst' = 0, alive
          PROVE  ~HasNext(q) /\ uris = {} /\ \A s \in Site : refs[s] = 0
      <4>1. Flipped' = {}
        BY <3>5, <3>6, <3>8, FS_EmptySet, FS_RemoveElement DEF Counted
      <4>2. \A v \in Worker : v # w => ~flip[v]
        BY <4>1, <3>2 DEF Flipped
      <4>3. \A v \in Worker : pc[v] \notin InSet
        BY <2>0, <3>1, <4>2 DEF InSet, Holding, Fetching
      <4>4. ~HasNext(q)
        BY <3>1, <3>8, <4>2 DEF Rested
      <4>5. uris = {}
        BY <4>3 DEF WorkingSet
      <4>6. \A s \in Site : Pages(s) = {}
        BY <4>3 DEF Pages, WithPage
      <4> QED
        BY <4>4, <4>5, <4>6, FS_EmptySet DEF SitesCounted, Pages
    <3>9. AssertsWhenAlive'
      <4>1. CASE winst' = 0 /\ alive
        <5>1. q.proccache = <<>> /\ q.dbcache = <<>>
          BY <3>8, <4>1 DEF HasNext, Sizes
        <5>2. uris = {} /\ \A s \in Site : refs[s] = 0
          BY <3>8, <4>1
        <5>3. aborted' = \/ q.proccache # <<>> \/ q.dbcache # <<>>
                         \/ uris # {} \/ \E s \in Site : refs[s] # 0
          BY <2>5, <4>1 DEF Idle
        <5> QED
          BY <5>1, <5>2, <5>3 DEF AssertsWhenAlive
      <4>2. CASE winst' # 0
        <5>1. aborted' = aborted
          BY <2>5, <4>2 DEF Idle
        <5> QED
          BY <2>0, <3>1, <5>1 DEF AssertsWhenAlive
      <4>3. CASE ~alive
        BY <3>1, <4>3 DEF AssertsWhenAlive
      <4> QED
        BY <4>1, <4>2, <4>3
    <3> QED
      BY <3>3, <3>4, <3>6, <3>7, <3>9
  <2>6. ASSUME NEW w \in Worker, Add(w) PROVE CrawlInv'
    <3>1. /\ UNCHANGED <<refs, winst, flip, q, aborted, alive>> /\ pc[w] = "add"
          /\ \/ /\ pc' = [pc EXCEPT ![w] = "loop"] /\ item' = [item EXCEPT ![w] = None]
                /\ uris' = uris
             \/ /\ pc' = [pc EXCEPT ![w] = "site"] /\ item' = item
                /\ uris' = uris \cup {Url(w)} /\ Url(w) \notin uris
      BY <2>6 DEF Add
    <3>2. \A v \in Worker \ {w} : pc'[v] = pc[v] /\ item'[v] = item[v]
      BY <2>0, <3>1
    <3>3. pc'[w] \in {"loop", "site"}
      BY <2>0, <3>1
    <3>4. SitesCounted'
      BY <3>1, <3>2, <3>3, PagesStay DEF WithPage, InSet, Holding, Fetching
    <3>5. WorkingSet' /\ OneWorker'
      <4>1. CASE pc' = [pc EXCEPT ![w] = "loop"] /\ uris' = uris
        <5>1. \A v \in Worker : pc'[v] \in InSet <=> pc[v] \in InSet
          BY <2>0, <3>1, <4>1 DEF InSet, Holding, Fetching
        <5>2. \A v \in Worker : pc[v] \in InSet => Url(v)' = Url(v)
          BY <3>1, <3>2 DEF Url, InSet, Holding, Fetching
        <5> QED
          BY <4>1, <5>1, <5>2 DEF WorkingSet, OneWorker
      <4>2. CASE /\ pc' = [pc EXCEPT ![w] = "site"] /\ item' = item
                 /\ uris' = uris \cup {Url(w)} /\ Url(w) \notin uris
        <5>1. \A v \in Worker : pc'[v] \in InSet <=> (v = w \/ pc[v] \in InSet)
          BY <2>0, <4>2 DEF InSet, Holding, Fetching
        <5>2. \A v \in Worker : Url(v)' = Url(v)
          BY <4>2 DEF Url
        <5>3. \A v \in Worker : pc[v] \in InSet => Url(v) # Url(w)
          BY <4>2 DEF WorkingSet
        <5> QED
          BY <4>2, <5>1, <5>2, <5>3 DEF WorkingSet, OneWorker
      <4> QED
        BY <3>1, <4>1, <4>2
    <3>6. Counted' /\ Rested' /\ AssertsWhenAlive'
      BY <3>1, <3>2, <3>3 DEF Counted, Flipped, Rested, AssertsWhenAlive
    <3> QED
      BY <3>4, <3>5, <3>6
  <2>7. ASSUME NEW w \in Worker, NEW l \in InSet, pc[w] \in InSet, pc' = [pc EXCEPT ![w] = l],
               UNCHANGED <<uris, winst, flip, item, q, aborted, alive>>
        PROVE  WorkingSet' /\ OneWorker' /\ Counted' /\ Rested' /\ AssertsWhenAlive'
    <3>1. /\ \A v \in Worker : pc'[v] \in InSet <=> pc[v] \in InSet
          /\ \A v \in Worker : pc'[v] = "idle" <=> pc[v] = "idle"
      BY <2>0, <2>7 DEF InSet, Holding, Fetching
    <3> QED
      BY <2>7, <3>1 DEF WorkingSet, OneWorker, Counted, Flipped, Rested, AssertsWhenAlive, Url
  <2>8. ASSUME NEW w \in Worker, FindSite(w) PROVE CrawlInv'
    <3>1. /\ pc[w] = "site" /\ item[w] \in Item
          /\ UNCHANGED <<uris, winst, flip, item, q, aborted, alive>>
          /\ \/ /\ pc' = [pc EXCEPT ![w] = "dig"]
                /\ refs' = [refs EXCEPT ![SiteOf[Url(w)]] = @ + 1]
             \/ pc' = [pc EXCEPT ![w] = "newsite"] /\ refs' = refs
      BY <2>0, <2>8 DEF FindSite, Holding
    <3>2. SitesCounted'
      <4>1. CASE pc' = [pc EXCEPT ![w] = "newsite"] /\ refs' = refs
        BY <2>0, <3>1, <4>1, PagesStay DEF WithPage, InSet, Holding, Fetching
      <4> QED
        BY <3>1, <4>1, PageEnters DEF WithPage
    <3> QED
      BY <2>7, <3>1, <3>2 DEF InSet, Holding, Fetching
  <2>9. ASSUME NEW w \in Worker, NewSite(w) PROVE CrawlInv'
    <3>1. /\ pc[w] = "newsite" /\ item[w] \in Item
          /\ UNCHANGED <<uris, winst, flip, item, q, aborted, alive>>
          /\ pc' = [pc EXCEPT ![w] = "dig"]
          /\ refs' = [refs EXCEPT ![SiteOf[Url(w)]] = @ + 1]
      BY <2>0, <2>9 DEF NewSite, Holding
    <3>2. SitesCounted'
      BY <3>1, PageEnters DEF WithPage
    <3> QED
      BY <2>7, <3>1, <3>2 DEF InSet, Holding, Fetching
  <2>10. ASSUME NEW w \in Worker, DelSite(w) PROVE CrawlInv'
    <3>1. /\ pc[w] = "delsite" /\ item[w] \in Item
          /\ UNCHANGED <<uris, winst, flip, item, q, aborted, alive>>
          /\ \/ pc' = [pc EXCEPT ![w] = "server"]
             \/ pc' = [pc EXCEPT ![w] = "unset"]
          /\ refs' = [refs EXCEPT ![SiteOf[Url(w)]] = @ - 1]
      BY <2>0, <2>10 DEF DelSite, Holding
    <3>2. SitesCounted'
      BY <3>1, PageLeaves
    <3> QED
      BY <2>7, <3>1, <3>2 DEF InSet, Holding, Fetching
  <2>11. ASSUME NEW w \in Worker, Unset(w) PROVE CrawlInv'
    <3>1. /\ UNCHANGED <<refs, winst, flip, q, aborted, alive>> /\ pc[w] = "unset"
          /\ pc' = [pc EXCEPT ![w] = "loop"] /\ item' = [item EXCEPT ![w] = None]
          /\ uris' = uris \ {Url(w)}
      BY <2>11 DEF Unset
    <3>2. (\A v \in Worker \ {w} : pc'[v] = pc[v] /\ item'[v] = item[v]) /\ pc'[w] = "loop"
      BY <2>0, <3>1
    <3>3. SitesCounted'
      BY <3>1, <3>2, PagesStay DEF WithPage, InSet, Holding, Fetching
    <3>4. WorkingSet' /\ OneWorker'
      <4>1. \A v \in Worker : pc'[v] \in InSet <=> (v # w /\ pc[v] \in InSet)
        BY <3>2 DEF InSet, Holding, Fetching
      <4>2. \A v \in Worker : v # w => Url(v)' = Url(v)
        BY <3>2 DEF Url
      <4>3. \A v \in Worker : v # w /\ pc[v] \in InSet => Url(v) # Url(w)
        BY <3>1 DEF OneWorker, InSet, Holding
      <4> QED
        BY <3>1, <4>1, <4>2, <4>3 DEF WorkingSet, OneWorker
    <3>5. Counted' /\ Rested' /\ AssertsWhenAlive'
      BY <3>1, <3>2 DEF Counted, Flipped, Rested, AssertsWhenAlive
    <3> QED
      BY <3>3, <3>4, <3>5
  <2> QED
    BY <2>1, <2>2, <2>3, <2>4, <2>5, <2>6, <2>8, <2>9, <2>10, <2>11 DEF Next, WorkerStep, Quiet, Digs
<1> QED
  BY <1>1, <1>2, TypeInvariant, PTL DEF Spec

-----------------------------------------------------------------------------
(* The properties.                                                         *)

\* Every variable has its type; the counters stay within the number of threads.
THEOREM TypeCorrect == Spec => []TypeOK
<1>1. TypeInv /\ CrawlInv => TypeOK
  <2> SUFFICES ASSUME TypeInv, CrawlInv PROVE TypeOK
    OBVIOUS
  <2>1. winst \in 0..Cardinality(Worker)
    BY PagesFinite DEF CrawlInv, Counted, Flipped
  <2>2. refs \in [Site -> 0..Cardinality(Worker)]
    BY PagesFinite DEF CrawlInv, SitesCounted, TypeInv, Types
  <2> QED
    BY <2>1, <2>2 DEF TypeInv, Types, TypeOK, Queues, Bounded, Points
<1> QED
  BY <1>1, TypeInvariant, CrawlInvariant, PTL

\* No page is worked at by two threads at a time.
THEOREM OneWorkerHolds == Spec => []OneWorker
<1>1. CrawlInv => OneWorker
  BY DEF CrawlInv
<1> QED
  BY <1>1, CrawlInvariant, PTL

\* Every site counts the pages that share it.
THEOREM SitesCountedHolds == Spec => []SitesCounted
<1>1. CrawlInv => SitesCounted
  BY DEF CrawlInv
<1> QED
  BY <1>1, CrawlInvariant, PTL

\* No assertion fails in a crawl that is not interrupted.
THEOREM AssertsHold == Spec => []AssertsWhenAlive
<1>1. CrawlInv => AssertsWhenAlive
  BY DEF CrawlInv
<1> QED
  BY <1>1, CrawlInvariant, PTL

-----------------------------------------------------------------------------
(* The end of the crawl.                                                   *)

\* Links are in the hands of a thread only from when it finds them until its page
\* is gone; those it has not queued by then are a redirect's, or the crawl is over.
LinksInHand ==
  \A w \in Worker :
    /\ pc[w] \notin {"parse", "dblinks", "enqueue", "delsite", "server", "unset"} => links[w] = <<>>
    /\ pc[w] \in {"delsite", "server", "unset"} =>
         ~alive \/ \A i \in DOMAIN links[w] : links[w][i].level = item[w].level

\* A look during which no thread had a page has found the caches it has read
\* empty, and they still are; one that ended the crawl, the whole queue.
SeenEmpty ==
  /\ Busy => missed
  /\ main = "look" /\ ~missed => \A x \in {"proccache", "dbcache"} \ unread : q[x] = <<>>
  /\ main = "flush" /\ alive /\ ~missed => ~HasNext(q)

LookInv == LinksInHand /\ SeenEmpty

\* A step of a thread after which none had a page since the look began leaves
\* the queue alone.
LEMMA MissedSteps ==
  ASSUME NEW w \in Worker, WorkerStep(w), TypeInv, SeenEmpty
  PROVE  /\ UNCHANGED <<main, unread>> /\ (alive' => alive)
         /\ missed' = (missed \/ Busy')
         /\ ~missed' => q' = q
  <1> USE DEF shared, locks, local, mainVars, At, Goto
  <1>1. missed' = (missed \/ Busy')
    BY DEF WorkerStep
  <1>2. UNCHANGED <<main, unread>> /\ (alive' => alive)
    <2>1. CASE Loop(w) \/ Count(w) \/ FindSite(w) \/ NewSite(w) \/ BadAddress(w) \/ NoPage(w)
      BY <2>1 DEF Loop, Count, FindSite, NewSite, BadAddress, NoPage
    <2>2. CASE Digs(w)
      BY <2>2 DEF Digs, DigNothing, DigRedirected, DigThrows, DigPage, DigEmpty, DigUnchanged
    <2>3. CASE Touch(w) \/ Touched(w) \/ Parse(w) \/ DbLinks(w)
      BY <2>3 DEF Touch, Touched, Parse, DbLinks
    <2>4. CASE AllQueued(w) \/ DelSite(w) \/ UpdateServer(w) \/ Unset(w)
      BY <2>4 DEF AllQueued, DelSite, UpdateServer, Unset
    <2>5. CASE Add(w)
      BY <2>5 DEF Add
    <2>6. CASE Idle(w)
      BY <2>6 DEF Idle
    <2>7. CASE Dequeue(w)
      BY <2>7 DEF Dequeue
    <2>8. CASE EnqueueLinks(w)
      BY <2>8 DEF EnqueueLinks
    <2> QED
      BY <2>1, <2>2, <2>3, <2>4, <2>5, <2>6, <2>7, <2>8 DEF WorkerStep, Digs
  <1>5. (q' = q) \/ Dequeue(w) \/ EnqueueLinks(w)
    <2>1. CASE Loop(w) \/ Count(w) \/ Idle(w) \/ Add(w) \/ FindSite(w) \/ NewSite(w)
      BY <2>1 DEF Loop, Count, Idle, Add, FindSite, NewSite
    <2>2. CASE Digs(w)
      BY <2>2 DEF Digs, DigNothing, DigRedirected, DigThrows, DigPage, DigEmpty, DigUnchanged
    <2>3. CASE Touch(w) \/ Touched(w) \/ Parse(w) \/ DbLinks(w) \/ BadAddress(w) \/ NoPage(w)
      BY <2>3 DEF Touch, Touched, Parse, DbLinks, BadAddress, NoPage
    <2>4. CASE AllQueued(w) \/ DelSite(w) \/ UpdateServer(w) \/ Unset(w)
      BY <2>4 DEF AllQueued, DelSite, UpdateServer, Unset
    <2> QED
      BY <2>1, <2>2, <2>3, <2>4 DEF WorkerStep, Digs
  <1>3. CASE Dequeue(w)
    <2>1. pc \in [Worker -> Points]
      BY DEF TypeInv, Types
    <2>2. q' = q \/ pc' = [pc EXCEPT ![w] = IF flip[w] THEN "add" ELSE "count"]
      BY <1>3 DEF Dequeue
    <2>3. q' = q \/ Busy'
      BY <2>1, <2>2 DEF Busy, Holding, Fetching
    <2> QED
      BY <1>1, <1>2, <2>3
  <1>4. CASE EnqueueLinks(w)
    BY <1>1, <1>2, <1>4 DEF EnqueueLinks, SeenEmpty, Busy, Holding, Fetching
  <1> QED
    BY <1>1, <1>2, <1>3, <1>4, <1>5

\* What a look has seen empty stays so until a thread has a page.
THEOREM LookInvariant == Spec => []LookInv
<1>1. Init => LookInv
  BY DEF Init, LookInv, LinksInHand, SeenEmpty, Busy, Holding, Fetching, Sizeable
<1>2. TypeInv /\ LookInv /\ [Next]_vars => LookInv'
  <2> SUFFICES ASSUME TypeInv, LookInv, [Next]_vars PROVE LookInv'
    OBVIOUS
  <2>0. /\ pc \in [Worker -> Points] /\ links \in [Worker -> Seq(Item)] /\ q \in Queues
        /\ item \in [Worker -> Item \cup {None}]
        /\ \A w \in Worker : pc[w] \in Holding => item[w] \in Item
    BY DEF TypeInv, Types, Placed
  <2> USE DEF LookInv, shared, locks, local, mainVars, At, Goto, MainAt
  <2>1. ASSUME NEW w \in Worker, WorkerStep(w) PROVE LookInv'
    <3>1. SeenEmpty'
      BY <2>1, MissedSteps DEF SeenEmpty
    <3>2. LinksInHand'
      <4> USE DEF LinksInHand
      <4>0. alive' => alive
        BY <2>1, MissedSteps
      <4>1. CASE Loop(w) \/ Count(w) \/ Idle(w) \/ FindSite(w) \/ NewSite(w)
        <5>1. PICK l \in {"dequeue", "out", "add", "loop", "dig", "newsite"} :
                pc' = [pc EXCEPT ![w] = l]
          BY <4>1 DEF Loop, Count, Idle, FindSite, NewSite
        <5>2. links' = links /\ item' = item
          BY <4>1 DEF Loop, Count, Idle, FindSite, NewSite
        <5>3. pc[w] \in {"loop", "count", "idle", "site", "newsite"}
          BY <4>1 DEF Loop, Count, Idle, FindSite, NewSite
        <5>4. links[w] = <<>>
          BY <5>3
        <5> QED
          BY <2>0, <4>0, <5>1, <5>2, <5>4
      <4>2. CASE Dequeue(w)
        <5>1. links' = links /\ pc[w] = "dequeue" /\ \A v \in Worker \ {w} : item'[v] = item[v]
          BY <2>0, <4>2 DEF Dequeue
        <5>2. PICK l \in {"add", "count", "idle", "loop"} : pc' = [pc EXCEPT ![w] = l]
          BY <4>2 DEF Dequeue
        <5> QED
          BY <2>0, <4>0, <5>1, <5>2
      <4>3. CASE Add(w)
        <5>1. links' = links /\ pc[w] = "add" /\ \A v \in Worker \ {w} : item'[v] = item[v]
          BY <2>0, <4>3 DEF Add
        <5>2. PICK l \in {"loop", "site"} : pc' = [pc EXCEPT ![w] = l]
          BY <4>3 DEF Add
        <5> QED
          BY <2>0, <4>0, <5>1, <5>2
      <4>4. CASE DigNothing(w) \/ DigPage(w) \/ DigEmpty(w) \/ DigUnchanged(w)
        <5>1. PICK l \in {"delsite", "parse", "enqueue", "dblinks"} : pc' = [pc EXCEPT ![w] = l]
          BY <4>4 DEF DigNothing, DigPage, DigEmpty, DigUnchanged
        <5>2. links' = links /\ item' = item /\ pc[w] \in {"dig", "fetch", "unchanged"}
          BY <4>4 DEF DigNothing, DigPage, DigEmpty, DigUnchanged
        <5>3. links[w] = <<>> /\ DOMAIN links[w] = {}
          BY <5>2
        <5> QED
          BY <2>0, <4>0, <5>1, <5>2, <5>3
      <4>5. CASE DigThrows(w)
        <5>1. links' = links /\ ~alive' /\ pc' = [pc EXCEPT ![w] = "delsite"]
          BY <4>5 DEF DigThrows
        <5> QED
          BY <2>0, <5>1
      <4>6. CASE DigRedirected(w)
        <5>1. PICK u \in Uri : AddPage(w, u, item[w].level)
          BY <4>6 DEF DigRedirected
        <5>2. /\ pc[w] = "dig" /\ links[w] = <<>> /\ item' = item /\ alive' = alive
              /\ pc' = [pc EXCEPT ![w] = "delsite"] /\ item[w] \in Item
          BY <2>0, <4>6 DEF DigRedirected, Holding, Fetching
        <5> DEFINE it == [uri |-> u, level |-> item[w].level]
        <5>3. it \in Item /\ it.level = item[w].level
          BY <5>2 DEF Item
        <5> HIDE DEF it
        <5>4. /\ \A v \in Worker \ {w} : links'[v] = links[v]
              /\ links'[w] = <<>> \/ links'[w] = Append(<<>>, it)
          BY <2>0, <5>1, <5>2 DEF AddPage, it
        <5>5. Append(<<>>, it) = <<it>> /\ \A i \in DOMAIN <<it>> : <<it>>[i] = it
          OBVIOUS
        <5>6. \A i \in DOMAIN links'[w] : links'[w][i].level = item'[w].level
          BY <5>2, <5>3, <5>4, <5>5
        <5>7. \A v \in Worker \ {w} : pc'[v] = pc[v] /\ item'[v] = item[v]
          BY <2>0, <5>2
        <5>8. pc'[w] = "delsite"
          BY <2>0, <5>2
        <5> QED
          BY <5>2, <5>4, <5>6, <5>7, <5>8
      <4>7. CASE Touch(w) \/ BadAddress(w) \/ NoPage(w)
        <5>1. PICK l \in {"touch", "unset"} : pc' = [pc EXCEPT ![w] = l]
          BY <4>7 DEF Touch, BadAddress, NoPage
        <5>2. links' = links /\ item' = item
          BY <4>7 DEF Touch, BadAddress, NoPage
        <5>3. pc[w] \in {"dig", "site", "newsite"}
          BY <4>7 DEF Touch, BadAddress, NoPage
        <5>4. links[w] = <<>> /\ DOMAIN links[w] = {}
          BY <5>3
        <5> QED
          BY <2>0, <4>0, <5>1, <5>2, <5>4
      <4>8. CASE Touched(w)
        <5>1. PICK l \in {"fetch", "enqueue", "unchanged"} : pc' = [pc EXCEPT ![w] = l]
          BY <4>8 DEF Touched
        <5> QED
          BY <2>0, <4>0, <4>8, <5>1 DEF Touched
      <4>9. CASE DelSite(w) \/ UpdateServer(w) \/ AllQueued(w)
        <5>1. PICK l \in {"server", "unset", "delsite"} : pc' = [pc EXCEPT ![w] = l]
          BY <4>9 DEF DelSite, UpdateServer, AllQueued
        <5>2. links' = links /\ item' = item
          BY <4>9 DEF DelSite, UpdateServer, AllQueued
        <5>3. pc[w] \in {"delsite", "server"} \/ DOMAIN links[w] = {}
          BY <4>9 DEF DelSite, UpdateServer, AllQueued
        <5> QED
          BY <2>0, <4>0, <5>1, <5>2, <5>3
      <4>10. CASE Unset(w)
        BY <2>0, <4>0, <4>10 DEF Unset
      <4>11. CASE Parse(w) \/ DbLinks(w)
        BY <2>0, <4>0, <4>11 DEF Parse, DbLinks, NextLink, AddPage
      <4>12. CASE EnqueueLinks(w)
        <5>1. /\ pc[w] = "enqueue" /\ UNCHANGED <<pc, item>>
              /\ \A v \in Worker \ {w} : links'[v] = links[v]
          BY <2>0, <4>12 DEF EnqueueLinks
        <5> QED
          BY <4>0, <5>1
      <4> QED
        BY <2>1, <4>1, <4>2, <4>3, <4>4, <4>5, <4>6, <4>7, <4>8, <4>9, <4>10, <4>11, <4>12
           DEF WorkerStep
    <3> QED
      BY <3>1, <3>2
  <2>2. ASSUME MainStep PROVE LookInv'
    <3>1. UNCHANGED <<pc, links, item>> /\ (alive' => alive) /\ (alive' = alive \/ Flush)
      <4>1. CASE Flush
        BY <4>1 DEF Flush
      <4>2. CASE Wake \/ Done \/ AskTable
        BY <4>2 DEF Wake, Done, AskTable
      <4>3. CASE \E x \in Sizeable : Look(x)
        BY <4>3 DEF Look
      <4>4. CASE \E w \in Worker : StopThread(w)
        BY <4>4 DEF StopThread
      <4> QED
        BY <2>2, <4>1, <4>2, <4>3, <4>4 DEF MainStep
    <3>2. LinksInHand'
      BY <3>1 DEF LinksInHand
    <3>3. (Busy => missed)'
      BY <2>2 DEF MainStep
    <3>4. ASSUME main # "sleep", ~missed' PROVE ~missed
      BY <2>2, <3>4 DEF MainStep
    <3>5. ASSUME NEW x \in Sizeable, Look(x) PROVE SeenEmpty'
      <4>1. main = "look" /\ x \in unread /\ q' = q
        BY <3>5 DEF Look
      <4>2. CASE SizeOf(x) > 0
        BY <3>1, <3>3, <3>5, <4>1, <4>2 DEF Look, Sees, SeenEmpty
      <4>3. CASE ~(SizeOf(x) > 0)
        <5>1. unread' = unread \ {x} /\ main' = "look"
          BY <3>5, <4>1, <4>3 DEF Look
        <5>2. x \in {"proccache", "dbcache"} => q[x] = <<>>
          <6> SUFFICES ASSUME x \in {"proccache", "dbcache"} PROVE q[x] = <<>>
            OBVIOUS
          <6>1. q[x] \in Seq(Item) /\ Len(q[x]) \in Nat
            BY <2>0, Fields, LenProperties
          <6>2. ~(Len(q[x]) > 0)
            BY <4>3 DEF SizeOf
          <6> QED
            BY <6>1, <6>2, EmptySeq
        <5> QED
          BY <3>3, <3>4, <4>1, <5>1, <5>2 DEF SeenEmpty
      <4> QED
        BY <4>2, <4>3
    <3>6. ASSUME AskTable PROVE SeenEmpty'
      <4>1. main = "look" /\ unread = {} /\ q' = q
        BY <3>6 DEF AskTable
      <4>2. CASE q.que # <<>>
        <5>1. main' = (IF alive THEN "sleep" ELSE "flush") /\ alive' = alive
          BY <3>6, <4>2 DEF AskTable, Sees
        <5>2. main' # "look" /\ ~(main' = "flush" /\ alive')
          BY <5>1
        <5> QED
          BY <3>3, <5>2 DEF SeenEmpty
      <4>3. CASE q.que = <<>>
        <5>1. main' = "flush"
          BY <3>6, <4>3 DEF AskTable
        <5>2. ~missed' => ~HasNext(q)'
          BY <3>4, <4>1, <4>3 DEF SeenEmpty, HasNext, Sizes
        <5> QED
          BY <3>3, <5>1, <5>2 DEF SeenEmpty
      <4> QED
        BY <4>2, <4>3
    <3>7. ASSUME Wake PROVE SeenEmpty'
      <4>1. main' = "look" /\ unread' = {"uris", "proccache", "dbcache"}
        BY <3>7 DEF Wake, Sizeable
      <4> QED
        BY <3>3, <4>1 DEF SeenEmpty
    <3>8. ASSUME Flush \/ Done \/ \E w \in Worker : StopThread(w)
          PROVE  SeenEmpty'
      <4>1. main' \in {"stop", "done"}
        BY <3>8 DEF Flush, Done, StopThread
      <4> QED
        BY <3>3, <4>1 DEF SeenEmpty
    <3> QED
      BY <2>2, <3>2, <3>5, <3>6, <3>7, <3>8 DEF MainStep
  <2>3. CASE ControlC
    BY <2>3 DEF ControlC, LinksInHand, SeenEmpty, Busy
  <2>4. CASE UNCHANGED vars
    BY <2>4 DEF vars, LinksInHand, SeenEmpty, Busy
  <2> QED
    BY <2>1, <2>2, <2>3, <2>4 DEF Next
<1> QED
  BY <1>1, <1>2, TypeInvariant, PTL DEF Spec

\* A crawl that nobody interrupts is ended with nothing left, or after a thread
\* had a page while the main thread was looking.
THEOREM EndExplainedHolds == Spec => []EndExplained
<1>1. LookInv => EndExplained
  <2> SUFFICES ASSUME LookInv, main = "flush", alive, ~missed PROVE Held = {}
    BY DEF EndExplained
  <2>1. \A w \in Worker : pc[w] \notin Holding
    BY DEF LookInv, SeenEmpty, Busy
  <2>2. \A w \in Worker : links[w] = <<>>
    BY <2>1 DEF LookInv, LinksInHand, Holding, Fetching
  <2>3. \A s \in Sizes : q[s] = <<>>
    BY DEF LookInv, SeenEmpty, HasNext
  <2>4. UrlsOf(<<>>) = {}
    BY DEF UrlsOf
  <2> QED
    BY <2>1, <2>2, <2>3, <2>4 DEF Held, Queued
<1> QED
  BY <1>1, LookInvariant, PTL

-----------------------------------------------------------------------------
(* No page that was found is lost unseen.                                  *)

\* A sequence with an item at its end has that item's page as well.
LEMMA UrlsAppend ==
  ASSUME NEW s \in Seq(Item), NEW it \in Item
  PROVE  UrlsOf(Append(s, it)) = UrlsOf(s) \cup {it.uri}
  <1>1. Len(Append(s, it)) = Len(s) + 1 /\ DOMAIN Append(s, it) = 1..(Len(s) + 1)
    BY AppendProperties, LenProperties
  <1>2. /\ DOMAIN s = 1..Len(s) /\ Len(s) \in Nat
        /\ \A i \in 1..Len(s) : Append(s, it)[i] = s[i]
        /\ Append(s, it)[Len(s) + 1] = it
    BY AppendProperties, LenProperties
  <1>3. UrlsOf(s) \cup {it.uri} \subseteq UrlsOf(Append(s, it))
    BY <1>1, <1>2 DEF UrlsOf
  <1>4. UrlsOf(Append(s, it)) \subseteq UrlsOf(s) \cup {it.uri}
    BY <1>1, <1>2 DEF UrlsOf
  <1> QED
    BY <1>3, <1>4

\* Two sequences put together have the pages of both.
LEMMA UrlsConcat ==
  ASSUME NEW s \in Seq(Item), NEW t \in Seq(Item)
  PROVE  UrlsOf(s) \cup UrlsOf(t) \subseteq UrlsOf(s \o t)
  <1>1. /\ DOMAIN s = 1..Len(s) /\ DOMAIN t = 1..Len(t) /\ DOMAIN (s \o t) = 1..(Len(s) + Len(t))
        /\ Len(s) \in Nat /\ Len(t) \in Nat
    BY ConcatProperties, LenProperties
  <1>2. \A i \in 1..Len(s) : (s \o t)[i] = s[i] /\ i \in DOMAIN (s \o t)
    BY <1>1, ConcatProperties
  <1>3. ASSUME NEW i \in 1..Len(t)
        PROVE  (s \o t)[Len(s) + i] = t[i] /\ Len(s) + i \in DOMAIN (s \o t)
    <2>1. Len(s) + i \in 1..(Len(s) + Len(t)) /\ ~(Len(s) + i <= Len(s)) /\ (Len(s) + i) - Len(s) = i
      BY <1>1
    <2> QED
      BY <1>1, <2>1, ConcatProperties
  <1>4. UrlsOf(s) \subseteq UrlsOf(s \o t)
    BY <1>1, <1>2 DEF UrlsOf
  <1>5. UrlsOf(t) \subseteq UrlsOf(s \o t)
    <2> SUFFICES ASSUME NEW i \in DOMAIN t PROVE t[i].uri \in UrlsOf(s \o t)
      BY DEF UrlsOf
    <2> QED
      BY <1>1, <1>3 DEF UrlsOf
  <1> QED
    BY <1>4, <1>5

\* Without its first item a sequence lacks at most that item's page.
LEMMA UrlsHead ==
  ASSUME NEW s \in Seq(Item), s # <<>>
  PROVE  UrlsOf(s) \subseteq {Head(s).uri} \cup UrlsOf(Tail(s))
  <1>1. /\ Tail(s) \in Seq(Item) /\ Len(Tail(s)) = Len(s) - 1 /\ Head(s) = s[1]
        /\ \A i \in 1..Len(Tail(s)) : Tail(s)[i] = s[i + 1]
    BY HeadTailProperties
  <1>2. DOMAIN s = 1..Len(s) /\ Len(s) \in Nat /\ DOMAIN Tail(s) = 1..(Len(s) - 1)
    BY <1>1, LenProperties
  <1>3. ASSUME NEW i \in 1..Len(s), i # 1
        PROVE  i - 1 \in DOMAIN Tail(s) /\ Tail(s)[i - 1] = s[i]
    <2>1. i - 1 \in 1..(Len(s) - 1) /\ (i - 1) + 1 = i
      BY <1>2, <1>3
    <2> QED
      BY <1>1, <1>2, <2>1
  <1> SUFFICES ASSUME NEW i \in 1..Len(s) PROVE s[i].uri \in {Head(s).uri} \cup UrlsOf(Tail(s))
    BY <1>2 DEF UrlsOf
  <1>4. CASE i = 1
    BY <1>1, <1>4
  <1>5. CASE i # 1
    BY <1>3, <1>5 DEF UrlsOf
  <1> QED
    BY <1>4, <1>5

\* Cut in two, a sequence keeps its pages.
LEMMA UrlsCut ==
  ASSUME NEW s \in Seq(Item), NEW n \in 0..Len(s)
  PROVE  UrlsOf(s) \subseteq UrlsOf(SubSeq(s, 1, n)) \cup UrlsOf(SubSeq(s, n + 1, Len(s)))
  <1>1. DOMAIN s = 1..Len(s) /\ Len(s) \in Nat /\ \A i \in 1..Len(s) : s[i] \in Item
    BY LenProperties, ElementOfSeq
  <1> DEFINE h == SubSeq(s, 1, n)
             t == SubSeq(s, n + 1, Len(s))
  <1>2. h \in Seq(Item) /\ Len(h) = n /\ \A i \in 1..n : h[i] = s[i]
    <2>1. n \in Nat /\ (1 <= n \/ n = 0) /\ (n - 1) + 1 = n /\ \A i \in 1..n : s[i] \in Item
      BY <1>1
    <2>2. /\ h \in Seq(Item) /\ Len(h) = IF 1 <= n THEN (n - 1) + 1 ELSE 0
          /\ \A i \in 1..((n - 1) + 1) : h[i] = s[(1 + i) - 1]
      BY <2>1, SubSeqProperties
    <2> QED
      BY <2>1, <2>2
  <1>3. t \in Seq(Item) /\ Len(t) = Len(s) - n /\ \A i \in 1..(Len(s) - n) : t[i] = s[n + i]
    <2>1. PICK m \in Nat : m = Len(s)
      BY <1>1
    <2>2. n \in Nat /\ n <= m
      BY <2>1
    <2>3. \A i \in (n + 1)..m : s[i] \in Item
      <3>1. \A i \in (n + 1)..m : i \in 1..m
        BY <2>2
      <3> QED
        BY <1>1, <2>1, <3>1
    <2>4. /\ SubSeq(s, n + 1, m) \in Seq(Item)
          /\ Len(SubSeq(s, n + 1, m)) = IF n + 1 <= m THEN (m - (n + 1)) + 1 ELSE 0
          /\ \A i \in 1..((m - (n + 1)) + 1) : SubSeq(s, n + 1, m)[i] = s[((n + 1) + i) - 1]
      BY <2>2, <2>3, SubSeqProperties
    <2>5. /\ \A i \in 1..(m - n) : ((n + 1) + i) - 1 = n + i
          /\ (m - (n + 1)) + 1 = m - n
          /\ n + 1 <= m \/ m - n = 0
      BY <2>2
    <2> QED
      BY <2>1, <2>4, <2>5, SMTT(30)
  <1> HIDE DEF h, t
  <1>4. DOMAIN h = 1..n /\ DOMAIN t = 1..(Len(s) - n)
    BY <1>2, <1>3, LenProperties
  <1>5. \A i \in (n + 1)..Len(s) : i - n \in DOMAIN t /\ t[i - n] = s[i]
    BY <1>1, <1>3, <1>4
  <1>6. UrlsOf(s) \subseteq UrlsOf(h) \cup UrlsOf(t)
    BY <1>1, <1>2, <1>4, <1>5 DEF UrlsOf
  <1> QED
    BY <1>6 DEF h, t

\* Without its last item a sequence lacks at most that item's page.
LEMMA UrlsLast ==
  ASSUME NEW s \in Seq(Item), s # <<>>
  PROVE  UrlsOf(s) \subseteq {Last(s).uri} \cup UrlsOf(Front(s))
  <1>1. /\ DOMAIN s = 1..Len(s) /\ Len(s) \in Nat \ {0} /\ Last(s) = s[Len(s)]
        /\ \A i \in 1..Len(s) : s[i] \in Item
    BY LenProperties, EmptySeq, ElementOfSeq DEF Last
  <1>2. Front(s) \in Seq(Item) /\ Len(Front(s)) = Len(s) - 1 /\ \A i \in 1..(Len(s) - 1) : Front(s)[i] = s[i]
    BY <1>1, SubSeqProperties DEF Front
  <1>3. DOMAIN Front(s) = 1..(Len(s) - 1)
    BY <1>2, LenProperties
  <1> QED
    BY <1>1, <1>2, <1>3 DEF UrlsOf

\* What is queued is in one of the three sequences.
LEMMA QueuedFields ==
  ASSUME NEW x \in Queues
  PROVE  Queued(x) = UrlsOf(x.que) \cup UrlsOf(x.dbcache) \cup UrlsOf(x.proccache)
  <1>1. Queued(x) \subseteq UrlsOf(x.que) \cup UrlsOf(x.dbcache) \cup UrlsOf(x.proccache)
    BY DEF Queued, Sizes
  <1>2. UrlsOf(x.que) \cup UrlsOf(x.dbcache) \cup UrlsOf(x.proccache) \subseteq Queued(x)
    BY DEF Queued, Sizes
  <1> QED
    BY <1>1, <1>2

\* A queue of which some item was taken lacks at most its page.
LEMMA TakeFromKeeps ==
  ASSUME NEW x \in Queues, NEW s \in {"proccache", "dbcache"}, x[s] # <<>>, Bounded(x)
  PROVE  Queued(x) \subseteq {TakeFrom(x, s).item.uri} \cup Queued(TakeFrom(x, s).queue)
  <1> DEFINE y == TakeFrom(x, s).queue
  <1>1. y \in Queues
    BY Fields, TakeFromType
  <1>2. TakeFrom(x, s).item = Last(x[s]) /\ x[s] \in Seq(Item)
    BY Fields DEF TakeFrom
  <1>3. UrlsOf(x[s]) \subseteq {TakeFrom(x, s).item.uri} \cup UrlsOf(Front(x[s]))
    BY <1>2, UrlsLast
  <1>4. \A t \in Sizes : y[t] = IF t = s THEN Front(x[s]) ELSE x[t]
    BY Fields DEF TakeFrom, Queues
  <1> HIDE DEF y
  <1>5. /\ y.que = x.que
        /\ y.dbcache = (IF s = "dbcache" THEN Front(x[s]) ELSE x.dbcache)
        /\ y.proccache = (IF s = "proccache" THEN Front(x[s]) ELSE x.proccache)
    BY <1>4 DEF Sizes
  <1>6. Queued(x) \subseteq {TakeFrom(x, s).item.uri} \cup Queued(y)
    BY <1>1, <1>3, <1>5, QueuedFields
  <1> QED
    BY <1>6 DEF y

\* The rows read in advance are not lost (_dequeue_db).
LEMMA FetchedKeeps ==
  ASSUME NEW x \in Queues, x.proccache = <<>>, Bounded(x)
  PROVE  Queued(x) \subseteq Queued(Fetched(x))
  <1>1. x.que \in Seq(Item) /\ AtOnce(x) \in 0..Len(x.que)
    BY Fields, LenProperties, PrequeAssumption DEF AtOnce
  <1>2. /\ Fetched(x) \in Queues /\ Fetched(x).dbcache = x.dbcache
        /\ Fetched(x).proccache = SubSeq(x.que, 1, AtOnce(x))
        /\ Fetched(x).que = SubSeq(x.que, AtOnce(x) + 1, Len(x.que))
    BY FetchedType DEF Fetched, Queues, Sizes
  <1>3. UrlsOf(x.que) \subseteq UrlsOf(Fetched(x).proccache) \cup UrlsOf(Fetched(x).que)
    BY <1>1, <1>2, UrlsCut
  <1>4. UrlsOf(x.proccache) = {}
    BY DEF UrlsOf
  <1> QED
    BY <1>2, <1>3, <1>4, QueuedFields

\* _dequeue_db loses no page but the one it gives.
LEMMA DequeuedKeeps ==
  ASSUME NEW x \in Queues, HasNext(x), Bounded(x)
  PROVE  Queued(x) \subseteq {Dequeued(x).item.uri} \cup Queued(Dequeued(x).queue)
  <1> DEFINE y == IF x.proccache = <<>> THEN Fetched(x) ELSE x
  <1>1. y \in Queues /\ Bounded(y) /\ Queued(x) \subseteq Queued(y)
    BY FetchedType, FetchedKeeps
  <1>2. y.proccache = <<>> => y.dbcache # <<>>
    BY FetchedType DEF HasNext, Sizes
  <1>3. Dequeued(x) = IF y.proccache # <<>> THEN TakeFrom(y, "proccache") ELSE TakeFrom(y, "dbcache")
    BY DEF Dequeued
  <1> HIDE DEF y
  <1>4. PICK s \in {"proccache", "dbcache"} : y[s] # <<>> /\ Dequeued(x) = TakeFrom(y, s)
    BY <1>2, <1>3
  <1>5. Queued(y) \subseteq {Dequeued(x).item.uri} \cup Queued(Dequeued(x).queue)
    BY <1>1, <1>4, TakeFromKeeps
  <1> QED
    BY <1>1, <1>5

\* _enqueue_db loses no page when the cache has room.
LEMMA EnqueuedKeeps ==
  ASSUME NEW x \in Queues, NEW it \in Item, Bounded(x), ~Overflows(x, it)
  PROVE  Queued(x) \cup {it.uri} \subseteq Queued(Enqueued(x, it))
  <1> DEFINE y == Enqueued(x, it)
  <1>1. y \in Queues
    BY EnqueuedType
  <1>2. CASE it.uri \in UrlsOf(x.que) \cup UrlsOf(x.dbcache)
    BY <1>2, QueuedFields DEF Enqueued
  <1>3. CASE it.uri \notin UrlsOf(x.que) \cup UrlsOf(x.dbcache)
    <2>1. y = [x EXCEPT !.dbcache = Append(x.dbcache, it)]
      BY <1>3 DEF Enqueued
    <2>2. y.que = x.que /\ y.dbcache = Append(x.dbcache, it) /\ y.proccache = x.proccache
      BY <2>1 DEF Queues, Sizes
    <2>3. UrlsOf(y.dbcache) = UrlsOf(x.dbcache) \cup {it.uri}
      BY <2>2, Fields, UrlsAppend
    <2> HIDE DEF y
    <2>4. Queued(x) \subseteq Queued(y) /\ it.uri \in Queued(y)
      BY <1>1, <2>2, <2>3, QueuedFields
    <2> QED
      BY <2>4 DEF y
  <1> QED
    BY <1>2, <1>3

\* Writing the cache loses no page but those of a cache that was not stored.
LEMMA WrittenKeeps ==
  ASSUME NEW x \in Queues, NEW o \in Written(x), Bounded(x)
  PROVE  /\ Queued(x) \subseteq Queued(o.queue) \cup UrlsOf(x.dbcache)
         /\ o.ok => Queued(x) \subseteq Queued(o.queue)
  <1>1. PICK i \in Inserts(x.dbcache) :
          o = [queue |-> [x EXCEPT !.que = x.que \o i.stored, !.dbcache = <<>>], ok |-> i.ok]
    BY DEF Written
  <1>2. i.stored \in Seq(Item) /\ (i.stored = x.dbcache \/ ~i.ok)
    BY <1>1, Fields, InsertsType
  <1>3. o.queue \in Queues
    BY WrittenType
  <1>4. o.queue.que = x.que \o i.stored /\ o.queue.proccache = x.proccache /\ (o.ok <=> i.ok)
    BY <1>1 DEF Queues, Sizes
  <1>5. UrlsOf(x.que) \cup UrlsOf(i.stored) \subseteq UrlsOf(o.queue.que)
    BY <1>2, <1>4, Fields, UrlsConcat
  <1>6. UrlsOf(o.queue.que) \cup UrlsOf(x.proccache) \subseteq Queued(o.queue)
    BY <1>3, <1>4, QueuedFields
  <1>7. Queued(x) = UrlsOf(x.que) \cup UrlsOf(x.dbcache) \cup UrlsOf(x.proccache)
    BY QueuedFields
  <1>8. o.ok => UrlsOf(x.dbcache) \subseteq UrlsOf(o.queue.que)
    BY <1>2, <1>4, <1>5
  <1> QED
    BY <1>5, <1>6, <1>7, <1>8

\* flush loses no page but those of a cache that was not stored.
LEMMA FlushedKeeps ==
  ASSUME NEW x \in Queues, NEW o \in Flushed(x)
  PROVE  /\ Queued(x) \subseteq Queued(o.queue) \cup UrlsOf(x.dbcache) \cup UrlsOf(x.proccache)
         /\ o.ok => Queued(x) \subseteq Queued(o.queue)
  <1>1. PICK r \in Inserts(x.dbcache), k \in Inserts(x.proccache) :
          o.queue.que = (x.que \o r.stored) \o k.stored /\ (o.ok <=> r.ok /\ k.ok)
    BY FlushedType
  <1>2. /\ r.stored \in Seq(Item) /\ k.stored \in Seq(Item)
        /\ r.stored = x.dbcache \/ ~r.ok
        /\ k.stored = x.proccache \/ ~k.ok
    BY <1>1, Fields, InsertsType
  <1>3. x.que \in Seq(Item) /\ x.que \o r.stored \in Seq(Item) /\ o.queue \in Queues
    BY <1>2, Fields, FlushedType, ConcatProperties
  <1>4. UrlsOf(x.que) \cup UrlsOf(r.stored) \subseteq UrlsOf(x.que \o r.stored)
    BY <1>2, <1>3, UrlsConcat
  <1>5. UrlsOf(x.que \o r.stored) \cup UrlsOf(k.stored) \subseteq UrlsOf(o.queue.que)
    BY <1>1, <1>2, <1>3, UrlsConcat
  <1>6. UrlsOf(o.queue.que) \subseteq Queued(o.queue)
    BY <1>3, QueuedFields
  <1>7. Queued(x) = UrlsOf(x.que) \cup UrlsOf(x.dbcache) \cup UrlsOf(x.proccache)
    BY QueuedFields
  <1>8. o.ok => r.stored = x.dbcache /\ k.stored = x.proccache
    BY <1>1, <1>2
  <1>9. o.ok => UrlsOf(x.dbcache) \cup UrlsOf(x.proccache) \subseteq UrlsOf(o.queue.que)
    BY <1>4, <1>5, <1>8
  <1> QED
    BY <1>4, <1>5, <1>6, <1>7, <1>9

-----------------------------------------------------------------------------
(* ... and the threads.                                                    *)

\* Where a page that was found is: in the queue, among the links of a thread,
\* or in its hands.
LEMMA HeldWhere ==
  ASSUME NEW u
  PROVE  u \in Held <=> \/ u \in Queued(q)
                        \/ \E w \in Worker : u \in UrlsOf(links[w])
                        \/ \E w \in Worker : pc[w] \in Holding /\ u = Url(w)
  <1> DEFINE A == UNION {UrlsOf(links[w]) : w \in Worker}
             B == {Url(w) : w \in {v \in Worker : pc[v] \in Holding}}
  <1>1. u \in A <=> \E w \in Worker : u \in UrlsOf(links[w])
    OBVIOUS
  <1>2. u \in B <=> \E w \in Worker : pc[w] \in Holding /\ u = Url(w)
    OBVIOUS
  <1>3. Held = Queued(q) \cup A \cup B
    BY DEF Held
  <1> HIDE DEF A, B
  <1> QED
    BY <1>1, <1>2, <1>3

\* A step that leaves the queue alone, takes no link from a thread and lets no
\* thread go its page, loses no page.
LEMMA NothingLost ==
  ASSUME Queued(q) \subseteq Queued(q'),
         \A w \in Worker : UrlsOf(links[w]) \subseteq UrlsOf(links'[w]),
         \A w \in Worker : pc[w] \in Holding => pc'[w] \in Holding /\ item'[w] = item[w]
  PROVE  Held \subseteq Held'
  <1>1. \A w \in Worker : pc[w] \in Holding => Url(w)' = Url(w)
    BY DEF Url
  <1> QED
    BY <1>1 DEF Held

\* The steps of the main thread lose a page only in the flush.
LEMMA MainKeeps ==
  ASSUME TypeInv, MainStep \/ ControlC \/ UNCHANGED vars, NEW u \in Held \ Held'
  PROVE  Refused(u) \/ Misflushed(u)
  <1>1. UNCHANGED <<pc, item, links>> /\ (q' = q \/ Flush)
    BY DEF MainStep, Look, AskTable, Wake, Flush, Done, StopThread, ControlC, vars, shared, local
  <1>2. CASE q' = q
    BY <1>1, <1>2, NothingLost
  <1>3. CASE Flush
    <2>1. PICK o \in Flushed(q) : q' = o.queue /\ alive' = (alive /\ o.ok)
      BY <1>3 DEF Flush
    <2>2. main = "flush" /\ q \in Queues
      BY <1>3 DEF Flush, MainAt, TypeInv, Types
    <2>3. u \in Queued(q) /\ u \notin Queued(q')
      BY <1>1 DEF Held, Url
    <2>4. /\ Queued(q) \subseteq Queued(q') \cup UrlsOf(q.dbcache) \cup UrlsOf(q.proccache)
          /\ o.ok => Queued(q) \subseteq Queued(q')
      BY <2>1, <2>2, FlushedKeeps
    <2> QED
      BY <2>1, <2>2, <2>3, <2>4 DEF Refused, Misflushed
  <1> QED
    BY <1>1, <1>2, <1>3

\* The steps of a thread that leave it its page and its links, and the queue
\* alone.
Passes(w) ==
  \/ Loop(w) \/ Count(w) \/ Idle(w) \/ FindSite(w) \/ NewSite(w) \/ BadAddress(w) \/ NoPage(w)
  \/ Digs(w) \/ Touch(w) \/ Touched(w) \/ Parse(w) \/ DbLinks(w) \/ AllQueued(w)
  \/ DelSite(w) \/ UpdateServer(w)

\* They lose no page.
LEMMA PassingKeeps ==
  ASSUME TypeInv, NEW w \in Worker, Passes(w)
  PROVE  Held \subseteq Held'
  <1> USE DEF shared, locks, local, mainVars, At, Goto
  <1>0. pc \in [Worker -> Points] /\ links \in [Worker -> Seq(Item)]
    BY DEF TypeInv, Types
  <1>1. UNCHANGED <<q, item>>
    <2>1. CASE Loop(w) \/ Count(w) \/ FindSite(w) \/ NewSite(w) \/ BadAddress(w) \/ NoPage(w)
      BY <2>1 DEF Loop, Count, FindSite, NewSite, BadAddress, NoPage
    <2>2. CASE Digs(w)
      BY <2>2 DEF Digs, DigNothing, DigRedirected, DigThrows, DigPage, DigEmpty, DigUnchanged
    <2>3. CASE Touch(w) \/ Touched(w) \/ Parse(w) \/ DbLinks(w)
      BY <2>3 DEF Touch, Touched, Parse, DbLinks
    <2>4. CASE Idle(w) \/ AllQueued(w) \/ DelSite(w) \/ UpdateServer(w)
      BY <2>4 DEF Idle, AllQueued, DelSite, UpdateServer
    <2> QED
      BY <2>1, <2>2, <2>3, <2>4 DEF Passes
  <1>2. \A v \in Worker : pc[v] \in Holding => pc'[v] \in Holding
    <2> USE DEF Holding, Fetching
    <2>1. CASE Loop(w) \/ Count(w) \/ FindSite(w) \/ NewSite(w) \/ BadAddress(w) \/ NoPage(w)
      BY <1>0, <2>1 DEF Loop, Count, FindSite, NewSite, BadAddress, NoPage
    <2>2. CASE Digs(w)
      BY <1>0, <2>2 DEF Digs, DigNothing, DigRedirected, DigThrows, DigPage, DigEmpty, DigUnchanged
    <2>3. CASE Touch(w) \/ Parse(w) \/ DbLinks(w) \/ AllQueued(w)
      BY <1>0, <2>3 DEF Touch, Parse, DbLinks, AllQueued
    <2>4. CASE Idle(w) \/ DelSite(w) \/ UpdateServer(w)
      BY <1>0, <2>4 DEF Idle, DelSite, UpdateServer
    <2>5. CASE Touched(w)
      <3>1. PICK l \in {"fetch", "enqueue", "unchanged"} : pc' = [pc EXCEPT ![w] = l]
        BY <2>5 DEF Touched
      <3> QED
        BY <1>0, <3>1
    <2> QED
      BY <2>1, <2>2, <2>3, <2>4, <2>5 DEF Passes
  <1>3. \/ links' = links
        \/ \E u \in Uri : AddPage(w, u, item[w].level) /\ item[w] \in Item
        \/ NextLink(w) /\ pc[w] \in {"parse", "dblinks"} /\ todo[w] # <<>>
    <2>1. CASE Loop(w) \/ Count(w) \/ FindSite(w) \/ NewSite(w) \/ BadAddress(w) \/ NoPage(w)
      BY <2>1 DEF Loop, Count, FindSite, NewSite, BadAddress, NoPage
    <2>2. CASE DigNothing(w) \/ DigThrows(w) \/ DigPage(w) \/ DigEmpty(w) \/ DigUnchanged(w)
      BY <2>2 DEF DigNothing, DigThrows, DigPage, DigEmpty, DigUnchanged
    <2>3. CASE DigRedirected(w)
      BY <2>3 DEF DigRedirected, TypeInv, Placed, Holding, Fetching
    <2>4. CASE Parse(w) \/ DbLinks(w)
      BY <2>4 DEF Parse, DbLinks
    <2>5. CASE Idle(w) \/ AllQueued(w) \/ DelSite(w) \/ UpdateServer(w) \/ Touch(w) \/ Touched(w)
      BY <2>5 DEF Idle, AllQueued, DelSite, UpdateServer, Touch, Touched
    <2> QED
      BY <2>1, <2>2, <2>3, <2>4, <2>5 DEF Passes, Digs
  <1>4. \A v \in Worker : UrlsOf(links[v]) \subseteq UrlsOf(links'[v])
    <2>1. CASE links' = links
      BY <2>1
    <2>2. ASSUME NEW u \in Uri, NEW l \in 0..Depth, AddPage(w, u, l)
          PROVE  \A v \in Worker : UrlsOf(links[v]) \subseteq UrlsOf(links'[v])
      <3> DEFINE it == [uri |-> u, level |-> l]
      <3>1. it \in Item
        BY DEF Item
      <3>2. links' = links \/ links' = [links EXCEPT ![w] = Append(links[w], it)]
        BY <2>2 DEF AddPage
      <3> HIDE DEF it
      <3>3. UrlsOf(links[w]) \subseteq UrlsOf(Append(links[w], it))
        BY <1>0, <3>1, UrlsAppend
      <3> QED
        BY <1>0, <3>2, <3>3
    <2>3. CASE \E u \in Uri : AddPage(w, u, item[w].level) /\ item[w] \in Item
      BY <2>2, <2>3 DEF Item
    <2>4. CASE NextLink(w) /\ pc[w] \in {"parse", "dblinks"} /\ todo[w] # <<>>
      <3>1. item[w] \in Item /\ item[w].level < Depth /\ todo[w] \in Seq(Uri)
        BY <2>4 DEF TypeInv, Types, Placed, Holding, Fetching
      <3>2. item[w].level \in 0..Depth /\ Depth \in Nat
        BY <3>1, CrawlerAssumption DEF Item
      <3>3. item[w].level + 1 \in 0..Depth
        BY <3>1, <3>2
      <3>4. Head(todo[w]) \in Uri
        BY <2>4, <3>1, HeadTailProperties
      <3> QED
        BY <2>2, <2>4, <3>3, <3>4 DEF NextLink
    <2> QED
      BY <1>3, <2>1, <2>3, <2>4
  <1> QED
    BY <1>1, <1>2, <1>4, NothingLost

\* A page that was found is kept until it has been worked at, was so lately, met
\* a full cache, was to be written by a statement that failed, or went with its
\* page as a redirect's or in a crawl that had ended.
THEOREM KeptUntilWorkedHolds == Spec => KeptUntilWorked
<1> DEFINE Explained(u) ==
      Finished(u) \/ Recent(u) \/ Overflown(u) \/ Refused(u) \/ Misflushed(u) \/ Dropped(u)
<1>1. TypeInv /\ CrawlInv /\ LookInv /\ [Next]_vars => [\A u \in Held \ Held' : Explained(u)]_vars
  <2> SUFFICES ASSUME TypeInv, CrawlInv, LookInv, [Next]_vars, NEW u \in Held \ Held'
               PROVE  Explained(u)
    OBVIOUS
  <2> USE DEF shared, locks, local, mainVars, At, Goto
  <2>0. /\ pc \in [Worker -> Points] /\ links \in [Worker -> Seq(Item)]
        /\ item \in [Worker -> Item \cup {None}] /\ q \in Queues /\ Bounded(q)
    BY DEF TypeInv, Types
  <2>1. ASSUME NEW w \in Worker, Dequeue(w) PROVE Held \subseteq Held'
    <3>1. links' = links /\ pc[w] = "dequeue"
      BY <2>1 DEF Dequeue
    <3>2. CASE alive /\ HasNext(q)
      <4>1. /\ item' = [item EXCEPT ![w] = Dequeued(q).item] /\ q' = Dequeued(q).queue
            /\ pc' = [pc EXCEPT ![w] = IF flip[w] THEN "add" ELSE "count"]
        BY <2>1, <3>2 DEF Dequeue
      <4>2. item'[w] = Dequeued(q).item /\ pc'[w] \in Holding
        BY <2>0, <4>1 DEF Holding, Fetching
      <4>3. Url(w)' = Dequeued(q).item.uri
        BY <4>2 DEF Url
      <4>4. \A v \in Worker : pc[v] \in Holding => pc'[v] \in Holding /\ Url(v)' = Url(v)
        BY <2>0, <3>1, <4>1 DEF Url, Holding, Fetching
      <4>5. Queued(q) \subseteq {Url(w)'} \cup Queued(q')
        BY <2>0, <3>2, <4>1, <4>3, DequeuedKeeps
      <4>6. {Url(v) : v \in {v \in Worker : pc[v] \in Holding}}
              \subseteq {Url(v)' : v \in {v \in Worker : pc'[v] \in Holding}}
        BY <4>4
      <4>7. Url(w)' \in {Url(v)' : v \in {v \in Worker : pc'[v] \in Holding}}
        BY <4>2
      <4> QED
        BY <3>1, <4>5, <4>6, <4>7 DEF Held
    <3>3. CASE ~(alive /\ HasNext(q))
      <4>1. pc' = [pc EXCEPT ![w] = IF flip[w] THEN "idle" ELSE "loop"] /\ UNCHANGED <<item, q>>
        BY <2>1, <3>3 DEF Dequeue
      <4>2. \A v \in Worker : pc[v] \in Holding => pc'[v] \in Holding /\ item'[v] = item[v]
        BY <2>0, <3>1, <4>1 DEF Holding, Fetching
      <4> QED
        BY <3>1, <4>1, <4>2, NothingLost
    <3> QED
      BY <3>2, <3>3
  <2>2. ASSUME NEW w \in Worker, Add(w) PROVE Recent(u)
    <3>1. UNCHANGED <<q, links>> /\ pc[w] = "add"
      BY <2>2 DEF Add
    <3>2. PICK v \in Worker : pc[v] \in Holding /\ u = Url(v) /\ ~(pc'[v] \in Holding /\ item'[v] = item[v])
      <4>1. ~(\E v \in Worker : u \in UrlsOf(links[v])) /\ u \notin Queued(q)
        BY <3>1 DEF Held
      <4>2. PICK v \in Worker : pc[v] \in Holding /\ u = Url(v)
        BY <4>1, HeldWhere
      <4>3. ~(pc'[v] \in Holding /\ item'[v] = item[v])
        BY <4>2 DEF Held, Url
      <4> QED
        BY <4>2, <4>3
    <3>3. /\ pc' = [pc EXCEPT ![w] = "loop"] /\ item' = [item EXCEPT ![w] = None]
          /\ Url(w) \in uris \cup ToSet(recent) /\ v = w
      <4>1. CASE Url(w) \in uris \cup ToSet(recent)
        <5>1. pc' = [pc EXCEPT ![w] = "loop"] /\ item' = [item EXCEPT ![w] = None]
          BY <2>2, <4>1 DEF Add
        <5> QED
          BY <2>0, <3>2, <4>1, <5>1
      <4>2. CASE Url(w) \notin uris \cup ToSet(recent)
        <5>1. pc' = [pc EXCEPT ![w] = "site"] /\ item' = item
          BY <2>2, <4>2 DEF Add
        <5>2. pc'[v] \in Holding /\ item'[v] = item[v]
          BY <2>0, <3>2, <5>1 DEF Holding, Fetching
        <5> QED
          BY <3>2, <5>2
      <4> QED
        BY <4>1, <4>2
    <3>4. u \notin uris
      <4> SUFFICES ASSUME u \in uris PROVE FALSE
        OBVIOUS
      <4>1. PICK o \in Worker : pc[o] \in InSet /\ Url(o) = u
        BY DEF CrawlInv, WorkingSet
      <4>2. o # w
        BY <3>1, <4>1 DEF InSet, Holding, Fetching
      <4>3. pc'[o] \in Holding /\ item'[o] = item[o]
        BY <2>0, <3>3, <4>1, <4>2 DEF InSet
      <4> QED
        BY <4>1, <4>3 DEF Held, Url
    <3> QED
      BY <3>1, <3>2, <3>3, <3>4 DEF Recent
  <2>3. ASSUME NEW w \in Worker, EnqueueLinks(w) PROVE Overflown(u) \/ Refused(u)
    <3>1. /\ pc[w] = "enqueue" /\ item' = item /\ pc' = pc /\ links[w] # <<>>
          /\ links' = [links EXCEPT ![w] = Tail(links[w])]
      BY <2>3 DEF EnqueueLinks
    <3>2. Head(links[w]) \in Item /\ UrlsOf(links[w]) \subseteq {Head(links[w]).uri} \cup UrlsOf(Tail(links[w]))
      BY <2>0, <3>1, HeadTailProperties, UrlsHead
    <3>3. \A v \in Worker : pc[v] \in Holding => u # Url(v)
      BY <3>1 DEF Held, Url
    <3>4. u \notin Queued(q') /\ \A o \in Worker : u \notin UrlsOf(links'[o])
      BY DEF Held
    <3>5. u \in Queued(q) \/ u = Head(links[w]).uri
      <4>1. CASE u \in Queued(q)
        BY <4>1
      <4>2. CASE \E v \in Worker : u \in UrlsOf(links[v])
        BY <2>0, <3>1, <3>2, <3>4, <4>2
      <4> QED
        BY <3>3, <4>1, <4>2, HeldWhere
    <3>6. CASE Overflows(q, Head(links[w]))
      <4>1. PICK o \in Written(q) : q' = o.queue /\ alive' = (alive /\ o.ok)
        BY <2>3, <3>6 DEF EnqueueLinks
      <4>2. /\ Queued(q) \subseteq Queued(q') \cup UrlsOf(q.dbcache)
            /\ o.ok => Queued(q) \subseteq Queued(q')
        BY <2>0, <4>1, WrittenKeeps
      <4>3. CASE u \in Queued(q)
        BY <3>4, <4>1, <4>2, <4>3 DEF Refused
      <4>4. CASE u = Head(links[w]).uri
        BY <3>1, <3>6, <4>4 DEF Overflown
      <4> QED
        BY <3>5, <4>3, <4>4
    <3>7. CASE ~Overflows(q, Head(links[w]))
      <4>1. q' = Enqueued(q, Head(links[w]))
        BY <2>3, <3>7 DEF EnqueueLinks
      <4> QED
        BY <2>0, <3>2, <3>4, <3>5, <3>7, <4>1, EnqueuedKeeps
    <3> QED
      BY <3>6, <3>7
  <2>4. ASSUME NEW w \in Worker, Unset(w) PROVE Finished(u) \/ Dropped(u)
    <3>1. /\ pc[w] = "unset" /\ q' = q /\ links' = [links EXCEPT ![w] = <<>>]
          /\ pc' = [pc EXCEPT ![w] = "loop"] /\ item' = [item EXCEPT ![w] = None]
      BY <2>4 DEF Unset
    <3>2. u \notin Queued(q)
      BY <3>1 DEF Held
    <3>3. CASE \E v \in Worker : u \in UrlsOf(links[v])
      <4>1. PICK v \in Worker : u \in UrlsOf(links[v])
        BY <3>3
      <4>2. v = w
        <5>1. u \notin UrlsOf(links'[v])
          BY DEF Held
        <5> QED
          BY <2>0, <3>1, <4>1, <5>1
      <4>3. PICK i \in DOMAIN links[w] : links[w][i].uri = u
        BY <4>1, <4>2 DEF UrlsOf
      <4>4. ~alive \/ links[w][i].level = item[w].level
        BY <3>1, <4>3 DEF LookInv, LinksInHand
      <4>5. links[w][i] \in Item
        BY <2>0, <4>3, ElementOfSeq, LenProperties
      <4>6. links[w][i] = [uri |-> u, level |-> links[w][i].level]
        BY <4>3, <4>5 DEF Item
      <4> QED
        BY <3>1, <4>1, <4>2, <4>4, <4>6 DEF Dropped
    <3>4. CASE \E v \in Worker : pc[v] \in Holding /\ u = Url(v)
      <4>1. PICK v \in Worker : pc[v] \in Holding /\ u = Url(v)
        BY <3>4
      <4>2. ~(pc'[v] \in Holding /\ item'[v] = item[v])
        BY <4>1 DEF Held, Url
      <4>3. v = w
        BY <2>0, <3>1, <4>1, <4>2
      <4> QED
        BY <3>1, <4>1, <4>3 DEF Finished
    <3> QED
      BY <3>2, <3>3, <3>4, HeldWhere
  <2>5. ~(Held \subseteq Held')
    OBVIOUS
  <2>6. CASE MainStep \/ ControlC \/ UNCHANGED vars
    BY <2>6, MainKeeps
  <2>7. CASE \E w \in Worker : WorkerStep(w)
    BY <2>1, <2>2, <2>3, <2>4, <2>5, <2>7, PassingKeeps DEF WorkerStep, Passes, Digs
  <2> QED
    BY <2>6, <2>7 DEF Next
<1> QED
  BY <1>1, TypeInvariant, CrawlInvariant, LookInvariant, PTL DEF Spec, KeptUntilWorked
=============================================================================
