----------------------------- MODULE CrawlQueue -----------------------------
(***************************************************************************)
(* mitza's queue of pages (glb.cpp), as operators on a record: que is the  *)
(* table of the database, dbcache what is still to be written to it and    *)
(* proccache what has been read from it in advance.  The callers hold the  *)
(* database lock, so each operation is one step of theirs.                 *)
(*                                                                         *)
(* The table gives its rows in the order in which they were inserted.      *)
(***************************************************************************)
EXTENDS Naturals, SequencesExt

CONSTANTS
  Preque  \* rows read in advance, and the most that wait to be written

ASSUME PrequeAssumption == Preque \in Nat \ {0}

Sizes == {"que", "dbcache", "proccache"}

NoPages == [s \in Sizes |-> <<>>]

\* qitm: a page and how deep below its seed it was found.  Two items are the
\* same when their pages are.
UrlsOf(s) == {s[i].uri : i \in DOMAIN s}

Queued(q) == UNION {UrlsOf(q[s]) : s \in Sizes}

\* the row is the last of its sequence: vectors are taken from their back
TakeFrom(q, s) == [item |-> Last(q[s]), queue |-> [q EXCEPT ![s] = Front(@)]]

AtOnce(q) == IF Len(q.que) < Preque THEN Len(q.que) ELSE Preque

\* variant: the rows that were read stay in the table
Fetched_NotDeleted(q) == [q EXCEPT !.proccache = SubSeq(q.que, 1, AtOnce(q))]

\* the first rows move from the table into the process
Fetched(q) ==
  [q EXCEPT !.proccache = SubSeq(q.que, 1, AtOnce(q)),
            !.que = SubSeq(q.que, AtOnce(q) + 1, Len(q.que))]

HasNext(q) == \E s \in Sizes : q[s] # <<>>

\* _dequeue_db
Dequeued(q) ==
  LET filled == IF q.proccache = <<>> THEN Fetched(q) ELSE q
  IN  IF filled.proccache # <<>> THEN TakeFrom(filled, "proccache") ELSE TakeFrom(filled, "dbcache")

\* _enqueue_db, while the cache has room: a page that waits already is left out
Enqueued(q, it) ==
  IF it.uri \in UrlsOf(q.que) \cup UrlsOf(q.dbcache) THEN q
  ELSE [q EXCEPT !.dbcache = Append(@, it)]

\* ... but only the table is asked before the cache is found to be full
Overflows(q, it) == it.uri \notin UrlsOf(q.que) /\ Len(q.dbcache) >= Preque

\* An INSERT stores its rows or fails, in which case the query ends the crawl
\* (mysqlcls::error).
Inserts(rows) ==
  IF rows = <<>> THEN {[stored |-> <<>>, ok |-> TRUE]}
  ELSE {[stored |-> rows, ok |-> TRUE], [stored |-> <<>>, ok |-> FALSE]}

\* variant: the cache is cleared before it is written
Written_Drops(q) == {[queue |-> [q EXCEPT !.dbcache = <<>>], ok |-> TRUE]}

\* _enqueue_db, with a full cache: it is written and cleared, whether or not
\* the table took the rows
Written(q) ==
  {[queue |-> [q EXCEPT !.que = @ \o r.stored, !.dbcache = <<>>], ok |-> r.ok] :
     r \in Inserts(q.dbcache)}

\* flush writes both caches.  The separators of the second statement are
\* compared with the end of the other cache, which is empty by then: two rows
\* or more always make it fail, one row at the mercy of two addresses.
Flushed(q) ==
  {[queue |-> [NoPages EXCEPT !.que = q.que \o r.stored \o k.stored], ok |-> r.ok /\ k.ok] :
     r \in Inserts(q.dbcache),
     k \in {i \in Inserts(q.proccache) : Len(i.stored) <= 1}}
=============================================================================
