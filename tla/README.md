# TLA+ models of mitzee

mitzee is a collection of C++ network programs. Its core is **buflea**, a
multi-threaded proxy (SOCKS4/5, HTTP, pass-through, DNS-guided) with an
access-control database; around it are a DNS relay (miki), a web server (pizu),
a crawler (mitza), a remote shell (oohshell) and small libraries. These modules
model the parts whose correctness depends on the order in which threads, locks,
clients and clocks meet. Definitions follow the source; `PROJECT.json` maps each
one to the lines it stands for.

## Inventory

### buflea, the proxy

| component | source | state | operations |
|---|---|---|---|
| context queue | `ctxqueue.cpp` | `_q`, `_cap`, `_maxcap`, time of the last overflow | `push` (appends, then answers 1, 0 or -1), `pop`, destructor |
| worker thread | `ctxthread.cpp`, `tinyclasses.h` | `_pctxs` (a bucket with swap-remove), `_dynamic`, `_bstop`, `_m` | `thread_main`: take from the queue, select, spin, sweep, clean up; `signal_to_stop`; `_close_all` |
| thread pool | `threadpool.cpp` | `_pool`, `_alive`, `_m`, `_hctxcount`, statistics | `create`, `add_thread`, `remove_thread`, `inc`/`dec`, `~ThreadPool`, `accumulate_log` |
| listener (main thread) | `listeners.cpp`, `main.cpp` | sockets, `_previp`, `_rejected` | accept loop, `_put_inqueue`, stop file |
| access control | `../mcoinclude/minidb.cpp` | bans, subscribers, hosts, sessions, refusals, `_now`, `_reload` | `instertto`, `check_bounce`, `is_*`, `thread_main`, `_load` |
| control connections | `contextctl.cpp`, `contextreg.cpp` | none of their own | commands on the database |
| connection | `context.cpp`, `tcppipe.cpp`, `context4/5/http/pass/dns.cpp` | protocol state, two sockets, buffers | `spin` and its states, `clear`, `destroy` |
| DNS host table, tasker | `dnsthread.cpp`, `tasker.cpp` | routes per client | `queue_host`, `update_host`, `deque_host`, clean-up |

How they meet: the listener wraps an accepted socket in a context and pushes it
on the queue; workers pop contexts and serve up to `_max_clients` of them each.
The pool grows when the queue passes `_cap`; dynamic workers leave when idle. The
end of any static worker, Ctrl-C or the stop file clears the global `__alive`;
main then leaves its loop and destroys pool and queue while workers may still
run. Workers ask the access-control database about their clients, the listener
asks it at accept time, control connections (served by workers too) change it,
and its own thread expires and reloads it.

What is hard here: contexts are handed over outside every lock; growth, idle exit
and shutdown change the same vector; the sweep removes from what it walks;
`~ThreadPool` reads a size before it locks; three kinds of mutex are taken in
different orders; the database is rebuilt partly without its lock, checked and
updated under two separate locks, and stamped with two clocks; the listener uses
a cached answer. `PROJECT.json` lists each such place as a hazard with the
property aimed at it.

What makes each part correct:
- queue, workers, pool: a context has one owner until it is deleted, is deleted
  once, is served, and the pool's books agree with the threads that exist;
- shutdown: it ends, in time leaves nothing behind, and no lock cycle closes;
- access control: records and counts agree, a session overrides old refusals, a
  ban is in force exactly when it was ordered, a block ends;
- connection: it is a relay, whatever the protocol: in order, nothing twice, nothing
  before the grant or after the end; its client gets one answer, its end is noticed;
- host table: a connection goes where its client has asked to go.

### The other programs

- **miki**, the DNS relay: a table of pending queries with a wrapping sequence
  number, a rotation over master servers, notes to buflea on a connection that two
  threads reconnect; UDP, so answers may be lost, late or repeated. Right when a
  client is answered once, what it asked, and every pending query ends.
- **mitza**, the crawler: threads share a working set, sites with reference counts
  and a queue with two caches before a table of the database; two locks, taken in
  both orders; a main thread ends it when all look empty. Right when no page is
  worked at twice at a time, none that was found is lost, and the crawl ends.
- **pizu**, a web server on an earlier form of the pool (one context per thread),
  with plugins and a vendored script engine; **oohshell**, a remote shell with file
  transfer in one thread: not modelled.
- **mcoinclude, mcosocks**: threads, mutexes and socket wrappers. They appear as
  the atomicity and the nondeterministic results of the models' steps.
- **pidisc** (one broadcast loop), **tuls**, **bin**, **lib**: not modelled, no
  state worth checking.

## Modules

| module | what it models |
|---|---|
| `ConnService` | abstract specification: connections wait in one line, are taken from the front by one server each and finished by it; the line is dropped only once the service stops; after a refusal nothing is promised |
| `CtxPool` | the connection engine: listener, queue, workers, pool growth and `~ThreadPool`, one action per lock section or call |
| `CtxPool_proofs` | theorems about `CtxPool`: types, ownership, deletes |
| `CtxPoolService_proofs` | theorems about `CtxPool`: the pool's books, static workers, the end, the implementation of `ConnService` |
| `PoolShutdown` | the same threads seen from their locks: pool, context-count and worker mutexes, with the traffic log on or off |
| `PoolShutdown_proofs` | theorems about `PoolShutdown` |
| `AclDb` | the access-control database with the listener, the workers, the commands and its own thread |
| `AclDb_proofs` | theorems about `AclDb` |
| `Relay` | abstract specification: what a proxied connection promises both its ends |
| `CtxConn` | the state machine of a connection for each protocol, and the worker that selects, spins and sweeps its contexts; implements `Relay` |
| `CtxConn_proofs` | theorems about `CtxConn` |
| `DnsService` | abstract specification: what a DNS relay promises its clients and the proxy |
| `DnsRelay` | miki: pending table, sequence, rotation, notes, the two threads at the proxy's socket; implements `DnsService` |
| `DnsRelay_proofs` | theorems about `DnsRelay` |
| `DnsHosts` | buflea's table of the hosts its clients are after |
| `DnsRoute` | the composition of `DnsService`, `DnsHosts` and the DNS contexts |
| `DnsRoute_proofs` | theorems about `DnsRoute` |
| `CrawlQueue` | mitza's queue and its two caches, as operators |
| `Crawler` | mitza's threads, working set, sites, locks and main thread |
| `Crawler_proofs` | theorems about `Crawler` |
| `MC*` | symmetry sets for TLC, and the `.cfg` files with the bounds |

### CtxPool

Contexts and workers are addresses, and a deleted address may be allocated again.
`q`, `bucket`, `hand` are `_q`, `_pctxs` and the local in `_get_from_q` between
the pop and the push into the bucket. `live` is the set of contexts constructed
and not deleted, `open` those whose sockets are open. `mpc` and `tpc` are program
points. What follows a use after delete is undefined, so such a step sets
`fault` and the model stops there. `shed` is history: some push answered -1.

`Accept` is accept, construction and `push` up to the unlock; `InRange` and
`Overflow` are the two size tests after it; `Shed` is the delete in
`_put_inqueue`; `Grow` is `add_thread`. `Spin` covers select and all the spins of
one pass: which contexts are closed in it is nondeterministic. `Sweep` is one
iteration of the removal loop with `Bucket::remove`'s swap. `CloseAll`,
`SelectError` are the select error paths, `Drain` and `Post` the end of the
thread. One listening port is
modelled: with several, one pass of the loop may accept once from each before it
tests `__alive` again. `DtorSize` to `DtorFree` are `~ThreadPool` and `~CtxQueue` in the order
of the code, with the size read before the lock as a step of its own.
`DtorHang` is the lock cycle of `PoolShutdown` seen from here: with a traffic log
(`TrafficLog`), main asks for the lock of a worker that deletes a context. From then on
(`LocksFree`) nobody can delete a context, enter the count or leave the pool.

### PoolShutdown

A step is what runs between two lock operations. It is separate from `CtxPool`
because the two abstract from different things: here the identity of contexts,
there the holding of locks. `WaitsFor` says which thread needs what another
holds, so a cycle in it is a deadlock. `blog` (is a traffic log configured) is
fixed by `Init`. `create` has started its workers, the listener adds the `Dynamic`
ones, and each counts itself only when it comes to `inc` (`Enter`): one that has not is
not seen by `count`. `LeavesLoop` has every way out of the loop (its condition, the end
marker, an idle dynamic worker, a select error), and `why` says which of the three
deletes a worker is in: the sweep's, `_close_all`'s or the last.

### AclDb

A record has an age that saturates above every limit it is compared with; `lag`
is the age of `_now`. `Refuse` and `Count` are the two lock sections of
`check_bounce`. `Serve` keeps or removes the client from the set `inside`, since
another of its connections may be there. The first `_load` is over before the listener
listens (main.cpp:118-129), so `Init` is after it. `_load` runs in the steps `LoadBanned`
to `LoadDest`; each set is cleared and then filled without the lock. A look-up that
overlaps gives either answer, and a command that overlaps relinks the same tree, so that
its own change may be lost (`Changed`), and so may any insertion of the file, before or
after it (`Filled`); a tree so damaged that the process crashes is not modelled. `Cmds`
includes the fall-through into `case 'H'` that the code has. `ordered` and `met` are
history: the bans by file or command not yet taken back, and the points of the last
reload that a command has met.

### CtxConn and Relay

`_pcall` is the state; each `Spin...` action is one call of `spin` in one state and
does all that call does, the chain into `_host_connect`, `_ssl_connect` or
`_r_is_connected` included. A handler is an operator that gives the set of its
outcomes (context, streams, `CALLR`), because receives and sends may stop at any
piece. A header is a number of pieces, of which the first are the request; how a
request is spelt does not matter, only whether it is complete, refused or bad.
`Returns` is the switch in `thread_main` with its fall-through from `R_KILL` to
`R_DONE`, `Sweep` is `clear_fd`, `isdead` and the removal. `IsARelay` maps a context
to `Relay`: "io" is granted, no open socket is ended. `Relay` allows holes only to
HTTP, whose context ignores what `sendall` answers.

What only shows here: the end of one connection, or a completed host handshake
(`R_DONE`), lets the sweep destroy siblings that moved nothing (`SweptWithAnother`
says that nothing else does); `_reuse_context`'s thrown `int` ends the process
(`crashed`, `CrashCulprit`); `_empty_host` never returns. A later HTTP request that has no
host, or one without an address, ends the relay with a reply like a first one.

### DnsRelay, DnsService, DnsHosts, DnsRoute

A question is taken up under a number, and the datagrams that have been sent stay
in a set from which any arrives at any time and any number of times: that is loss,
delay and duplication in one. `SeqSpace` stands for the 65434 numbers of `_gseq`, so
they do start again. `Rotated` has the off-by-one of `get_next_dns_ip`; what is read
behind the list is undefined, so the step may raise `fault`. `_try_connect` is split
where the other thread may come between (destroy, `raw_connect` with its assertion,
the wait), and only the watcher and the final send hold the lock. The notes are a
set, since control connections of different workers may overtake each other. The
cache of answers is off unless configured, and is left out.

`DnsRoute` uses `DnsService` in the place of miki, which `DnsRelay` is proved to
implement. `DnsHosts` keeps for each client a default route and one for the first
bytes of each request; `QueueBegin` and `QueueHost` are the two halves of
`queue_host`, whose clean-up takes and leaves the lock by itself. A read of a route
that is not there raises `hostFault`. Connections in `Redirected` come in on a port with a
configured host, and go there when their client has no route (contextdns.cpp:109). A
second request on such a connection throws in `_reuse_context`; that is in `CtxConn`.

### Crawler and CrawlQueue

A program point per lock section. `dbHolder` and `muHolder` are set only where a
lock is held while another is waited for, or over several steps; a section under one
lock alone is one step that needs the lock free. `DelSite` keeps the lock of the
working set when the site goes, and `UpdateServer` (its destructor) waits for the
database's; `DigUnchanged`/`DbLinks` hold them the other way round. `Touch` keeps the
database's while the page is fetched to compare it. `Look` reads the
three sizes one by one without a lock, in any order. `EnqueueLinks` queues one link
per step under the lock, so that the unlocked look comes between. `missed` is history:
some thread has held a page since the main thread began to look.

What a thread finds is lost in several ways, and each is a step: a redirect's target goes
with its page (`DigRedirected`), an exception anywhere in a page loses the links found so
far (`DigThrows`), the item that finds the cache full is not stored (`Overflows`), and the
cache is cleared whether or not its INSERT has worked (`Written`). A failing INSERT clears
`__alive` (`mysqlcls::error`). `Flushed` includes the comparison with the end of the wrong
cache: with two rows or more the statement is wrong, with one row it depends on addresses,
so both may be.

`own` holds the threads whose page has a wsite of its own: two threads found no site,
both made one, and `new_site` only counted the second (`NewSite`). That one is never
deleted. `SitesCounted` is about the wsite in the map, which both pages are counted with.

Definitions named `X_Something` before a definition `X`, with the comment
"variant", are not part of the specification. Each is `X` with one plausible
mistake; replacing `X` by it makes a property of a run fail, which shows that the
property depends on that part of the code.

## Runs

| run | instance | question |
|---|---|---|
| `engine` | 2 contexts, a static and a dynamic worker, cap 1, maxcap 2 | ownership, the pool's books, static workers kept, nothing left at the end, the implementation of `ConnService`; under fairness: dead contexts are deleted, shutdown ends or hangs in the lock cycle of `stops`, queued ones are taken |
| `shedding` | 3 contexts, 1 worker, queue up to 4 | with the queue really past `_maxcap`: no use after delete before a refusal |
| `refused` | the same size | **fails**: a refused context stays queued |
| `shutdown` | a static and a dynamic worker, 2 contexts each, log on and off | where a lock cycle can close, what a timely end leaves, and the end with the log off |
| `stops` | the same | **fails**: with the log on shutdown may never end |
| `commands` | 1 client, 2 workers, all commands, every file names the client | records, sessions, bans under every interleaving |
| `live` | 2 clients, no commands | records are trimmed and expire, and a blocked client gets in again if others connect too |
| `lostban` | 2 clients, B, b and R | **fails**: a ban given after a reload has begun is wiped by its second clear |
| `relay` | a connection of any protocol and of any fate beside a plain one; up to 2 pieces up, 1 down | the implementation of `Relay`, one answer, who crashes the worker, who sweeps whom; under fairness: a relay ends |
| `miki` | 1 client, 2 names, 2 numbers for 3 questions, 1 server | the implementation of `DnsService`, what brings miki down; under fairness: pending ends |
| `route` | 2 clients, 2 names, 2 signatures, a table of 1, one of the ports with a configured host | routes that are missing, and where connections go |
| `crawl` | 2 threads, 3 pages on 2 sites, caches of 2 rows, depth 1 | working set, sites, assertions, pages lost, early ends; under fairness: the crawl ends, but for an assertion, the lock cycle or a silent host |

### Bounds

`MaxQueue` bounds the queue (in the code a refused push leaves its entry, so it
has no bound); 4 is above `MaxCap`, so refusals occur and the queue grows after
them. `MaxEos` bounds the wake-up entries of `~ThreadPool`: one pending at a time
suffices, because a worker leaves at the first it takes and the loop pushes again.
Two contexts are the least for two owners of one context or two in one bucket;
three are needed to pass `_maxcap`, with addresses reused, which is why `shedding`
has one worker. Two workers are the least for a static and a dynamic one, for a
removal while another is signalled and for a lock cycle. `Preload` is 8 in the
code; 2 has both a preload that ends by its counter and one that ends at an empty
queue. In `AclDb` the limits keep the order of the code's (reset interval < record
lifetime, block after several refusals), ages saturate above the largest, and
`MaxLag` 1 makes the database's clock late by one tick. In `commands` one client
is enough because every command and check touches the records of one client; the
trimming of the oldest and the listener's cache need two and are in `live`.
`commands` has `MaxRecs` 1, so nothing is trimmed there.

`relay`: the first connection ranges over every protocol with every combination of
allowed, refused, bad, encrypted, found and second host; the second only opens and
ends, which is what a sibling must do to be swept or to cause it. `Alike` marks the
pieces that begin like a new request. `miki`: three questions for two numbers make the
numbers start again while the first may still be pending; one server is the least
list, and its rotation already goes past the end. `route`: the table holds one
client's routes, so the second note makes the clean-up run. `crawl`: the seeds and
links are such that a cache of two overflows, a page is queued twice, two threads
find the same site new, and both sides of the lock cycle occur; the depth ends it.

Symmetry is declared in safety runs only: contexts and workers are interchangeable
in `shedding`, workers in `commands`, clients, names and signatures in `route`.

### Fairness

- Threads are scheduled: weak fairness of the main thread and of each worker. The
  choices a thread makes by input (a select error, leaving the listener) are not
  fair by themselves; `Leave` is, once `__alive` is false, because the loop tests
  it.
- `CtxPool`: strong fairness of `Spin`. select fails with EINTR at a signal, and
  signals do not arrive for ever at each select. Nothing is assumed of the
  32-second timeout, so `Stops` does not rely on it.
- `AclDb`: the database thread and the clock run; every 180th pass expires records
  (strong fairness of the pass that is due); a refused connection is killed in the
  end and does leave. `BusySpec` adds that every client connects again and again,
  which is an assumption about clients and not the code: with it a block ends,
  without it it need not (the cached rejection of `_put_inqueue` outlives its record
  while nobody else connects).
- `CtxConn`: the worker goes on while it has something to do. Nothing is assumed of
  clients, hosts or of the time-out.
- `DnsRelay`: a pending question is late for some flush, which runs when there is
  nothing to read: clients do not keep the socket readable for ever. The threads go on
  with a reconnection they have begun.
- `Crawler`: the main thread and every thread run on, but a thread that fetches need not:
  no fetch has a time limit (wcurl.cpp:76), so a host may hold it for ever, in `_touched`
  with the database locked. `CrawlEnds` excepts such a host (`Silent`), and so promises
  nothing for a crawl that meets one. Nobody has to press Control-C.

`relay`, `miki`, `route` and `crawl` do not report deadlocks: their systems stop when
every connection has ended, when the bounds on questions are reached, or when the
crawl is over; that they stop only there is `RelayEnds`, `PendingEnds`, `CrawlEnds`.
`shutdown` and `stops` do not report them either: with the log on, the lock cycle of
`stops` is a real one and is stated by `CycleOnlyInSignalLoop` and `ServerStops`.

## Disagreements found between code and comments

1. `CtxQueue::push` appends before it compares with `_maxcap`; on -1 the listener
   deletes the context, and the queue keeps the pointer (`refused`). The comment
   says the connection is closed.
2. `~ThreadPool` holds the pool's lock while `signal_to_stop` waits for a worker's;
   that worker may wait for the pool's in `accumulate_log` (`stops`). The stop file
   is said to stop the server.
3. A reload clears the bans under the lock that commands take, and `_load` clears them
   again without it: a ban given in between is lost (`lostban`).

Met on the way, and shown by properties that hold up to them: `~ThreadPool` indexes
the pool by a size it read before the lock (threadpool.cpp:69, a fault in
`CtxPool`); the listener's cached `_rejected` outlives its record
(listeners.cpp:332); `_reuse_context`'s exception (`CrashCulprit`); miki's rotation
and its double reconnection (`FaultsExplained`); a default route erased from under
others (`MissesExplained`); mitza's second wsite, which its page
does not share and nobody deletes (`own` in `Crawler`), its lock cycle and its fetches without a
time limit (`CrawlEnds`), its lost pages (`KeptUntilWorked`) and its early end
(`EndExplained`).

The positive results bound these: (1) is the only way to a use after delete of a
context (theorem `DeletedOnceHolds`), and (2) is the only lock cycle
(theorems `CycleOnlyInSignalLoopHolds`, `NoLockCycleHolds`).

## Proofs

Every safety property that a passing run checks, invariant, action property or
refinement, is also a theorem: the run shows it on a small instance, the theorem for
every value of the constants. The assumptions are those the modules state of their
constants, and they say only what the code's constructors and configuration enforce
(sizes positive and in order, finitely many threads, a marker for "none" that is not a
value). TLC checked each strengthened invariant on the instances above before it was
proved.

`CtxPool_proofs`, from `CtxPoolAssumption`:

- `TypeCorrect`. `TypeOK` alone is not inductive: `Put` appends
  `hand[t]` to a bucket of contexts, so the invariant must know that a hand is full
  exactly at "put" (`HandFull`), and `Sweep` indexes the bucket, so it must know
  that the index is at least 1 (`SweepSlot`). `TypeInvariant` proves the
  conjunction.
- `Ownership`: `Spec => []OwnInv`. `OwnedOnce` counts holders, which no step sees
  directly; `Owned` says the same as pairwise disjointness of queue, hands and
  buckets, each without repetition, covering `live`. Each step that moves a context
  (`Accept`, `Fetch`, `Put`, `Sweep`, `DeleteAll` in `CloseAll` and `Drain`,
  `DtorFree`) disturbs a few conjuncts; the others follow by one frame step. The
  part about `fault` holds because with `Owned` every delete finds what it deletes.
- `OwnedOnceHolds` and `DeletedOnceHolds` follow from `Ownership`.
- `AppendOnce`, `TailOnce`, `SwapRemoveOnce`: the sequence facts behind these, for
  sequences of any length. Sequences are handled through their elements and the
  absence of repetition, so no induction is needed.

`CtxPoolService_proofs`, which builds on it:

- `Accounting`: `Accounts` says that vector, threads and counter agree until
  `~ThreadPool` clears the vector, and that afterwards the counter is at least the
  number of threads counted in, because `remove_thread` no longer finds them. The
  second half is what makes the first inductive at the end. `PoolAccountingHolds`
  follows.
- `StaticInvariant`: that the workers which run and are not dynamic are as many as
  `create` has made needs to know who can be dynamic at all: nobody before the
  thread starts, nobody while `create` runs, and everybody that ends while the
  server lives. `StaticKeptHolds` follows.
- `NoneLeftAtEndHolds`, from `Ownership`, `Accounting`, `Ending` (the pool is destroyed
  only once the server has stopped) and `Idleness` (a worker outside its loop has an
  empty bucket).
- `ServiceImplemented`: `Spec => ImplementsService`, step by step. The mapping takes the
  server of a connection from hands and buckets; with `Owned` it is unique
  (`OwnedServer`), so `Fetch` is a step of the service, `Put` a stutter, and the
  deletes of the sweep, of `CloseAll` and of `Drain` finish their connections
  (`Finished`). `DtorFree` drops the line, which the service allows once it has
  stopped (`EndInv`); after a refused push (`shed`) it promises nothing.

`PoolShutdown_proofs`, from `PoolShutdownAssumption`:

- `ShutdownInvariant`: who holds each lock follows from the program points
  (`BucketLocks`, `CountLock`, `PoolLock`), and what is left follows from the count
  (`Drained`).
- `NoLockCycleHolds`, `CycleOnlyInSignalLoopHolds`: by points. An actor is at one of
  four kinds of point (`OnePoint`), and `Waits` says which kind waits for which: for
  `_hctxcount` one waits for who has it, with the log on that one for the pool's lock,
  and who has the pool's lock waits only in the signal loop. With the log off, or outside
  that loop, following the waits always ends, so no set of threads wait for each other.
- `DrainedAtEnd`: from `Drained` and the cardinality of the workers between `inc()` and
  `dec()` (`CountingStep`).

`AclDb_proofs`, from `AclDbAssumption`:

- `TypesAndRecords`: types, `RecordsSane` and, since what the listener asks about and
  lets in is `_previp`, that it is a client once a connection is being decided on
  (`Listening`). `AgeBounds`: an age that saturates still counts as a record.
- `SessionInvariant`: a bound on `bcount` of a client in session is not kept by the
  second lock section of `check_bounce`, which adds one. What is kept is the sum of
  `bcount` and of the workers between their two sections (`SessionCounts`): such
  a step moves one from the second to the first, and no worker enters the first
  section for a client in session.
- `BansOrderedHolds` needs `BansCleared` beside it: between the two clears of a reload
  nobody is banned unless a command has met it, so the second changes nothing.

`CtxConn_proofs`, from `CtxConnAssumption`: for every number of connections, whatever
each is for, with streams of any length and any bounds on them.

- `ConnInvariant`: `Inv` is types, the loop of the worker (`LoopInv`) and, for each
  connection, `ConnInv`. `Base` holds at any time; in it `Polite` says what a client
  that waits for an answer has not sent yet, which is why a request is complete when the
  host is connected, and `Single` that an answer is the only one. An open context is
  either `Asking` (nothing carried, no answer, and per state what the header holds) or
  `Granting`. `Flow` says that a relaying context has carried exactly what it received
  (`Reaches`), for HTTP at most that and without the request it holds.
  A handler is a set of outcomes, so each gets one lemma (`GreetSteps`, `AskSteps`,
  `HostConnectSteps`, `ConnectedGrants`, `RelayIoRelays`, `HttpIoRelays`, ...): every
  outcome is `Asked` or `Relayed`. `SpinSteps` puts them together and is used by both the
  invariant and the refinement. `Numbered` is the fact about sequences behind them.
- `TypeCorrect`, `OneAnswerHolds`, `CrashCulpritHolds`, `SweptWithAnotherHolds` follow.
  The last rests on one conjunct of `LoopInv`: after a turn in which something was spun
  and nothing ended, `delete_oldies` is off.
- `RelayImplemented`: `Spec => IsARelay`. An outcome that is `Relayed` is a `Grant`,
  `Carry` or `End` of `Relay` by the state it came from, an outcome that is `Asked` an
  `End` or a stutter, a sweep an `End` or a stutter; the peers and the loop stutter.

`DnsRelay_proofs`, from the assumptions on the constants (a list of at least one
server, a sequence of at least one number):

- `TypeCorrect`: the pending table only points at questions taken up, which is part of
  the invariant because a reply reads the question by that pointer.
- `ServiceImplemented`: `RelaySpec => IsAService`, step by step. The inductive
  invariant `RelayInv` says that an entry's question bears the entry's number, that
  `_gseq` is the number after the last one's, that whatever was sent bears the name of
  a question of that number, and that no pending question has been answered. From it each
  `FromDns`, `SendNote` and `NotConnected` is a `Serve`, each `FromClient` a `TakeUp`,
  all else a stutter. `RotatedRange`, `EntrySet`, `TakenGrows` and `ReplyServes` are its
  lemmas.
- `FaultsHold`: with `RotationCounts`, which relates the index to the number of
  rotations while it is below the number of servers.

`DnsRoute_proofs`, from `DnsRouteAssumption` (with "no route" neither a note nor an
entry of the table):

- `Routing`: `RoutedWhereAsked` looks at a connection that was routed long ago, so the
  invariant follows a note from miki's reply to there (`NotesTrue`), and stays true while
  more questions are taken up. `LatestRoute` needs that all routes of a client come from
  one note (`OneNote`), `MissesExplained` that the default route goes only with the
  clean-up (`DefaultKept`).
- `MissesExplainedHolds`, `RoutedWhereAskedHolds`, `LatestRouteHolds` follow.

`Crawler_proofs`, from `CrawlerAssumption` and `PrequeAssumption`:

- `TypeCorrect`. The queue operators get a lemma each (`EnqueuedType`, `DequeuedType`,
  `FlushedType`, ...); the bounds on `refs` and `winst` follow only from what they count,
  so the theorem needs `CrawlInvariant` as well.
- `CrawlInvariant`: the working set is exactly the pages of the threads in it
  (`WorkingSet`), no page twice (`OneWorker`), each site counts its pages
  (`SitesCounted`, by cardinalities of sets of threads: `PageEnters`, `PageLeaves`,
  `PagesStay`), `_winstance` counts the threads that are not at rest (`Counted`), and
  while a thread goes to rest, what is queued has another thread (`Rested`).
  `AssertsWhenAlive` needs all of them: the last to rest sees an empty queue by
  `Rested`, an empty working set by `WorkingSet` and no site by `SitesCounted`.
- `OneWorkerHolds`, `SitesCountedHolds` and `AssertsHold` follow from it.
- `EndExplainedHolds`: from `LookInvariant`. A look in which no thread had a page has
  found each cache it has read empty, and they stay so (`SeenEmpty`): only a thread
  with a page queues links (`LinksInHand`).
- `KeptUntilWorkedHolds`: an action property, step by step from `TypeInv` and
  `CrawlInv`. The pages of a queue are followed through each of its operators (`UrlsAppend`,
  `UrlsConcat`, `UrlsHead` and one lemma per operator), and each step of a thread either
  keeps the page in its hands or is one of the excuses of the property.

Some leaves name a backend with more time (`SMTT`, `ZenonT`), where the default is close
to what they take.

Only model-checked: all liveness (`DeadDeleted`, `Stops`, `QueueServed`,
`StopsWithoutLog`, `BlockEnds`, `RelayEnds`, `PendingEnds`, `CrawlEnds`), which rests on
fairness and ENABLED and is beyond the prover. The three properties that fail have no
theorem; what bounds them has: `DeletedOnceHolds`, `CycleOnlyInSignalLoopHolds`,
`BansOrderedHolds`.

## Not modelled

Buffers, byte counts, bandwidth limits, log texts and files (they decide nothing the
properties tell apart); the TLS, text and socket wrappers beyond what they may answer;
`set_sync_mode` of the queue (no caller); restarting of ports; the name caches of the
database; miki's cache and message format; legacy contexts that the build leaves out;
the tasker (nothing waits for its results); the statistics; pizu, oohshell and pidisc;
the page text and the PHP pages of mitza, and failures of its database other than of
INSERTs (a SELECT that fails has no result to read).

In `CtxPool` the spin of one pass is one step: within it a worker touches only its own
contexts, except that `signal_to_stop` closes sockets, which is a step of main. In
`CtxConn` one worker has at most the connections it is given, and its peers act
between its turns: a socket is looked at once in a turn, so what a peer does in one is
as if done before or after it.

More than half of the repository's lines are a vendored script engine with its
bindings, option parsers, HTTP and SQL text and platform wrappers: sequential code over
data, whose modules would restate it. The models cover the code that has
state, threads or an order of messages.

## Plan

1. Proofs: the part of the liveness properties that is a safety property, as invariants
   that say with the guards themselves who can go on: in `PoolShutdown` that without the
   log some thread can until the end, in `Crawler` that some thread can unless two hold
   each other's lock, in `CtxConn` that the worker always can.
2. miki's cache of answers: an answer to one question stored under another's signature
   once the numbers have started again.
3. pizu's pool, with the return that keeps its lock.

Runs are kept few: components that interact are checked together (miki's relay with
the host table it feeds; mitza's working set with its queue), and a finding whose
mechanism another run already shows gets no run of its own.
