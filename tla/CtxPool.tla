------------------------------ MODULE CtxPool ------------------------------
(***************************************************************************)
(* The connection engine of buflea: the listener (the main thread) accepts *)
(* connections, wraps each in a context and pushes it on the context queue *)
(* (ctxqueue.cpp); the workers of the thread pool pop contexts into their  *)
(* bucket, spin them and delete the dead ones (ctxthread.cpp); workers are *)
(* added when the queue overflows and remove themselves when they end      *)
(* (threadpool.cpp); at the end the main thread runs ~ThreadPool.          *)
(*                                                                         *)
(* Contexts are ADDRESSES: a deleted address may be handed out again by    *)
(* the allocator, so a pointer kept after the delete may later denote      *)
(* somebody else's connection.  Workers are addresses too.  A step that    *)
(* uses or deletes a context, a worker or the pool after its deletion      *)
(* raises "fault": what the program does from there is undefined, and the  *)
(* model stops.                                                            *)
(***************************************************************************)
EXTENDS Integers, Sequences, FiniteSets

CONSTANTS
  Ctx,         \* addresses the allocator hands out for contexts
  Worker,      \* addresses the allocator hands out for CtxesThread objects
  Null,        \* the null context: an empty hand, and the eos entry of the queue
  Cap,         \* CtxQueue::_cap
  MaxCap,      \* CtxQueue::_maxcap
  MaxCtxes,    \* contexts a worker serves at most (_max_clients)
  MinThreads,  \* workers made by create() (_count)
  MaxThreads,  \* workers at most (_maxcount)
  Preload,     \* contexts a dynamic worker takes before its loop (8 in the code)
  TrafficLog,  \* contexts may have traffic to log when they are deleted (_blog)
  MaxQueue,    \* bound on the queue: a refused push leaves its entry, the code has none
  MaxEos       \* bound on the eos entries ~ThreadPool has pending at a time

\* CtxQueue and ThreadPool "fix" the configured values into these ranges
ASSUME CtxPoolAssumption ==
  /\ IsFiniteSet(Worker)
  /\ Null \notin Ctx
  /\ Cap \in Nat \ {0}
  /\ MaxCap \in Nat /\ Cap < MaxCap
  /\ MaxCtxes \in Nat \ {0}
  /\ MinThreads \in Nat \ {0}
  /\ MaxThreads \in Nat /\ MinThreads <= MaxThreads
  /\ MaxThreads <= Cardinality(Worker)
  /\ Preload \in Nat \ {0}
  /\ TrafficLog \in BOOLEAN
  /\ MaxQueue \in Nat /\ MaxEos \in Nat \ {0}

VARIABLES
  q,        \* CtxQueue::_q
  live,     \* addresses of the contexts constructed and not yet deleted
  open,     \* those whose client or host socket is open (~isdead)
  mpc,      \* program point of the main thread
  pctx,     \* Listeners::_put_inqueue's pctx, the context of the last accept
  made,     \* the loop counter of ThreadPool::create
  nsig,     \* ~ThreadPool's local "alive", the size of _pool it read
  pool,     \* ThreadPool::_pool
  nalive,   \* ThreadPool::_alive
  tpc,      \* program point of each worker
  dynamic,  \* CtxesThread::_dynamic
  bstop,    \* OsThread::_bstop
  hand,     \* the context a worker has popped and not yet put in its bucket
  bucket,   \* CtxesThread::_pctxs
  idx,      \* loop index of a worker: preload count, then sweep position
  alive,    \* the global __alive
  shed,     \* some push has returned -1 (history)
  fault     \* which use-after-delete has happened, "none" before it

queueVars  == <<q, live, open>>
mainVars   == <<mpc, pctx, made, nsig>>
poolVars   == <<pool, nalive>>
workerVars == <<tpc, dynamic, bstop, hand, bucket, idx>>
vars == <<queueVars, mainVars, poolVars, workerVars, alive, shed, fault>>

MainPoints == {"create", "poll", "ready", "range", "over", "grow", "shed",
               "size", "signal", "hang", "eos", "clear", "free", "end"}
WorkerPoints == {"none", "start", "preload", "loop", "fetch", "put", "io",
                 "sweep", "drain", "post", "hang"}
Faults == {"none", "context", "thread", "pool"}

Elems(s) == {s[i] : i \in 1..Len(s)}

\* variant: the last element is dropped instead of moved
SwapRemove_LosesLast(s, k) == SubSeq(s, 1, Len(s) - 1)

\* Bucket<T>::remove: the last element moves into the hole
SwapRemove(s, k) ==
  [i \in 1..(Len(s) - 1) |-> IF i = k THEN s[Len(s)] ELSE s[i]]

\* no context of the bucket is deleted, or there twice
Deletable(t) ==
  /\ Elems(bucket[t]) \subseteq live
  /\ \A i, j \in 1..Len(bucket[t]) : bucket[t][i] = bucket[t][j] => i = j

\* vector::erase
EraseAt(s, k) == SubSeq(s, 1, k - 1) \o SubSeq(s, k + 1, Len(s))

Init ==
  /\ q = <<>> /\ live = {} /\ open = {}
  /\ mpc = "create" /\ pctx = Null /\ made = 0 /\ nsig = 0
  /\ pool = <<>> /\ nalive = 0
  /\ tpc = [t \in Worker |-> "none"]
  /\ dynamic = [t \in Worker |-> FALSE]
  /\ bstop = [t \in Worker |-> FALSE]
  /\ hand = [t \in Worker |-> Null]
  /\ bucket = [t \in Worker |-> <<>>]
  /\ idx = [t \in Worker |-> 0]
  /\ alive = TRUE /\ shed = FALSE /\ fault = "none"

\* The step that touches freed memory: nothing is said of what follows it.
Fault(kind) ==
  /\ fault' = kind
  /\ UNCHANGED <<queueVars, mainVars, poolVars, workerVars, alive, shed>>

-----------------------------------------------------------------------------
(* The main thread: create, then the listener loop.                        *)

\* ThreadPool::add_thread under _m: a new worker, started before the unlock
AddThread(t, dyn) ==
  /\ tpc[t] = "none"
  /\ pool' = Append(pool, t)
  /\ tpc' = [tpc EXCEPT ![t] = "start"]
  /\ dynamic' = [dynamic EXCEPT ![t] = dyn]
  /\ UNCHANGED <<nalive, bstop, hand, bucket, idx>>

Create ==
  /\ mpc = "create"
  /\ IF made < MinThreads
       THEN /\ \/ Len(pool) < MaxThreads /\ \E t \in Worker : AddThread(t, FALSE)
               \/ Len(pool) >= MaxThreads /\ UNCHANGED <<poolVars, workerVars>>
            /\ made' = made + 1 /\ UNCHANGED mpc
       ELSE mpc' = "poll" /\ UNCHANGED <<made, poolVars, workerVars>>
  /\ UNCHANGED <<queueVars, pctx, nsig, alive, shed, fault>>

\* while(!_bstop && __alive) with a connection pending
Poll ==
  /\ mpc = "poll" /\ alive
  /\ mpc' = "ready"
  /\ UNCHANGED <<queueVars, pctx, made, nsig, poolVars, workerVars, alive, shed, fault>>

\* accept, _fabric, and CtxQueue::push up to its unlock
Accept ==
  /\ mpc = "ready" /\ Len(q) < MaxQueue
  /\ \E c \in Ctx \ live :
       /\ live' = live \cup {c} /\ open' = open \cup {c}
       /\ q' = Append(q, c) /\ pctx' = c
  /\ mpc' = "range"
  /\ UNCHANGED <<made, nsig, poolVars, workerVars, alive, shed, fault>>

\* accept fails, the client is rejected by the ACL, or no context fits the port
Reject ==
  /\ mpc = "ready"
  /\ mpc' = "poll"
  /\ UNCHANGED <<queueVars, pctx, made, nsig, poolVars, workerVars, alive, shed, fault>>

\* the first size read of push, after the unlock
InRange ==
  /\ mpc = "range"
  /\ IF Len(q) < Cap THEN mpc' = "poll" /\ pctx' = Null
                     ELSE mpc' = "over" /\ UNCHANGED pctx
  /\ UNCHANGED <<queueVars, made, nsig, poolVars, workerVars, alive, shed, fault>>

\* the second size read: -1 sheds; 0 grows the pool when every_sec is 0
Overflow ==
  /\ mpc = "over"
  /\ \/ Len(q) > MaxCap /\ mpc' = "shed" /\ shed' = TRUE /\ UNCHANGED pctx
     \/ Len(q) <= MaxCap /\ mpc' \in {"grow", "poll"} /\ pctx' = Null /\ UNCHANGED shed
  /\ UNCHANGED <<queueVars, made, nsig, poolVars, workerVars, alive, fault>>

Grow ==
  /\ mpc = "grow"
  /\ \/ Len(pool) < MaxThreads /\ \E t \in Worker : AddThread(t, TRUE)
     \/ Len(pool) >= MaxThreads /\ UNCHANGED <<poolVars, workerVars>>
  /\ mpc' = "poll"
  /\ UNCHANGED <<queueVars, pctx, made, nsig, alive, shed, fault>>

\* "delete pctx": its pointer stays wherever the queue or a worker has it
Shed ==
  /\ mpc = "shed"
  /\ IF pctx \in live
       THEN /\ live' = live \ {pctx} /\ open' = open \ {pctx}
            /\ mpc' = "poll" /\ pctx' = Null
            /\ UNCHANGED <<q, made, nsig, poolVars, workerVars, alive, shed, fault>>
       ELSE Fault("context")

\* the stop file, a select error, or __alive found false
Leave ==
  /\ mpc = "poll"
  /\ mpc' = "size" /\ alive' = FALSE
  /\ UNCHANGED <<queueVars, pctx, made, nsig, poolVars, workerVars, shed, fault>>

\* ControlC, or the pool's own thread ending: __alive = false at any time
Interrupt ==
  /\ alive /\ alive' = FALSE
  /\ UNCHANGED <<queueVars, mainVars, poolVars, workerVars, shed, fault>>

-----------------------------------------------------------------------------
(* ~ThreadPool, then ~CtxQueue.                                            *)

DtorSize ==
  /\ mpc = "size"
  /\ nsig' = Len(pool) /\ mpc' = "signal"
  /\ UNCHANGED <<queueVars, pctx, made, poolVars, workerVars, alive, shed, fault>>

\* signal_to_stop of _pool[0..nsig): stop flag, and every context of it cleared
DtorSignal ==
  LET signalled == {pool[i] : i \in 1..nsig}
      cleared == UNION {Elems(bucket[t]) : t \in signalled}
  IN /\ mpc = "signal"
     /\ IF nsig > Len(pool) THEN Fault("thread")
        ELSE IF ~(cleared \subseteq live) THEN Fault("context")
        ELSE /\ bstop' = [t \in Worker |-> IF t \in signalled THEN TRUE ELSE bstop[t]]
             /\ open' = open \ cleared
             /\ mpc' = "eos" /\ nsig' = 0
             /\ UNCHANGED <<q, live, pctx, made, poolVars, tpc, dynamic, hand,
                            bucket, idx, alive, shed, fault>>

\* Worker t is about to delete a context under its own lock: in the sweep, in
\* _close_all or in the clean-up.
Deleting(t) ==
  \/ tpc[t] = "sweep" /\ idx[t] <= Len(bucket[t]) /\ bucket[t][idx[t]] \in live \ open
  \/ tpc[t] \in {"io", "drain"} /\ bucket[t] # <<>> /\ Deletable(t)

\* The loop of ~ThreadPool holds the pool's lock and asks each worker for its
\* own.  The one at k has it, and deletes a context with traffic to log:
\* accumulate_log asks for the pool's lock, and neither goes on (the locks
\* themselves are in PoolShutdown).
DtorHang ==
  /\ TrafficLog /\ mpc = "signal" /\ nsig <= Len(pool)
  /\ \E k \in 1..nsig :
       LET cleared == UNION {Elems(bucket[pool[i]]) : i \in 1..(k - 1)}
       IN /\ Deleting(pool[k]) /\ cleared \subseteq live
          /\ open' = open \ cleared
          /\ bstop' = [t \in Worker |-> bstop[t] \/ \E i \in 1..k : pool[i] = t]
          /\ tpc' = [tpc EXCEPT ![pool[k]] = "hang"]
  /\ mpc' = "hang"
  /\ UNCHANGED <<q, live, pctx, made, nsig, poolVars, dynamic, hand, bucket, idx,
                 alive, shed, fault>>

\* Then the pool's lock and _hctxcount are never free again: nobody deletes a
\* context, enters the count or leaves the pool.
LocksFree == mpc # "hang"

\* while(count() && _alive && time(0) < tout) _q.push(0)
DtorEos ==
  /\ mpc = "eos"
  /\ \/ /\ nalive # 0
        /\ Cardinality({i \in 1..Len(q) : q[i] = Null}) < MaxEos
        /\ q' = Append(q, Null)
        /\ UNCHANGED mpc
     \/ nalive = 0 /\ mpc' = "clear" /\ UNCHANGED q
  /\ UNCHANGED <<live, open, pctx, made, nsig, poolVars, workerVars, alive, shed, fault>>

\* the 32 seconds are over with workers left
DtorTimeout ==
  /\ mpc = "eos" /\ nalive # 0
  /\ mpc' = "clear"
  /\ UNCHANGED <<queueVars, pctx, made, nsig, poolVars, workerVars, alive, shed, fault>>

DtorClear ==
  /\ mpc = "clear"
  /\ pool' = <<>> /\ mpc' = "free"
  /\ UNCHANGED <<queueVars, pctx, made, nsig, nalive, workerVars, alive, shed, fault>>

\* variant: the queue is emptied without deleting the contexts
DtorFree_OnlyClears ==
  /\ mpc = "free" /\ mpc' = "end" /\ q' = <<>>
  /\ UNCHANGED <<live, open, pctx, made, nsig, poolVars, workerVars, alive, shed, fault>>

\* ~CtxQueue deletes what is still queued (deleting a null pointer is nothing)
DtorFree ==
  LET left == Elems(q) \ {Null}
  IN /\ mpc = "free"
     /\ IF left \subseteq live /\ \A i, j \in 1..Len(q) : q[i] = q[j] /\ q[i] # Null => i = j
          THEN /\ live' = live \ left /\ open' = open \ left /\ q' = <<>>
               /\ mpc' = "end"
               /\ UNCHANGED <<pctx, made, nsig, poolVars, workerVars, alive, shed, fault>>
          ELSE Fault("context")

\* a worker that still runs after the pool is destroyed
UseAfterDtor ==
  /\ mpc = "end" /\ \E t \in Worker : tpc[t] # "none"
  /\ Fault("pool")

-----------------------------------------------------------------------------
(* A worker.                                                               *)

\* _pre_thread_foo: ThreadPool::inc
Enter(t) ==
  /\ tpc[t] = "start" /\ LocksFree
  /\ nalive' = nalive + 1
  /\ tpc' = [tpc EXCEPT ![t] = IF dynamic[t] THEN "preload" ELSE "loop"]
  /\ UNCHANGED <<queueVars, mainVars, pool, dynamic, bstop, hand, bucket, idx, alive, shed, fault>>

\* while(!_bstop && __alive)
Loop(t) ==
  /\ tpc[t] = "loop"
  /\ tpc' = [tpc EXCEPT ![t] = IF ~bstop[t] /\ alive THEN "fetch" ELSE "drain"]
  /\ UNCHANGED <<queueVars, mainVars, poolVars, dynamic, bstop, hand, bucket, idx, alive, shed, fault>>

\* _pctxs.size() < _max_clients
Room_OneLess(t) == Len(bucket[t]) < MaxCtxes - 1
Room(t) == Len(bucket[t]) < MaxCtxes

\* _get_from_q with nothing to take; an empty dynamic worker may have been
\* idle for longer than time_out and break
FetchNone(t) ==
  /\ tpc[t] \in {"preload", "fetch"}
  /\ ~Room(t) \/ q = <<>>
  /\ LET next == IF tpc[t] = "preload" THEN {"loop"}
                 ELSE IF bucket[t] # <<>> THEN {"io"}
                 ELSE IF dynamic[t] THEN {"loop", "drain"} ELSE {"loop"}
     IN \E p \in next : tpc' = [tpc EXCEPT ![t] = p]
  /\ idx' = [idx EXCEPT ![t] = 0]
  /\ UNCHANGED <<queueVars, mainVars, poolVars, dynamic, bstop, hand, bucket, alive, shed, fault>>

\* _get_from_q pops the eos entry: it ends the preload or the loop
FetchEos(t) ==
  /\ tpc[t] \in {"preload", "fetch"}
  /\ Room(t) /\ q # <<>> /\ Head(q) = Null
  /\ q' = Tail(q)
  /\ tpc' = [tpc EXCEPT ![t] = IF tpc[t] = "preload" THEN "loop" ELSE "drain"]
  /\ idx' = [idx EXCEPT ![t] = 0]
  /\ UNCHANGED <<live, open, mainVars, poolVars, dynamic, bstop, hand, bucket, alive, shed, fault>>

\* variant: the context is read, and stays in the queue
Fetch_Peeks(t) ==
  /\ tpc[t] \in {"preload", "fetch"} /\ Room(t) /\ q # <<>> /\ Head(q) # Null
  /\ hand' = [hand EXCEPT ![t] = Head(q)] /\ tpc' = [tpc EXCEPT ![t] = "put"]
  /\ UNCHANGED <<queueVars, mainVars, poolVars, dynamic, bstop, bucket, idx, alive, shed, fault>>

\* _get_from_q pops a context, outside the worker's lock
Fetch(t) ==
  /\ tpc[t] \in {"preload", "fetch"}
  /\ Room(t) /\ q # <<>> /\ Head(q) # Null
  /\ q' = Tail(q)
  /\ hand' = [hand EXCEPT ![t] = Head(q)]
  /\ idx' = [idx EXCEPT ![t] = IF tpc[t] = "preload" THEN @ + 1 ELSE 0]
  /\ tpc' = [tpc EXCEPT ![t] = "put"]
  /\ UNCHANGED <<live, open, mainVars, poolVars, dynamic, bstop, bucket, alive, shed, fault>>

\* _pctxs.push under the worker's lock; idx is 0 unless the worker preloads
Put(t) ==
  /\ tpc[t] = "put"
  /\ bucket' = [bucket EXCEPT ![t] = Append(@, hand[t])]
  /\ hand' = [hand EXCEPT ![t] = Null]
  /\ \/ idx[t] = 0 /\ tpc' = [tpc EXCEPT ![t] = "io"] /\ UNCHANGED idx
     \/ idx[t] \in 1..(Preload - 1) /\ tpc' = [tpc EXCEPT ![t] = "preload"] /\ UNCHANGED idx
     \/ idx[t] = Preload /\ tpc' = [tpc EXCEPT ![t] = "loop"] /\ idx' = [idx EXCEPT ![t] = 0]
  /\ UNCHANGED <<queueVars, mainVars, poolVars, dynamic, bstop, alive, shed, fault>>

\* variant: the sweep starts at the second slot
Spin_FromSecond(t) ==
  /\ tpc[t] = "io" /\ Elems(bucket[t]) \subseteq live
  /\ \E closed \in SUBSET Elems(bucket[t]) : open' = open \ closed
  /\ tpc' = [tpc EXCEPT ![t] = "sweep"] /\ idx' = [idx EXCEPT ![t] = 2]
  /\ UNCHANGED <<q, live, mainVars, poolVars, dynamic, bstop, hand, bucket, alive, shed, fault>>

\* select and spin: any of the worker's contexts may end here (protocol error,
\* peer close, timeout found by clear_fd), then the sweep starts
Spin(t) ==
  /\ tpc[t] = "io" /\ Elems(bucket[t]) \subseteq live
  /\ \E closed \in SUBSET Elems(bucket[t]) : open' = open \ closed
  /\ tpc' = [tpc EXCEPT ![t] = "sweep"]
  /\ idx' = [idx EXCEPT ![t] = 1]
  /\ UNCHANGED <<q, live, mainVars, poolVars, dynamic, bstop, hand, bucket, alive, shed, fault>>

\* select fails: EINTR repeats the loop, an unknown error breaks
SelectError(t) ==
  /\ tpc[t] = "io" /\ Elems(bucket[t]) \subseteq live
  /\ \E p \in {"loop", "drain"} : tpc' = [tpc EXCEPT ![t] = p]
  /\ UNCHANGED <<queueVars, mainVars, poolVars, dynamic, bstop, hand, bucket, idx, alive, shed, fault>>

\* variant: the contexts are deleted with their sockets still open
DeleteAll_LeavesOpen(t) ==
  /\ live' = live \ Elems(bucket[t])
  /\ bucket' = [bucket EXCEPT ![t] = <<>>] /\ UNCHANGED open

\* Every context of the bucket is deleted; one that is there twice, or already
\* deleted, is a double delete.
DeleteAll(t) ==
  /\ live' = live \ Elems(bucket[t]) /\ open' = open \ Elems(bucket[t])
  /\ bucket' = [bucket EXCEPT ![t] = <<>>]

\* select fails with EBADF or EINVAL: _close_all
CloseAll(t) ==
  /\ tpc[t] = "io" /\ Deletable(t) /\ LocksFree
  /\ DeleteAll(t)
  /\ tpc' = [tpc EXCEPT ![t] = "loop"]
  /\ UNCHANGED <<q, mainVars, poolVars, dynamic, bstop, hand, idx, alive, shed, fault>>

\* variant: the dead context is deleted and its slot is not removed
Sweep_KeepsSlot(t) ==
  LET k == idx[t] IN
  /\ tpc[t] = "sweep" /\ k <= Len(bucket[t]) /\ bucket[t][k] \in live
  /\ live' = IF bucket[t][k] \in open THEN live ELSE live \ {bucket[t][k]}
  /\ idx' = [idx EXCEPT ![t] = k + 1]
  /\ UNCHANGED <<q, open, bucket, mainVars, poolVars, tpc, dynamic, bstop, hand, alive, shed, fault>>

\* One iteration of the sweep: the dead context at k is deleted and the last
\* one moves to k, so that it is not looked at in this pass
Sweep(t) ==
  LET k == idx[t] IN
  /\ tpc[t] = "sweep" /\ k <= Len(bucket[t]) /\ bucket[t][k] \in live
  /\ IF bucket[t][k] \in open
       THEN UNCHANGED <<live, open, bucket>>
       ELSE /\ LocksFree
            /\ live' = live \ {bucket[t][k]} /\ UNCHANGED open
            /\ bucket' = [bucket EXCEPT ![t] = SwapRemove(@, k)]
  /\ idx' = [idx EXCEPT ![t] = k + 1]
  /\ UNCHANGED <<q, mainVars, poolVars, tpc, dynamic, bstop, hand, alive, shed, fault>>

\* past the last context only null slots are left
SweepEnd(t) ==
  /\ tpc[t] = "sweep" /\ idx[t] > Len(bucket[t])
  /\ tpc' = [tpc EXCEPT ![t] = "loop"]
  /\ idx' = [idx EXCEPT ![t] = 0]
  /\ UNCHANGED <<queueVars, mainVars, poolVars, dynamic, bstop, hand, bucket, alive, shed, fault>>

\* variant: the end of a static worker goes unnoticed
Drain_StaticToo(t) ==
  /\ tpc[t] = "drain" /\ Deletable(t) /\ (LocksFree \/ bucket[t] = <<>>)
  /\ DeleteAll(t)
  /\ tpc' = [tpc EXCEPT ![t] = "post"]
  /\ UNCHANGED <<q, mainVars, poolVars, dynamic, bstop, hand, idx, alive, shed, fault>>

\* the clean-up after the loop; the end of a static worker ends the server
Drain(t) ==
  /\ tpc[t] = "drain" /\ Deletable(t) /\ (LocksFree \/ bucket[t] = <<>>)
  /\ DeleteAll(t)
  /\ alive' = (alive /\ dynamic[t])
  /\ tpc' = [tpc EXCEPT ![t] = "post"]
  /\ UNCHANGED <<q, mainVars, poolVars, dynamic, bstop, hand, idx, shed, fault>>

\* the worker touches a context that was deleted under it, or deletes it again
UseDeleted(t) ==
  /\ \/ tpc[t] = "io" /\ ~(Elems(bucket[t]) \subseteq live)
     \/ tpc[t] = "sweep" /\ idx[t] <= Len(bucket[t]) /\ bucket[t][idx[t]] \notin live
     \/ tpc[t] \in {"io", "drain"} /\ ~Deletable(t)
  /\ Fault("context")

\* variant: the worker is erased from the pool without dec()
Post_ForgetsDec(t) ==
  /\ tpc[t] = "post" /\ LocksFree
  /\ pool' = SelectSeq(pool, LAMBDA u : u # t)
  /\ tpc' = [tpc EXCEPT ![t] = "none"]
  /\ dynamic' = [dynamic EXCEPT ![t] = FALSE] /\ bstop' = [bstop EXCEPT ![t] = FALSE]
  /\ UNCHANGED <<queueVars, mainVars, nalive, hand, bucket, idx, alive, shed, fault>>

\* _post_thread_foo: ThreadPool::remove_thread, then the thread is gone
Post(t) ==
  /\ tpc[t] = "post" /\ LocksFree
  /\ \/ \E k \in 1..Len(pool) :
          /\ pool[k] = t
          /\ pool' = EraseAt(pool, k) /\ nalive' = nalive - 1
     \/ t \notin Elems(pool) /\ UNCHANGED poolVars
  /\ tpc' = [tpc EXCEPT ![t] = "none"]
  /\ dynamic' = [dynamic EXCEPT ![t] = FALSE]
  /\ bstop' = [bstop EXCEPT ![t] = FALSE]
  /\ UNCHANGED <<queueVars, mainVars, hand, bucket, idx, alive, shed, fault>>

-----------------------------------------------------------------------------

Main == \/ Create \/ Poll \/ Accept \/ Reject \/ InRange \/ Overflow \/ Grow
        \/ Shed \/ DtorSize \/ DtorSignal \/ DtorHang \/ DtorEos \/ DtorClear \/ DtorFree

WorkerStep(t) ==
  \/ Enter(t) \/ Loop(t) \/ FetchNone(t) \/ FetchEos(t) \/ Fetch(t) \/ Put(t) \/ Spin(t)
  \/ SelectError(t) \/ CloseAll(t) \/ Sweep(t) \/ SweepEnd(t) \/ Drain(t)
  \/ UseDeleted(t) \/ Post(t)

\* After a fault, or once main has returned, nothing runs.
MainRuns      == fault = "none" /\ (Main \/ (~alive /\ Leave))
WorkerRuns(t) == fault = "none" /\ mpc # "end" /\ WorkerStep(t)
Environment   == fault = "none" /\ (Leave \/ Interrupt \/ DtorTimeout \/ UseAfterDtor)
Over == \/ fault # "none"
        \/ mpc = "hang"
        \/ mpc = "end" /\ \A t \in Worker : tpc[t] = "none"

Next ==
  \/ MainRuns
  \/ \E t \in Worker : WorkerRuns(t)
  \/ Environment
  \/ Over /\ UNCHANGED vars

Spec == Init /\ [][Next]_vars

\* The scheduler runs every thread.  EINTR is a signal: select does not fail
\* for ever, so a worker that keeps selecting succeeds again and again.
Fairness ==
  /\ WF_vars(MainRuns)
  /\ \A t \in Worker : WF_vars(WorkerRuns(t)) /\ SF_vars(fault = "none" /\ Spin(t))

FairSpec == Spec /\ Fairness

-----------------------------------------------------------------------------
(* Properties.                                                             *)

\* Every variable has its type.
TypeOK ==
  /\ q \in Seq(Ctx \cup {Null}) /\ live \subseteq Ctx /\ open \subseteq live
  /\ mpc \in MainPoints /\ pctx \in Ctx \cup {Null}
  /\ made \in 0..MinThreads /\ nsig \in Nat
  /\ pool \in Seq(Worker) /\ nalive \in Int
  /\ tpc \in [Worker -> WorkerPoints]
  /\ dynamic \in [Worker -> BOOLEAN] /\ bstop \in [Worker -> BOOLEAN]
  /\ hand \in [Worker -> Ctx \cup {Null}]
  /\ bucket \in [Worker -> Seq(Ctx)]
  /\ idx \in [Worker -> Nat]
  /\ alive \in BOOLEAN /\ shed \in BOOLEAN
  /\ fault \in Faults

\* The places that hold a pointer to c and will use or delete it.
Holders(c) ==
  {<<"queue", i>> : i \in {j \in 1..Len(q) : q[j] = c}}
    \cup {<<"hand", t>> : t \in {u \in Worker : hand[u] = c}}
    \cup UNION {{<<t, k>> : k \in {j \in 1..Len(bucket[t]) : bucket[t][j] = c}} : t \in Worker}

\* Until a push is answered with -1, every context that exists is held in
\* exactly one place (queue, a worker's hand, a bucket) and nothing else is held
\* anywhere: none is served by two workers, none is lost between the queue and a
\* bucket, by a sweep, by _close_all or at shutdown (ctxqueue.cpp, ctxthread.cpp).
OwnedOnce ==
  ~shed => \A c \in Ctx :
    IF c \in live THEN \E p \in Holders(c) : Holders(c) = {p} ELSE Holders(c) = {}

\* A context is used or deleted after its deletion only in a run where a push
\* was answered with -1.
DeletedOnce == fault = "context" => shed

\* the workers that exist, and those of them that are past inc()
Existing == {t \in Worker : tpc[t] # "none"}
Counted  == {t \in Worker : tpc[t] \notin {"none", "start"}}

\* Until ~ThreadPool clears it, _pool lists exactly the workers that exist, once
\* each and never more than max_threads, and _alive counts those that are past
\* inc(), however starts, removals and growth interleave (threadpool.cpp).
PoolAccounting ==
  mpc \notin {"free", "end"} =>
    /\ Len(pool) <= MaxThreads
    /\ \A i, j \in 1..Len(pool) : pool[i] = pool[j] => i = j
    /\ Elems(pool) = Existing
    /\ nalive = Cardinality(Counted)

\* While the server is alive none of the workers of create() has ended: only
\* dynamic ones come and go (ctxthread.cpp, "if(!_dynamic) __alive = false").
StaticKept ==
  alive => Cardinality({t \in Worker : tpc[t] \notin {"none", "post"} /\ ~dynamic[t]}) = made

\* When main has gone through ~ThreadPool and ~CtxQueue, in time or not, and
\* nothing was shed, a context is left only with a worker that still runs, in its
\* hand or bucket; and none is left when all workers counted in are counted out.
NoneLeftAtEnd ==
  mpc = "end" /\ ~shed =>
    /\ live \subseteq UNION {Elems(bucket[t]) \cup {hand[t]} : t \in Existing}
    /\ nalive = 0 => live = {}

\* The worker that serves c: the one that has it in its hand or its bucket.
ServerOf(c) ==
  LET serving == {t \in Worker : hand[t] = c \/ c \in Elems(bucket[t])}
  IN IF serving = {} THEN Null ELSE CHOOSE t \in serving : TRUE

Service == INSTANCE ConnService WITH
  Conn <- Ctx, Server <- Worker, Nobody <- Null, waiting <- q,
  server <- [c \in Ctx |-> ServerOf(c)], stopped <- ~alive, broken <- shed

\* The engine implements the service: first come first served, each connection
\* by one worker, until a push is refused.
ImplementsService == Service!Spec

\* "too big. close incomming connections": the connection push refuses is
\* closed, so it is not queued for a worker any more.
RefusedNotQueued == \A i \in 1..Len(q) : q[i] # Null => q[i] \in live

\* A context whose sockets are closed does not stay in a bucket for ever, unless
\* the deletion of one hangs in the lock cycle of ~ThreadPool.
DeadDeleted ==
  \A c \in Ctx :
    (\E t \in Worker : c \in Elems(bucket[t])) /\ c \in live \ open
      ~> (c \notin live \/ mpc \in {"end", "hang"} \/ fault # "none")

\* Once __alive is false the workers delete what they hold and leave, and main
\* gets through ~ThreadPool without its timeout.  With the traffic log on there is
\* one way not to: a worker deletes a context just when main comes for its lock.
Stops == ~alive ~> (mpc = "end" \/ fault # "none" \/ (TrafficLog /\ mpc = "hang"))

\* With room in the buckets, a queued context is taken while the server lives.
QueueServed ==
  \A c \in Ctx : c \in Elems(q) ~> (c \notin Elems(q) \/ ~alive \/ fault # "none")

=============================================================================
