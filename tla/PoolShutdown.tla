---------------------------- MODULE PoolShutdown ----------------------------
(***************************************************************************)
(* The locks of buflea's thread pool while the server runs and while       *)
(* ~ThreadPool ends it: the pool's _m (taken by add_thread, inc,           *)
(* accumulate_log, remove_thread and ~ThreadPool), _hctxcount (taken by    *)
(* ~Ctx) and the _m of each worker (taken for its bucket, and by           *)
(* signal_to_stop).                                                        *)
(*                                                                         *)
(* CtxPool follows every context; here a worker only counts its contexts,  *)
(* and a step is what runs between two lock operations.  A lock taken and  *)
(* released with nothing locked in between is one step guarded by the      *)
(* lock being free.  The mutexes are recursive.  The queue is left out: a  *)
(* worker may find a context in it at any time, and the eos entry while    *)
(* ~ThreadPool pushes it.                                                  *)
(***************************************************************************)
EXTENDS Integers, FiniteSets

CONSTANTS
  Worker,   \* the workers there may be
  Dynamic,  \* those the listener adds on overflow; create() starts the others
  MaxHeld   \* contexts a worker serves at most (_max_clients)

ASSUME PoolShutdownAssumption ==
  /\ IsFiniteSet(Worker) /\ "main" \notin Worker /\ "free" \notin Worker
  /\ Dynamic \subseteq Worker
  /\ MaxHeld \in Nat \ {0}

VARIABLES
  blog,      \* Ctx::_blog # 0: contexts keep a traffic log (the configuration)
  mpc,       \* program point of the main thread
  nsig,      \* the size of _pool read by ~ThreadPool
  todo,      \* workers its loop has still to signal
  timedOut,  \* it has waited its 32 seconds (history)
  wpc,       \* program point of each worker
  why,       \* which of the three deletes a worker is in, or comes to next
  held,      \* number of contexts in each bucket
  bstop,     \* OsThread::_bstop of each worker
  pool,      \* ThreadPool::_pool
  nalive,    \* ThreadPool::_alive
  alive,     \* the global __alive
  poolLock,  \* owner of ThreadPool::_m
  ctxLock,   \* owner of ThreadPool::_hctxcount
  wlock      \* owner of each worker's _m

mainVars == <<mpc, nsig, todo, timedOut>>
lockVars == <<blog, poolLock, ctxLock, wlock>>
vars == <<mainVars, wpc, why, held, bstop, pool, nalive, alive, lockVars>>

Actor == Worker \cup {"main"}

MainPoints == {"listen", "grow", "shed", "shedLog", "size", "lock", "signal", "eos", "end", "fault"}
WorkerPoints == {"start", "preload", "loop", "fetch", "serve", "sweep", "lock", "delete", "log",
                 "exit", "post", "erase", "gone"}
\* the sweep (one context), _close_all and the clean-up after the loop (all)
Deletes == {"sweep", "close", "clean"}

\* create() has started its workers; each has said so and then comes to inc()
Init ==
  /\ mpc = "listen" /\ nsig = 0 /\ todo = {} /\ timedOut = FALSE
  /\ wpc = [t \in Worker |-> IF t \in Dynamic THEN "gone" ELSE "start"]
  /\ why = [t \in Worker |-> "sweep"]
  /\ held = [t \in Worker |-> 0]
  /\ bstop = [t \in Worker |-> FALSE]
  /\ pool = Worker \ Dynamic /\ nalive = 0
  /\ alive = TRUE
  /\ blog \in BOOLEAN /\ poolLock = "free" /\ ctxLock = "free"
  /\ wlock = [t \in Worker |-> "free"]

\* accumulate_log: takes the pool lock if the context has anything logged
CanLog(a) == poolLock \in {"free", a} \/ ~blog

-----------------------------------------------------------------------------
(* The main thread: the listener, then ~ThreadPool.                        *)

\* variant: the refused context is deleted under the pool's lock
ShedLock_UnderPool ==
  /\ \/ mpc = "listen" /\ alive /\ poolLock = "free"
        /\ mpc' = "shed" /\ poolLock' = "main" /\ UNCHANGED ctxLock
     \/ mpc = "shed" /\ ctxLock = "free"
        /\ ctxLock' = "main" /\ mpc' = "shedLog" /\ poolLock' = "free"
  /\ UNCHANGED <<nsig, todo, timedOut, wpc, why, held, bstop, pool, nalive, alive, blog, wlock>>

\* _put_inqueue deletes a refused context: ~Ctx locks _hctxcount ...
ShedLock ==
  /\ \/ mpc = "listen" /\ alive /\ mpc' = "shed" /\ UNCHANGED ctxLock
     \/ mpc = "shed" /\ ctxLock = "free" /\ ctxLock' = "main" /\ mpc' = "shedLog"
  /\ UNCHANGED <<nsig, todo, timedOut, wpc, why, held, bstop, pool, nalive, alive, blog, poolLock, wlock>>

\* variant: _hctxcount is not released
ShedLog_KeepsLock ==
  /\ mpc = "shedLog" /\ CanLog("main")
  /\ mpc' = "listen"
  /\ UNCHANGED <<nsig, todo, timedOut, wpc, why, held, bstop, pool, nalive, alive, lockVars>>

\* ... and, under it, clear() hands the log to the pool
ShedLog ==
  /\ mpc = "shedLog" /\ CanLog("main")
  /\ ctxLock' = "free" /\ mpc' = "listen"
  /\ UNCHANGED <<nsig, todo, timedOut, wpc, why, held, bstop, pool, nalive, alive, blog, poolLock, wlock>>

\* the queue has overflowed: _put_inqueue calls add_thread ...
Overflow ==
  /\ mpc = "listen" /\ alive /\ mpc' = "grow"
  /\ UNCHANGED <<nsig, todo, timedOut, wpc, why, held, bstop, pool, nalive, alive, lockVars>>

\* ... which under the pool's lock makes a dynamic worker and starts it, or finds
\* the pool full
Grow ==
  /\ mpc = "grow"
  /\ \/ /\ poolLock = "free"
        /\ \E t \in Dynamic :
             /\ wpc[t] = "gone"
             /\ wpc' = [wpc EXCEPT ![t] = "start"]
             /\ bstop' = [bstop EXCEPT ![t] = FALSE]
             /\ pool' = pool \cup {t}
     \/ pool = Worker /\ UNCHANGED <<wpc, bstop, pool>>
  /\ mpc' = "listen"
  /\ UNCHANGED <<nsig, todo, timedOut, why, held, nalive, alive, lockVars>>

\* the stop file, or __alive found false
Leave ==
  /\ mpc = "listen"
  /\ mpc' = "size" /\ alive' = FALSE
  /\ UNCHANGED <<nsig, todo, timedOut, wpc, why, held, bstop, pool, nalive, lockVars>>

\* size_t alive = _pool.size(), before the lock
DtorSize ==
  /\ mpc = "size"
  /\ nsig' = Cardinality(pool) /\ mpc' = "lock"
  /\ UNCHANGED <<todo, timedOut, wpc, why, held, bstop, pool, nalive, alive, lockVars>>

\* The vector has shrunk while main waited for the lock: its loop would read
\* past the end (a fault in CtxPool); this module stops there.
DtorLock ==
  /\ mpc = "lock" /\ poolLock = "free"
  /\ IF nsig > Cardinality(pool)
       THEN mpc' = "fault" /\ UNCHANGED <<todo, poolLock>>
       ELSE mpc' = "signal" /\ todo' = pool /\ poolLock' = "main"
  /\ UNCHANGED <<nsig, timedOut, wpc, why, held, bstop, pool, nalive, alive, blog, ctxLock, wlock>>

\* CtxesThread::signal_to_stop sets the flag first, then takes the worker's lock
DtorFlag ==
  /\ mpc = "signal"
  /\ \E t \in todo : ~bstop[t] /\ bstop' = [bstop EXCEPT ![t] = TRUE]
  /\ \A t \in todo : ~bstop[t]
  /\ UNCHANGED <<mainVars, wpc, why, held, pool, nalive, alive, lockVars>>

\* every context is cleared; its log needs the pool lock main already has
DtorClearCtxes ==
  /\ mpc = "signal"
  /\ \E t \in todo : bstop[t] /\ wlock[t] = "free" /\ todo' = todo \ {t}
  /\ UNCHANGED <<mpc, nsig, timedOut, wpc, why, held, bstop, pool, nalive, alive, lockVars>>

DtorUnlock ==
  /\ mpc = "signal" /\ todo = {}
  /\ poolLock' = "free" /\ mpc' = "eos"
  /\ UNCHANGED <<nsig, todo, timedOut, wpc, why, held, bstop, pool, nalive, alive, blog, ctxLock, wlock>>

\* variant: main does not wait for the workers
DtorDone_AtOnce ==
  /\ mpc = "eos" /\ mpc' = "end"
  /\ UNCHANGED <<nsig, todo, timedOut, wpc, why, held, bstop, pool, nalive, alive, lockVars>>

\* while(count() && _alive && time(0) < tout): count() reads without the lock
DtorDone ==
  /\ mpc = "eos" /\ nalive = 0
  /\ mpc' = "end"
  /\ UNCHANGED <<nsig, todo, timedOut, wpc, why, held, bstop, pool, nalive, alive, lockVars>>

DtorTimeout ==
  /\ mpc = "eos" /\ nalive # 0
  /\ mpc' = "end" /\ timedOut' = TRUE
  /\ UNCHANGED <<nsig, todo, wpc, why, held, bstop, pool, nalive, alive, lockVars>>

-----------------------------------------------------------------------------
(* A worker.                                                               *)

\* _pre_thread_foo: inc(), under the pool's lock
Enter(t) ==
  /\ wpc[t] = "start" /\ poolLock = "free"
  /\ nalive' = nalive + 1
  /\ wpc' = [wpc EXCEPT ![t] = IF t \in Dynamic THEN "preload" ELSE "loop"]
  /\ UNCHANGED <<mainVars, why, held, bstop, pool, alive, lockVars>>

\* _get_from_q finds a context and pushes it in the bucket under the worker's lock
Push(t) ==
  /\ wpc[t] \in {"preload", "fetch"}
  /\ held[t] < MaxHeld /\ wlock[t] = "free"
  /\ held' = [held EXCEPT ![t] = @ + 1]
  /\ wpc' = [wpc EXCEPT ![t] = IF @ = "preload" THEN @ ELSE "serve"]
  /\ UNCHANGED <<mainVars, why, bstop, pool, nalive, alive, lockVars>>

\* a load of eight, or an empty queue, or the eos entry
PreloadEnd(t) ==
  /\ wpc[t] = "preload"
  /\ wpc' = [wpc EXCEPT ![t] = "loop"]
  /\ UNCHANGED <<mainVars, why, held, bstop, pool, nalive, alive, lockVars>>

\* while(!_bstop && __alive)
Loop(t) ==
  /\ wpc[t] = "loop" /\ ~bstop[t] /\ alive
  /\ wpc' = [wpc EXCEPT ![t] = "fetch"]
  /\ UNCHANGED <<mainVars, why, held, bstop, pool, nalive, alive, lockVars>>

\* _get_from_q finds nothing, or the bucket is full
Fetch(t) ==
  /\ wpc[t] = "fetch"
  /\ wpc' = [wpc EXCEPT ![t] = IF held[t] = 0 THEN "loop" ELSE "serve"]
  /\ UNCHANGED <<mainVars, why, held, bstop, pool, nalive, alive, lockVars>>

\* select: answered, or interrupted, or the descriptors are bad (_close_all)
Select(t) ==
  /\ wpc[t] = "serve"
  /\ \/ \E p \in {"sweep", "loop"} : wpc' = [wpc EXCEPT ![t] = p] /\ UNCHANGED why
     \/ wpc' = [wpc EXCEPT ![t] = "lock"] /\ why' = [why EXCEPT ![t] = "close"]
  /\ UNCHANGED <<mainVars, held, bstop, pool, nalive, alive, lockVars>>

\* the sweep has found a dead context
FindDead(t) ==
  /\ wpc[t] = "sweep" /\ held[t] > 0
  /\ wpc' = [wpc EXCEPT ![t] = "lock"]
  /\ UNCHANGED <<mainVars, why, held, bstop, pool, nalive, alive, lockVars>>

SweepEnd(t) ==
  /\ wpc[t] = "sweep"
  /\ wpc' = [wpc EXCEPT ![t] = "loop"]
  /\ UNCHANGED <<mainVars, why, held, bstop, pool, nalive, alive, lockVars>>

\* Where the loop is left: its condition, the eos entry, a dynamic worker that
\* has been idle for time_out, a select error that is neither of Select's.
LeavesLoop(t) ==
  \/ wpc[t] = "loop" /\ (bstop[t] \/ ~alive)
  \/ wpc[t] = "fetch" /\ mpc = "eos" /\ held[t] < MaxHeld
  \/ wpc[t] = "fetch" /\ t \in Dynamic /\ held[t] = 0
  \/ wpc[t] = "serve"

\* variant: the clean-up runs also for an empty bucket
LeaveLoop_AlwaysDrains(t) ==
  /\ LeavesLoop(t)
  /\ wpc' = [wpc EXCEPT ![t] = "lock"] /\ why' = [why EXCEPT ![t] = "clean"]
  /\ UNCHANGED <<mainVars, held, bstop, pool, nalive, alive, lockVars>>

\* with contexts left the clean-up locks the bucket
LeaveLoop(t) ==
  /\ LeavesLoop(t)
  /\ IF held[t] > 0
       THEN wpc' = [wpc EXCEPT ![t] = "lock"] /\ why' = [why EXCEPT ![t] = "clean"]
       ELSE wpc' = [wpc EXCEPT ![t] = "exit"] /\ UNCHANGED why
  /\ UNCHANGED <<mainVars, held, bstop, pool, nalive, alive, lockVars>>

LockBucket(t) ==
  /\ wpc[t] = "lock" /\ wlock[t] = "free"
  /\ wlock' = [wlock EXCEPT ![t] = t]
  /\ wpc' = [wpc EXCEPT ![t] = "delete"]
  /\ UNCHANGED <<mainVars, why, held, bstop, pool, nalive, alive, blog, poolLock, ctxLock>>

\* ~Ctx locks _hctxcount
LockCount(t) ==
  /\ wpc[t] = "delete" /\ ctxLock = "free"
  /\ ctxLock' = t
  /\ wpc' = [wpc EXCEPT ![t] = "log"]
  /\ UNCHANGED <<mainVars, why, held, bstop, pool, nalive, alive, blog, poolLock, wlock>>

\* where a worker goes on after its deletes
AfterDelete(w) == IF w = "sweep" THEN "sweep" ELSE IF w = "close" THEN "loop" ELSE "exit"

\* clear() logs, ~Ctx unlocks; the sweep unlocks the bucket after one delete,
\* _close_all and the clean-up after the last
Delete(t) ==
  /\ wpc[t] = "log" /\ CanLog(t)
  /\ held' = [held EXCEPT ![t] = @ - 1]
  /\ ctxLock' = "free"
  /\ IF why[t] # "sweep" /\ held[t] > 1
       THEN wpc' = [wpc EXCEPT ![t] = "delete"] /\ UNCHANGED <<why, wlock>>
       ELSE /\ wpc' = [wpc EXCEPT ![t] = AfterDelete(why[t])]
            /\ why' = [why EXCEPT ![t] = "sweep"]
            /\ wlock' = [wlock EXCEPT ![t] = "free"]
  /\ UNCHANGED <<mainVars, bstop, pool, nalive, alive, blog, poolLock>>

\* the end of a static worker ends the server
Exit(t) ==
  /\ wpc[t] = "exit"
  /\ alive' = (alive /\ t \in Dynamic)
  /\ wpc' = [wpc EXCEPT ![t] = "post"]
  /\ UNCHANGED <<mainVars, why, held, bstop, pool, nalive, lockVars>>

\* variant: the worker leaves without dec()
Dec_NotCounted(t) ==
  /\ wpc[t] = "post" /\ poolLock = "free"
  /\ poolLock' = t /\ wpc' = [wpc EXCEPT ![t] = "erase"]
  /\ UNCHANGED <<mainVars, why, held, bstop, pool, nalive, alive, blog, ctxLock, wlock>>

\* remove_thread: lock and dec() ...
Dec(t) ==
  /\ wpc[t] = "post" /\ poolLock = "free"
  /\ poolLock' = t /\ nalive' = nalive - 1
  /\ wpc' = [wpc EXCEPT ![t] = "erase"]
  /\ UNCHANGED <<mainVars, why, held, bstop, pool, alive, blog, ctxLock, wlock>>

\* ... delete, erase and unlock
Erase(t) ==
  /\ wpc[t] = "erase"
  /\ pool' = pool \ {t} /\ poolLock' = "free"
  /\ wpc' = [wpc EXCEPT ![t] = "gone"]
  /\ UNCHANGED <<mainVars, why, held, bstop, nalive, alive, blog, ctxLock, wlock>>

-----------------------------------------------------------------------------

Main == \/ ShedLock \/ ShedLog \/ Overflow \/ Grow \/ DtorSize \/ DtorLock \/ DtorFlag
        \/ DtorClearCtxes \/ DtorUnlock \/ DtorDone

WorkerStep(t) ==
  \/ Enter(t) \/ Push(t) \/ PreloadEnd(t) \/ Loop(t) \/ Fetch(t) \/ Select(t) \/ FindDead(t)
  \/ SweepEnd(t) \/ LeaveLoop(t) \/ LockBucket(t) \/ LockCount(t) \/ Delete(t) \/ Exit(t)
  \/ Dec(t) \/ Erase(t)

Ended == mpc \in {"end", "fault"}

\* After ~ThreadPool there is no pool to run in (a worker that still does is the
\* fault of CtxPool's UseAfterDtor).
Next ==
  \/ Main
  \/ ~Ended /\ \E t \in Worker : WorkerStep(t)
  \/ Leave
  \/ DtorTimeout
  \/ Ended /\ UNCHANGED vars

Spec == Init /\ [][Next]_vars

\* Every thread is scheduled, and once __alive is false main leaves its loop.
\* Nothing is assumed of the timeout.
FairSpec ==
  /\ Spec
  /\ WF_vars(Main) /\ WF_vars(~alive /\ Leave)
  /\ \A t \in Worker : WF_vars(~Ended /\ WorkerStep(t))

-----------------------------------------------------------------------------
(* Properties.                                                             *)

\* Every variable has its type.
TypeOK ==
  /\ blog \in BOOLEAN
  /\ mpc \in MainPoints /\ nsig \in Nat /\ todo \subseteq Worker
  /\ timedOut \in BOOLEAN
  /\ wpc \in [Worker -> WorkerPoints] /\ why \in [Worker -> Deletes]
  /\ held \in [Worker -> 0..MaxHeld]
  /\ bstop \in [Worker -> BOOLEAN]
  /\ pool \subseteq Worker /\ nalive \in Int /\ alive \in BOOLEAN
  /\ poolLock \in Actor \cup {"free"} /\ ctxLock \in Actor \cup {"free"}
  /\ wlock \in [Worker -> Worker \cup {"free"}]

\* Actor a cannot go on before actor b releases a lock.
WaitsFor(a, b) ==
  /\ a # b
  /\ \/ a = "main" /\ mpc = "shed" /\ ctxLock = b
     \/ a = "main" /\ mpc = "shedLog" /\ ~CanLog(a) /\ poolLock = b
     \/ a = "main" /\ mpc \in {"grow", "lock"} /\ poolLock = b
     \/ a = "main" /\ mpc = "signal" /\ \E t \in todo : bstop[t] /\ wlock[t] = b
     \/ a \in Worker /\ wpc[a] = "delete" /\ ctxLock = b
     \/ a \in Worker /\ wpc[a] = "log" /\ ~CanLog(a) /\ poolLock = b
     \/ a \in Worker /\ wpc[a] \in {"start", "post"} /\ poolLock = b

Deadlocked == \E S \in (SUBSET Actor) \ {{}} : \A a \in S : \E b \in S : WaitsFor(a, b)

\* Without the traffic log no set of threads wait for each other's locks.
NoLockCycle == ~blog => ~Deadlocked

\* With the traffic log on, the only lock cycle there can be is the one that
\* closes in the signal loop of ~ThreadPool: serving, shedding, growth, the
\* removal of workers and the final wait take the locks in one order.
CycleOnlyInSignalLoop == Deadlocked => mpc = "signal"

\* When ~ThreadPool ends in time, a worker that has come to inc() has deleted all
\* its contexts and has at most the rest of remove_thread to do.  count() does not
\* see a worker that has not come to inc(): that one is still before its first
\* context, and comes to a pool that is gone.
DoneMeansDrained ==
  mpc = "end" /\ ~timedOut =>
    \A t \in Worker : wpc[t] \in {"start", "erase", "gone"} /\ held[t] = 0

\* Without the traffic log main gets through ~ThreadPool once it has left the
\* listener, without its timeout.
StopsWithoutLog == ~blog /\ mpc = "size" ~> Ended

\* "/tmp/buflea.stop (stops server)": once the listener has left, main gets
\* through ~ThreadPool.
ServerStops == mpc = "size" ~> Ended
=============================================================================
