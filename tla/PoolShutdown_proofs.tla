------------------------ MODULE PoolShutdown_proofs ------------------------
(***************************************************************************)
(* Theorems about PoolShutdown, for every number of workers and contexts:  *)
(* who holds which lock follows from the program points, so a cycle of     *)
(* waiting threads can be excluded point by point.                         *)
(***************************************************************************)
EXTENDS PoolShutdown, TLAPS, FiniteSetTheorems

\* A worker's lock is its own, from LockBucket to the last Delete.
BucketLocks ==
  \A t \in Worker :
    wlock[t] = IF wpc[t] \in {"delete", "log"} THEN t ELSE "free"

\* _hctxcount is held between the lock of ~Ctx and the end of its clear().
CountLock ==
  /\ ctxLock = "main" <=> mpc = "shedLog"
  /\ \A t \in Worker : ctxLock = t <=> wpc[t] = "log"

\* From one step to the next the pool's lock is held in the signal loop and in
\* remove_thread.
PoolLock ==
  /\ poolLock = "main" <=> mpc = "signal"
  /\ \A t \in Worker : poolLock = t <=> wpc[t] = "erase"

Locks == BucketLocks /\ CountLock /\ PoolLock

\* What main counts in _alive: the workers past inc() that have not come to dec().
Counting == {t \in Worker : wpc[t] \notin {"start", "erase", "gone"}}

\* A worker deletes a context only if it has one, and comes and leaves with none;
\* what count() answers is the number of those that have come and not left.
Drained ==
  /\ \A t \in Worker :
       /\ wpc[t] \in {"serve", "lock", "delete", "log"} => held[t] > 0
       /\ wpc[t] \in {"start", "exit", "post", "erase", "gone"} => held[t] = 0
  /\ nalive = Cardinality(Counting)
  /\ mpc = "end" /\ ~timedOut => nalive = 0

ShutdownInv == TypeOK /\ Locks /\ Drained

-----------------------------------------------------------------------------
\* No worker leaves the count without dec(), and dec() takes one from it.
LEMMA CountingStep ==
  ASSUME NEW t \in Worker, TypeOK, Drained, wpc[t] = "post",
         wpc' = [wpc EXCEPT ![t] = "erase"], nalive' = nalive - 1
  PROVE  nalive' = Cardinality(Counting') /\ nalive # 0
<1>1. Counting' = Counting \ {t} /\ t \in Counting
  BY DEF TypeOK, Counting
<1>2. IsFiniteSet(Counting)
  BY PoolShutdownAssumption, FS_Subset DEF Counting
<1>3. Cardinality(Counting') = Cardinality(Counting) - 1
  BY <1>1, <1>2, FS_RemoveElement
<1>4. Cardinality(Counting) \in Nat /\ Cardinality(Counting) # 0
  BY <1>1, <1>2, FS_CardinalityType, FS_EmptySet
<1> QED
  BY <1>3, <1>4 DEF Drained

\* Every worker comes into the count by inc(), which adds one to it.
LEMMA EnteringStep ==
  ASSUME NEW t \in Worker, TypeOK, Drained, NEW p \in {"preload", "loop"}, wpc[t] = "start",
         wpc' = [wpc EXCEPT ![t] = p], nalive' = nalive + 1
  PROVE  nalive' = Cardinality(Counting') /\ nalive' \in Int /\ nalive' # 0
<1>1. Counting' = Counting \cup {t} /\ t \notin Counting
  BY DEF TypeOK, Counting
<1>2. IsFiniteSet(Counting)
  BY PoolShutdownAssumption, FS_Subset DEF Counting
<1>3. Cardinality(Counting') = Cardinality(Counting) + 1 /\ Cardinality(Counting) \in Nat
  BY <1>1, <1>2, FS_AddElement, FS_CardinalityType
<1> QED
  BY <1>3 DEF Drained

\* Types, locks and counts agree in every step of main and of the workers.
THEOREM ShutdownInvariant == Spec => []ShutdownInv
<1> USE PoolShutdownAssumption DEF Actor, MainPoints, WorkerPoints, Deletes
<1>1. Init => ShutdownInv
  <2> SUFFICES ASSUME Init PROVE ShutdownInv
    OBVIOUS
  <2>1. TypeOK
    <3>1. held \in [Worker -> 0..MaxHeld] /\ nsig \in Nat /\ nalive \in Int
      BY DEF Init
    <3>2. wpc \in [Worker -> WorkerPoints] /\ bstop \in [Worker -> BOOLEAN]
          /\ wlock \in [Worker -> Worker \cup {"free"}] /\ why \in [Worker -> Deletes]
      BY DEF Init
    <3> QED
      BY <3>1, <3>2 DEF Init, TypeOK
  <2>2. Locks
    BY DEF Init, Locks, BucketLocks, CountLock, PoolLock
  <2>3. Counting = {}
    BY DEF Init, Counting
  <2>4. Drained
    BY <2>3, FS_EmptySet DEF Init, Drained
  <2> QED
    BY <2>1, <2>2, <2>4 DEF ShutdownInv
<1>2. ShutdownInv /\ [Next]_vars => ShutdownInv'
  <2> SUFFICES ASSUME ShutdownInv, [Next]_vars PROVE ShutdownInv'
    OBVIOUS
  <2> USE DEF mainVars, lockVars, CanLog
  <2>a. TypeOK /\ Locks /\ Drained
    BY DEF ShutdownInv
  <2>b. ASSUME wpc' = wpc PROVE Counting' = Counting
    BY <2>b DEF Counting
  <2>1. CASE ShedLock
    <3>1. TypeOK'
      BY <2>1, <2>a DEF ShedLock, TypeOK
    <3>2. Locks'
      BY <2>1, <2>a DEF ShedLock, TypeOK, Locks, BucketLocks, CountLock, PoolLock
    <3>3. Drained'
      BY <2>1, <2>a, <2>b DEF ShedLock, Drained
    <3> QED
      BY <3>1, <3>2, <3>3 DEF ShutdownInv
  <2>2. CASE ShedLog
    <3>1. TypeOK'
      BY <2>2, <2>a DEF ShedLog, TypeOK
    <3>2. Locks'
      BY <2>2, <2>a DEF ShedLog, TypeOK, Locks, BucketLocks, CountLock, PoolLock
    <3>3. Drained'
      BY <2>2, <2>a, <2>b DEF ShedLog, Drained
    <3> QED
      BY <3>1, <3>2, <3>3 DEF ShutdownInv
  <2>3. CASE DtorSize
    <3>0. Cardinality(pool) \in Nat
      BY <2>a, FS_Subset, FS_CardinalityType DEF TypeOK
    <3>1. TypeOK'
      BY <2>3, <2>a, <3>0 DEF DtorSize, TypeOK
    <3>2. Locks'
      BY <2>3, <2>a DEF DtorSize, TypeOK, Locks, BucketLocks, CountLock, PoolLock
    <3>3. Drained'
      BY <2>3, <2>a, <2>b DEF DtorSize, Drained
    <3> QED
      BY <3>1, <3>2, <3>3 DEF ShutdownInv
  <2>4. CASE DtorLock
    <3>1. TypeOK'
      BY <2>4, <2>a DEF DtorLock, TypeOK
    <3>2. Locks'
      BY <2>4, <2>a DEF DtorLock, TypeOK, Locks, BucketLocks, CountLock, PoolLock
    <3>3. Drained'
      BY <2>4, <2>a, <2>b DEF DtorLock, Drained
    <3> QED
      BY <3>1, <3>2, <3>3 DEF ShutdownInv
  <2>5. CASE DtorFlag
    <3>1. TypeOK'
      BY <2>5, <2>a DEF DtorFlag, TypeOK
    <3>2. Locks'
      BY <2>5, <2>a DEF DtorFlag, TypeOK, Locks, BucketLocks, CountLock, PoolLock
    <3>3. Drained'
      BY <2>5, <2>a, <2>b DEF DtorFlag, Drained
    <3> QED
      BY <3>1, <3>2, <3>3 DEF ShutdownInv
  <2>6. CASE DtorClearCtxes
    <3>1. TypeOK'
      BY <2>6, <2>a DEF DtorClearCtxes, TypeOK
    <3>2. Locks'
      BY <2>6, <2>a DEF DtorClearCtxes, TypeOK, Locks, BucketLocks, CountLock, PoolLock
    <3>3. Drained'
      BY <2>6, <2>a, <2>b DEF DtorClearCtxes, Drained
    <3> QED
      BY <3>1, <3>2, <3>3 DEF ShutdownInv
  <2>7. CASE DtorUnlock
    <3>1. TypeOK'
      BY <2>7, <2>a DEF DtorUnlock, TypeOK
    <3>2. Locks'
      BY <2>7, <2>a DEF DtorUnlock, TypeOK, Locks, BucketLocks, CountLock, PoolLock
    <3>3. Drained'
      BY <2>7, <2>a, <2>b DEF DtorUnlock, Drained
    <3> QED
      BY <3>1, <3>2, <3>3 DEF ShutdownInv
  <2>8. CASE DtorDone
    <3>1. TypeOK'
      BY <2>8, <2>a DEF DtorDone, TypeOK
    <3>2. Locks'
      BY <2>8, <2>a DEF DtorDone, TypeOK, Locks, BucketLocks, CountLock, PoolLock
    <3>3. Drained'
      BY <2>8, <2>a, <2>b DEF DtorDone, Drained
    <3> QED
      BY <3>1, <3>2, <3>3 DEF ShutdownInv
  <2>9. CASE Leave
    <3>1. TypeOK'
      BY <2>9, <2>a DEF Leave, TypeOK
    <3>2. Locks'
      BY <2>9, <2>a DEF Leave, TypeOK, Locks, BucketLocks, CountLock, PoolLock
    <3>3. Drained'
      BY <2>9, <2>a, <2>b DEF Leave, Drained
    <3> QED
      BY <3>1, <3>2, <3>3 DEF ShutdownInv
  <2>10. CASE DtorTimeout
    <3>1. TypeOK'
      BY <2>10, <2>a DEF DtorTimeout, TypeOK
    <3>2. Locks'
      BY <2>10, <2>a DEF DtorTimeout, TypeOK, Locks, BucketLocks, CountLock, PoolLock
    <3>3. Drained'
      BY <2>10, <2>a, <2>b DEF DtorTimeout, Drained
    <3> QED
      BY <3>1, <3>2, <3>3 DEF ShutdownInv
  <2>11. CASE Overflow
    <3>1. TypeOK'
      BY <2>11, <2>a DEF Overflow, TypeOK
    <3>2. Locks'
      BY <2>11, <2>a DEF Overflow, TypeOK, Locks, BucketLocks, CountLock, PoolLock
    <3>3. Drained'
      BY <2>11, <2>a, <2>b DEF Overflow, Drained
    <3> QED
      BY <3>1, <3>2, <3>3 DEF ShutdownInv
  <2>12. CASE Grow
    <3>1. CASE UNCHANGED <<wpc, bstop, pool>>
      <4>1. TypeOK' /\ Locks'
        BY <2>12, <3>1, <2>a DEF Grow, TypeOK, Locks, BucketLocks, CountLock, PoolLock
      <4>2. Drained'
        BY <2>12, <3>1, <2>a, <2>b DEF Grow, Drained
      <4> QED
        BY <4>1, <4>2 DEF ShutdownInv
    <3>2. ASSUME NEW t \in Dynamic, wpc[t] = "gone", wpc' = [wpc EXCEPT ![t] = "start"],
                 bstop' = [bstop EXCEPT ![t] = FALSE], pool' = pool \cup {t}
          PROVE  ShutdownInv'
      <4>0. t \in Worker
        OBVIOUS
      <4>1. TypeOK'
        BY <2>12, <3>2, <4>0, <2>a DEF Grow, TypeOK
      <4>2. Locks'
        BY <2>12, <3>2, <4>0, <2>a DEF Grow, TypeOK, Locks, BucketLocks, CountLock, PoolLock
      <4>3. Counting' = Counting
        BY <3>2, <4>0, <2>a DEF TypeOK, Counting
      <4>4. Drained'
        BY <2>12, <3>2, <4>0, <4>3, <2>a DEF Grow, TypeOK, Drained
      <4> QED
        BY <4>1, <4>2, <4>4 DEF ShutdownInv
    <3> QED
      BY <2>12, <3>1, <3>2 DEF Grow
  <2>13. ASSUME NEW t \in Worker, ~Ended, Enter(t) PROVE ShutdownInv'
    <3>1. TypeOK'
      BY <2>13, <2>a DEF Enter, TypeOK
    <3>2. Locks'
      BY <2>13, <2>a DEF Enter, TypeOK, Locks, BucketLocks, CountLock, PoolLock
    <3>3. PICK p \in {"preload", "loop"} : wpc' = [wpc EXCEPT ![t] = p]
      BY <2>13 DEF Enter
    <3>4. nalive' = Cardinality(Counting')
      BY <2>13, <2>a, <3>3, EnteringStep DEF Enter
    <3>5. Drained'
      BY <2>13, <2>a, <3>3, <3>4 DEF Enter, TypeOK, Drained, Ended
    <3> QED
      BY <3>1, <3>2, <3>5 DEF ShutdownInv
  <2>14. ASSUME NEW t \in Worker, ~Ended, Push(t) PROVE ShutdownInv'
    <3>1. TypeOK'
      BY <2>14, <2>a DEF Push, TypeOK
    <3>2. Locks'
      BY <2>14, <2>a DEF Push, TypeOK, Locks, BucketLocks, CountLock, PoolLock
    <3>3. Counting' = Counting
      BY <2>14, <2>a DEF Push, TypeOK, Counting
    <3>4. Drained'
      BY <2>14, <2>a, <3>3 DEF Push, TypeOK, Drained
    <3> QED
      BY <3>1, <3>2, <3>4 DEF ShutdownInv
  <2>15. ASSUME NEW t \in Worker, ~Ended, PreloadEnd(t) PROVE ShutdownInv'
    <3>1. TypeOK'
      BY <2>15, <2>a DEF PreloadEnd, TypeOK
    <3>2. Locks'
      BY <2>15, <2>a DEF PreloadEnd, TypeOK, Locks, BucketLocks, CountLock, PoolLock
    <3>3. Counting' = Counting
      BY <2>15, <2>a DEF PreloadEnd, TypeOK, Counting
    <3>4. Drained'
      BY <2>15, <2>a, <3>3 DEF PreloadEnd, TypeOK, Drained
    <3> QED
      BY <3>1, <3>2, <3>4 DEF ShutdownInv
  <2>16. ASSUME NEW t \in Worker, ~Ended, Loop(t) PROVE ShutdownInv'
    <3>1. TypeOK'
      BY <2>16, <2>a DEF Loop, TypeOK
    <3>2. Locks'
      BY <2>16, <2>a DEF Loop, TypeOK, Locks, BucketLocks, CountLock, PoolLock
    <3>3. Counting' = Counting
      BY <2>16, <2>a DEF Loop, TypeOK, Counting
    <3>4. Drained'
      BY <2>16, <2>a, <3>3 DEF Loop, TypeOK, Drained
    <3> QED
      BY <3>1, <3>2, <3>4 DEF ShutdownInv
  <2>17. ASSUME NEW t \in Worker, ~Ended, Fetch(t) PROVE ShutdownInv'
    <3>1. TypeOK'
      BY <2>17, <2>a DEF Fetch, TypeOK
    <3>2. Locks'
      BY <2>17, <2>a DEF Fetch, TypeOK, Locks, BucketLocks, CountLock, PoolLock
    <3>3. Counting' = Counting
      BY <2>17, <2>a DEF Fetch, TypeOK, Counting
    <3>4. Drained'
      BY <2>17, <2>a, <3>3 DEF Fetch, TypeOK, Drained
    <3> QED
      BY <3>1, <3>2, <3>4 DEF ShutdownInv
  <2>18. ASSUME NEW t \in Worker, ~Ended, Select(t) PROVE ShutdownInv'
    <3>1. TypeOK'
      BY <2>18, <2>a DEF Select, TypeOK
    <3>2. Locks'
      BY <2>18, <2>a DEF Select, TypeOK, Locks, BucketLocks, CountLock, PoolLock
    <3>3. Counting' = Counting
      BY <2>18, <2>a DEF Select, TypeOK, Counting
    <3>4. Drained'
      BY <2>18, <2>a, <3>3 DEF Select, TypeOK, Drained
    <3> QED
      BY <3>1, <3>2, <3>4 DEF ShutdownInv
  <2>19. ASSUME NEW t \in Worker, ~Ended, FindDead(t) PROVE ShutdownInv'
    <3>1. TypeOK'
      BY <2>19, <2>a DEF FindDead, TypeOK
    <3>2. Locks'
      BY <2>19, <2>a DEF FindDead, TypeOK, Locks, BucketLocks, CountLock, PoolLock
    <3>3. Counting' = Counting
      BY <2>19, <2>a DEF FindDead, TypeOK, Counting
    <3>4. Drained'
      BY <2>19, <2>a, <3>3 DEF FindDead, TypeOK, Drained
    <3> QED
      BY <3>1, <3>2, <3>4 DEF ShutdownInv
  <2>20. ASSUME NEW t \in Worker, ~Ended, SweepEnd(t) PROVE ShutdownInv'
    <3>1. TypeOK'
      BY <2>20, <2>a DEF SweepEnd, TypeOK
    <3>2. Locks'
      BY <2>20, <2>a DEF SweepEnd, TypeOK, Locks, BucketLocks, CountLock, PoolLock
    <3>3. Counting' = Counting
      BY <2>20, <2>a DEF SweepEnd, TypeOK, Counting
    <3>4. Drained'
      BY <2>20, <2>a, <3>3 DEF SweepEnd, TypeOK, Drained
    <3> QED
      BY <3>1, <3>2, <3>4 DEF ShutdownInv
  <2>21. ASSUME NEW t \in Worker, ~Ended, LeaveLoop(t) PROVE ShutdownInv'
    <3>1. TypeOK'
      BY <2>21, <2>a DEF LeaveLoop, LeavesLoop, TypeOK
    <3>2. Locks'
      BY <2>21, <2>a DEF LeaveLoop, LeavesLoop, TypeOK, Locks, BucketLocks, CountLock, PoolLock
    <3>3. Counting' = Counting
      BY <2>21, <2>a DEF LeaveLoop, LeavesLoop, TypeOK, Counting
    <3>4. Drained'
      BY <2>21, <2>a, <3>3 DEF LeaveLoop, LeavesLoop, TypeOK, Drained
    <3> QED
      BY <3>1, <3>2, <3>4 DEF ShutdownInv
  <2>22. ASSUME NEW t \in Worker, ~Ended, LockBucket(t) PROVE ShutdownInv'
    <3>1. TypeOK'
      BY <2>22, <2>a DEF LockBucket, TypeOK
    <3>2. Locks'
      BY <2>22, <2>a DEF LockBucket, TypeOK, Locks, BucketLocks, CountLock, PoolLock
    <3>3. Counting' = Counting
      BY <2>22, <2>a DEF LockBucket, TypeOK, Counting
    <3>4. Drained'
      BY <2>22, <2>a, <3>3 DEF LockBucket, TypeOK, Drained
    <3> QED
      BY <3>1, <3>2, <3>4 DEF ShutdownInv
  <2>23. ASSUME NEW t \in Worker, ~Ended, LockCount(t) PROVE ShutdownInv'
    <3>1. TypeOK'
      BY <2>23, <2>a DEF LockCount, TypeOK
    <3>2. Locks'
      BY <2>23, <2>a DEF LockCount, TypeOK, Locks, BucketLocks, CountLock, PoolLock
    <3>3. Counting' = Counting
      BY <2>23, <2>a DEF LockCount, TypeOK, Counting
    <3>4. Drained'
      BY <2>23, <2>a, <3>3 DEF LockCount, TypeOK, Drained
    <3> QED
      BY <3>1, <3>2, <3>4 DEF ShutdownInv
  <2>24. ASSUME NEW t \in Worker, ~Ended, Delete(t) PROVE ShutdownInv'
    <3>1. TypeOK'
      BY <2>24, <2>a DEF Delete, AfterDelete, TypeOK, Drained
    <3>2. Locks'
      BY <2>24, <2>a DEF Delete, AfterDelete, TypeOK, Locks, BucketLocks, CountLock, PoolLock
    <3>3. Counting' = Counting
      BY <2>24, <2>a DEF Delete, AfterDelete, TypeOK, Counting
    <3>4. Drained'
      BY <2>24, <2>a, <3>3 DEF Delete, AfterDelete, TypeOK, Drained
    <3> QED
      BY <3>1, <3>2, <3>4 DEF ShutdownInv
  <2>25. ASSUME NEW t \in Worker, ~Ended, Exit(t) PROVE ShutdownInv'
    <3>1. TypeOK'
      BY <2>25, <2>a DEF Exit, TypeOK
    <3>2. Locks'
      BY <2>25, <2>a DEF Exit, TypeOK, Locks, BucketLocks, CountLock, PoolLock
    <3>3. Counting' = Counting
      BY <2>25, <2>a DEF Exit, TypeOK, Counting
    <3>4. Drained'
      BY <2>25, <2>a, <3>3 DEF Exit, TypeOK, Drained
    <3> QED
      BY <3>1, <3>2, <3>4 DEF ShutdownInv
  <2>26. ASSUME NEW t \in Worker, ~Ended, Dec(t) PROVE ShutdownInv'
    <3>1. TypeOK'
      BY <2>26, <2>a DEF Dec, TypeOK
    <3>2. Locks'
      BY <2>26, <2>a DEF Dec, TypeOK, Locks, BucketLocks, CountLock, PoolLock
    <3>3. nalive' = Cardinality(Counting') /\ nalive # 0
      BY <2>26, <2>a, CountingStep DEF Dec
    <3>4. Drained'
      BY <2>26, <2>a, <3>3 DEF Dec, TypeOK, Drained
    <3> QED
      BY <3>1, <3>2, <3>4 DEF ShutdownInv
  <2>27. ASSUME NEW t \in Worker, ~Ended, Erase(t) PROVE ShutdownInv'
    <3>1. TypeOK'
      BY <2>27, <2>a DEF Erase, TypeOK
    <3>2. Locks'
      BY <2>27, <2>a DEF Erase, TypeOK, Locks, BucketLocks, CountLock, PoolLock
    <3>3. Counting' = Counting
      BY <2>27, <2>a DEF Erase, TypeOK, Counting
    <3>4. Drained'
      BY <2>27, <2>a, <3>3 DEF Erase, TypeOK, Drained
    <3> QED
      BY <3>1, <3>2, <3>4 DEF ShutdownInv
  <2>28. CASE UNCHANGED vars
    BY <2>28, <2>a, <2>b DEF vars, ShutdownInv, TypeOK, Locks, BucketLocks, CountLock, PoolLock, Drained
  <2> QED
    BY <2>1, <2>2, <2>3, <2>4, <2>5, <2>6, <2>7, <2>8, <2>9, <2>10, <2>11, <2>12, <2>13, <2>14, <2>15, <2>16, <2>17, <2>18, <2>19, <2>20, <2>21, <2>22, <2>23, <2>24, <2>25, <2>26, <2>27, <2>28 DEF Next, Main, WorkerStep
<1> QED
  BY <1>1, <1>2, PTL DEF Spec

\* Every variable has its type in every reachable state; in particular no bucket
\* is counted below zero.
THEOREM TypeCorrect == Spec => []TypeOK
<1>1. ShutdownInv => TypeOK
  BY DEF ShutdownInv
<1> QED
  BY <1>1, ShutdownInvariant, PTL

\* When ~ThreadPool ends in time every worker that has come to inc() has deleted its
\* contexts and is at most in the rest of remove_thread, however many were added
\* and removed before; the only other one is a worker count() has not seen yet.
THEOREM DrainedAtEnd == Spec => []DoneMeansDrained
<1>1. ShutdownInv => DoneMeansDrained
  <2> SUFFICES ASSUME ShutdownInv, mpc = "end", ~timedOut, NEW t \in Worker
               PROVE  wpc[t] \in {"start", "erase", "gone"} /\ held[t] = 0
    BY DEF DoneMeansDrained
  <2>1. Cardinality(Counting) = 0
    BY DEF ShutdownInv, Drained
  <2>2. IsFiniteSet(Counting)
    BY PoolShutdownAssumption, FS_Subset DEF Counting
  <2>3. Counting = {}
    BY <2>1, <2>2, FS_EmptySet
  <2> QED
    BY <2>3 DEF ShutdownInv, Drained, Counting
<1> QED
  BY <1>1, ShutdownInvariant, PTL

-----------------------------------------------------------------------------
(* Cycles of waiting threads.                                              *)

\* Program points that hold the count's lock, the pool's, and a bucket's while
\* they wait for the count's; and those that wait for the pool's.
Logs(a)   == (a = "main" /\ mpc = "shedLog") \/ (a \in Worker /\ wpc[a] = "log")
Owns(a)   == (a = "main" /\ mpc = "signal") \/ (a \in Worker /\ wpc[a] = "erase")
Counts(a) == (a = "main" /\ mpc = "shed") \/ (a \in Worker /\ wpc[a] = "delete")
Queues(a) == \/ a = "main" /\ mpc \in {"grow", "lock"}
             \/ a \in Worker /\ wpc[a] \in {"start", "post"}

\* An actor is at one of these points at a time.
LEMMA OnePoint ==
  ASSUME NEW a
  PROVE  /\ ~(Logs(a) /\ Owns(a)) /\ ~(Logs(a) /\ Counts(a)) /\ ~(Logs(a) /\ Queues(a))
         /\ ~(Owns(a) /\ Counts(a)) /\ ~(Owns(a) /\ Queues(a)) /\ ~(Counts(a) /\ Queues(a))
  BY PoolShutdownAssumption DEF Logs, Owns, Counts, Queues

\* Who holds the lock an actor waits for.
LEMMA Holder ==
  ASSUME Locks, NEW b \in Actor
  PROVE  /\ ctxLock = b => Logs(b)
         /\ poolLock = b => Owns(b)
         /\ \A t \in Worker : wlock[t] = b => Logs(b) \/ Counts(b)
<1>1. b = "main" \/ (b \in Worker /\ b # "main")
  BY PoolShutdownAssumption DEF Actor
<1>2. ctxLock = b => Logs(b)
  BY <1>1 DEF Locks, CountLock, Logs
<1>3. poolLock = b => Owns(b)
  BY <1>1 DEF Locks, PoolLock, Owns
<1>4. ASSUME NEW t \in Worker, wlock[t] = b PROVE Logs(b) \/ Counts(b)
  BY <1>1, <1>4, PoolShutdownAssumption DEF Locks, BucketLocks, Logs, Counts
<1> QED
  BY <1>2, <1>3, <1>4

\* What a waiting actor does, and what the one it waits for does.
LEMMA Waits ==
  ASSUME TypeOK, Locks, NEW a \in Actor, NEW b \in Actor, WaitsFor(a, b)
  PROVE  \/ Counts(a) /\ Logs(b)
         \/ blog /\ Logs(a) /\ Owns(b)
         \/ Queues(a) /\ Owns(b)
         \/ mpc = "signal" /\ Owns(a) /\ (Logs(b) \/ Counts(b))
<1>1. CASE a = "main" /\ mpc = "shed" /\ ctxLock = b
  BY <1>1, Holder DEF Counts
<1>2. CASE a = "main" /\ mpc = "shedLog" /\ ~CanLog(a) /\ poolLock = b
  BY <1>2, Holder DEF Logs, CanLog
<1>3. CASE a = "main" /\ mpc \in {"grow", "lock"} /\ poolLock = b
  BY <1>3, Holder DEF Queues
<1>4. CASE a = "main" /\ mpc = "signal" /\ \E t \in todo : bstop[t] /\ wlock[t] = b
  BY <1>4, Holder DEF Owns, TypeOK
<1>5. CASE a \in Worker /\ wpc[a] = "delete" /\ ctxLock = b
  BY <1>5, Holder DEF Counts
<1>6. CASE a \in Worker /\ wpc[a] = "log" /\ ~CanLog(a) /\ poolLock = b
  BY <1>6, Holder DEF Logs, CanLog
<1>7. CASE a \in Worker /\ wpc[a] \in {"start", "post"} /\ poolLock = b
  BY <1>7, Holder DEF Queues
<1> QED
  BY <1>1, <1>2, <1>3, <1>4, <1>5, <1>6, <1>7 DEF WaitsFor

\* Without the traffic log whoever holds _hctxcount goes on, so whoever holds a
\* bucket or the pool's lock does in the end: no threads wait for each other.
THEOREM NoLockCycleHolds == Spec => []NoLockCycle
<1>1. ShutdownInv => NoLockCycle
  <2> SUFFICES ASSUME ShutdownInv, ~blog, NEW S \in SUBSET Actor, S # {},
                      \A a \in S : \E b \in S : WaitsFor(a, b)
               PROVE  FALSE
    BY DEF NoLockCycle, Deadlocked
  <2>0. TypeOK /\ Locks /\ S \subseteq Actor
    BY DEF ShutdownInv
  <2>1. \A a \in S : \E b \in S : \/ Counts(a) /\ Logs(b)
                                  \/ Queues(a) /\ Owns(b)
                                  \/ Owns(a) /\ (Logs(b) \/ Counts(b))
    BY <2>0, Waits
  <2>2. \A a \in S : ~Logs(a)
    BY <2>1, OnePoint
  <2>3. \A a \in S : ~Counts(a)
    BY <2>1, <2>2, OnePoint
  <2>4. \A a \in S : ~Owns(a)
    BY <2>1, <2>2, <2>3, OnePoint
  <2> QED
    BY <2>1, <2>2, <2>3, <2>4
<1> QED
  BY <1>1, ShutdownInvariant, PTL

\* With the traffic log a cycle needs the pool's lock to be held by somebody who
\* waits, and the signal loop of ~ThreadPool is the only one who does.
THEOREM CycleOnlyInSignalLoopHolds == Spec => []CycleOnlyInSignalLoop
<1>1. ShutdownInv => CycleOnlyInSignalLoop
  <2> SUFFICES ASSUME ShutdownInv, mpc # "signal", NEW S \in SUBSET Actor, S # {},
                      \A a \in S : \E b \in S : WaitsFor(a, b)
               PROVE  FALSE
    BY DEF CycleOnlyInSignalLoop, Deadlocked
  <2>0. TypeOK /\ Locks /\ S \subseteq Actor
    BY DEF ShutdownInv
  <2>1. \A a \in S : \E b \in S : \/ Counts(a) /\ Logs(b)
                                  \/ Logs(a) /\ Owns(b)
                                  \/ Queues(a) /\ Owns(b)
    BY <2>0, Waits
  <2>2. \A a \in S : ~Owns(a)
    BY <2>1, OnePoint
  <2>3. \A a \in S : ~Logs(a)
    BY <2>1, <2>2, OnePoint
  <2> QED
    BY <2>1, <2>2, <2>3
<1> QED
  BY <1>1, ShutdownInvariant, PTL
=============================================================================
