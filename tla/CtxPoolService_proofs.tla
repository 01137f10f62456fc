----------------------- MODULE CtxPoolService_proofs -----------------------
(***************************************************************************)
(* More theorems about CtxPool: what the pool's vector and its counter say *)
(* of the threads there are, and that the engine implements ConnService.   *)
(* CtxPool_proofs has the types and the ownership of contexts they rest on.*)
(***************************************************************************)
EXTENDS CtxPool_proofs, FiniteSetTheorems

PoolCleared == mpc \in {"free", "end"}
Distinct(s) == \A i, j \in 1..Len(s) : s[i] = s[j] => i = j

\* Until the vector is cleared it lists the workers and _alive counts them; from
\* then on nobody is counted out, so that _alive counts them all and more.
Accounts ==
  /\ ~PoolCleared =>
       /\ Len(pool) <= MaxThreads /\ Distinct(pool) /\ Elems(pool) = Existing
       /\ nalive = Cardinality(Counted)
  /\ PoolCleared => pool = <<>> /\ nalive >= Cardinality(Counted)

\* Who is a worker of create(): dynamic is set by add_thread and reset when the
\* thread has gone; the listener, which alone makes dynamic ones, comes later;
\* and the end of a static one ends the server.
Statics == {t \in Worker : tpc[t] \notin {"none", "post"} /\ ~dynamic[t]}
StaticInv ==
  /\ \A t \in Worker : tpc[t] = "none" => ~dynamic[t]
  /\ mpc = "create" => \A t \in Worker : ~dynamic[t]
  /\ alive => \A t \in Worker : tpc[t] = "post" => dynamic[t]
  /\ alive => Cardinality(Statics) = made

\* ~ThreadPool runs when the server is no longer alive, and leaves an empty queue.
EndInv ==
  /\ mpc \in {"size", "signal", "hang", "eos", "clear", "free", "end"} => ~alive
  /\ mpc = "end" => q = <<>>

\* A worker that has not come to its loop, or is past it, has no context.
IdleInv == \A t \in Worker : tpc[t] \in {"none", "start", "post"} => bucket[t] = <<>>

-----------------------------------------------------------------------------
(* The pool's vector and its counter.                                      *)

\* push_back of a worker that is not there.
LEMMA AppendDistinct ==
  ASSUME NEW S, NEW s \in Seq(S), NEW x \in S
  PROVE  /\ Append(s, x) \in Seq(S) /\ Len(Append(s, x)) = Len(s) + 1
         /\ Elems(Append(s, x)) = Elems(s) \cup {x}
         /\ Distinct(s) /\ x \notin Elems(s) => Distinct(Append(s, x))
<1>1. /\ Append(s, x) \in Seq(S) /\ Len(Append(s, x)) = Len(s) + 1
      /\ \A i \in 1..Len(s) : Append(s, x)[i] = s[i]
      /\ Append(s, x)[Len(s) + 1] = x
  BY AppendProperties
<1>2. 1..Len(Append(s, x)) = (1..Len(s)) \cup {Len(s) + 1}
  BY <1>1, LenProperties
<1>3. Elems(Append(s, x)) = Elems(s) \cup {x}
  BY <1>1, <1>2 DEF Elems
<1>4. ASSUME Distinct(s), x \notin Elems(s) PROVE Distinct(Append(s, x))
  BY <1>1, <1>2, <1>4 DEF Distinct, Elems
<1> QED
  BY <1>1, <1>3, <1>4

\* erase takes out the element at k and keeps the others, in their order.
LEMMA EraseAtDistinct ==
  ASSUME NEW S, NEW s \in Seq(S), NEW k \in 1..Len(s), Distinct(s)
  PROVE  /\ Len(EraseAt(s, k)) = Len(s) - 1
         /\ Elems(EraseAt(s, k)) = Elems(s) \ {s[k]}
         /\ Distinct(EraseAt(s, k))
<1> DEFINE a == SubSeq(s, 1, k - 1)
           b == SubSeq(s, k + 1, Len(s))
           r == EraseAt(s, k)
<1>1. Len(s) \in Nat /\ k \in Nat /\ k >= 1 /\ k <= Len(s) /\ \A i \in 1..Len(s) : s[i] \in S
  BY LenProperties, ElementOfSeq
<1>2. a \in Seq(S) /\ Len(a) = k - 1 /\ \A i \in 1..(k - 1) : a[i] = s[i]
  <2>1. 1 \in Int /\ k - 1 \in Int /\ \A i \in 1..(k - 1) : s[i] \in S
    BY <1>1
  <2> QED
    BY <1>1, <2>1, SubSeqProperties
<1>3. b \in Seq(S) /\ Len(b) = Len(s) - k /\ \A i \in 1..(Len(s) - k) : b[i] = s[i + k]
  <2>1. k + 1 \in Int /\ Len(s) \in Int /\ \A i \in (k + 1)..Len(s) : s[i] \in S
    BY <1>1
  <2> QED
    BY <1>1, <2>1, SubSeqProperties
<1>4. r = a \o b
  BY DEF EraseAt
<1> HIDE DEF a, b, r
<1>5. /\ Len(r) = Len(s) - 1
      /\ \A i \in 1..(Len(s) - 1) : r[i] = IF i < k THEN s[i] ELSE s[i + 1]
  <2>1. Len(a \o b) = Len(a) + Len(b)
    BY <1>2, <1>3, ConcatProperties
  <2>2. \A i \in 1..(Len(a) + Len(b)) : (a \o b)[i] = IF i <= Len(a) THEN a[i] ELSE b[i - Len(a)]
    BY <1>2, <1>3, ConcatProperties
  <2>3. \A i \in 1..(Len(s) - 1) : r[i] = IF i <= k - 1 THEN a[i] ELSE b[i - (k - 1)]
    BY <1>1, <1>2, <1>3, <1>4, <2>2, SMTT(30)
  <2>4. ASSUME NEW i \in 1..(Len(s) - 1) PROVE r[i] = IF i < k THEN s[i] ELSE s[i + 1]
    <3>1. CASE i < k
      BY <1>1, <1>2, <2>3, <3>1
    <3>2. CASE ~(i < k)
      <4>1. i - (k - 1) \in 1..(Len(s) - k) /\ (i - (k - 1)) + k = i + 1
        BY <1>1, <3>2
      <4> QED
        BY <1>1, <1>3, <2>3, <3>2, <4>1
    <3> QED
      BY <3>1, <3>2
  <2> QED
    BY <1>1, <1>2, <1>3, <1>4, <2>1, <2>4
<1>6. Elems(r) = Elems(s) \ {s[k]}
  <2>1. ASSUME NEW i \in 1..Len(r) PROVE r[i] \in Elems(s) \ {s[k]}
    <3> DEFINE j == IF i < k THEN i ELSE i + 1
    <3>1. j \in 1..Len(s) /\ j # k /\ r[i] = s[j]
      BY <1>1, <1>5
    <3> HIDE DEF j
    <3> QED
      BY <3>1 DEF Elems, Distinct
  <2>2. ASSUME NEW j \in 1..Len(s), j # k PROVE \E i \in 1..Len(r) : r[i] = s[j]
    <3> DEFINE i == IF j < k THEN j ELSE j - 1
    <3>1. i \in 1..Len(r) /\ r[i] = s[j]
      BY <1>1, <1>5, <2>2
    <3> QED
      BY <3>1
  <2>3. Elems(r) \subseteq Elems(s) \ {s[k]}
    BY <2>1 DEF Elems
  <2>4. Elems(s) \ {s[k]} \subseteq Elems(r)
    BY <2>2 DEF Elems
  <2> QED
    BY <2>3, <2>4
<1>7. Distinct(r)
  <2> SUFFICES ASSUME NEW i \in 1..Len(r), NEW j \in 1..Len(r), r[i] = r[j] PROVE i = j
    BY DEF Distinct
  <2> DEFINE u == IF i < k THEN i ELSE i + 1
             v == IF j < k THEN j ELSE j + 1
  <2>1. u \in 1..Len(s) /\ v \in 1..Len(s) /\ s[u] = s[v]
    BY <1>1, <1>5
  <2>2. u = v
    BY <2>1 DEF Distinct
  <2> QED
    BY <1>1, <1>5, <2>2
<1> QED
  BY <1>5, <1>6, <1>7 DEF r

\* The invariant: starts, removals and growth keep vector, threads and counter
\* in step until ~ThreadPool clears the vector.
THEOREM Accounting == Spec => []Accounts
<1> USE CtxPoolAssumption DEF PoolCleared
<1>1. Init => Accounts
  <2> SUFFICES ASSUME Init PROVE Accounts
    OBVIOUS
  <2>1. Elems(pool) = {} /\ Len(pool) = 0 /\ Existing = {} /\ Counted = {}
    BY EmptyOnce DEF Init, Existing, Counted
  <2>2. nalive = Cardinality(Counted)
    BY <2>1, FS_EmptySet DEF Init
  <2>3. Distinct(pool) /\ ~PoolCleared
    BY <2>1 DEF Distinct, Init
  <2> QED
    BY <2>1, <2>2, <2>3 DEF Accounts
<1>2. TypeInv /\ Accounts /\ [Next]_vars => Accounts'
  <2> SUFFICES ASSUME TypeInv, Accounts, [Next]_vars PROVE Accounts'
    OBVIOUS
  <2> USE DEF queueVars, mainVars, poolVars, workerVars
  <2>a. /\ pool \in Seq(Worker) /\ tpc \in [Worker -> WorkerPoints] /\ Len(pool) \in Nat
    BY LenProperties DEF TypeInv, TypeOK
  <2>b. IsFiniteSet(Counted) /\ Counted \subseteq Existing
    BY FS_Subset DEF Counted, Existing
  \* a step that starts or ends no worker
  <2>0. ASSUME UNCHANGED <<pool, nalive, tpc>>, PoolCleared <=> PoolCleared'
        PROVE  Accounts'
    BY <2>0 DEF Accounts, Existing, Counted
  \* a worker's own step, past inc()
  <2>w. ASSUME NEW t \in Worker, NEW p, tpc[t] \notin {"none", "start"}, p \notin {"none", "start"},
               tpc' = [tpc EXCEPT ![t] = p], UNCHANGED <<pool, nalive, mpc>>
        PROVE  Accounts'
    <3>1. Existing' = Existing /\ Counted' = Counted
      BY <2>w, <2>a DEF Existing, Counted
    <3> QED
      BY <3>1, <2>w DEF Accounts
  <2>n. ASSUME NEW t \in Worker, NEW dyn \in BOOLEAN, Len(pool) < MaxThreads, AddThread(t, dyn),
               ~PoolCleared, ~PoolCleared'
        PROVE  Accounts'
    <3>1. tpc[t] = "none" /\ pool' = Append(pool, t) /\ tpc' = [tpc EXCEPT ![t] = "start"] /\ nalive' = nalive
      BY <2>n DEF AddThread
    <3>2. Existing' = Existing \cup {t} /\ t \notin Existing /\ Counted' = Counted
      BY <3>1, <2>a DEF Existing, Counted
    <3>4. Len(pool) < MaxThreads /\ Distinct(pool) /\ Elems(pool) = Existing /\ nalive = Cardinality(Counted)
      BY <2>n DEF Accounts
    <3>5. Len(pool') = Len(pool) + 1 /\ Elems(pool') = Elems(pool) \cup {t} /\ Distinct(pool')
      BY <3>1, <3>2, <3>4, <2>a, AppendDistinct
    <3> QED
      BY <3>1, <3>2, <3>4, <3>5, <2>a, <2>n DEF Accounts
  <2>hang. CASE DtorHang
    <3>1. PICK t \in Worker : tpc[t] \in {"sweep", "io", "drain"} /\ tpc' = [tpc EXCEPT ![t] = "hang"]
      BY <2>hang, HangStep
    <3>2. UNCHANGED <<pool, nalive>> /\ ~PoolCleared /\ ~PoolCleared'
      BY <2>hang, HangStep DEF PoolCleared
    <3>3. Existing' = Existing /\ Counted' = Counted
      BY <3>1, <2>a DEF Existing, Counted
    <3> QED
      BY <3>2, <3>3 DEF Accounts
  <2>1. CASE Create
    <3>1. CASE made < MinThreads /\ Len(pool) < MaxThreads /\ \E t \in Worker : AddThread(t, FALSE)
      BY <2>1, <2>n, <3>1 DEF Create
    <3>2. CASE UNCHANGED <<poolVars, workerVars>>
      BY <2>1, <2>0, <3>2 DEF Create
    <3> QED
      BY <2>1, <3>1, <3>2 DEF Create
  <2>2. CASE Poll \/ Accept \/ Reject \/ InRange
    BY <2>2, <2>0 DEF Poll, Accept, Reject, InRange
  <2>3. CASE Overflow
    BY <2>3, <2>0 DEF Overflow
  <2>4. CASE Grow
    <3>1. CASE Len(pool) < MaxThreads /\ \E t \in Worker : AddThread(t, TRUE)
      BY <2>4, <2>n, <3>1 DEF Grow
    <3>2. CASE UNCHANGED <<poolVars, workerVars>>
      BY <2>4, <2>0, <3>2 DEF Grow
    <3> QED
      BY <2>4, <3>1, <3>2 DEF Grow
  <2>5. CASE Shed \/ UseAfterDtor
    BY <2>5, <2>0 DEF Shed, UseAfterDtor, Fault
  <2>6. CASE DtorSize \/ DtorEos \/ DtorTimeout
    BY <2>6, <2>0 DEF DtorSize, DtorEos, DtorTimeout
  <2>7. CASE DtorSignal
    <3>1. UNCHANGED <<pool, nalive, tpc>> /\ mpc = "signal" /\ mpc' \in {"signal", "eos"}
      BY <2>7 DEF DtorSignal, Fault
    <3> QED
      BY <3>1, <2>0
  <2>8. CASE DtorClear
    BY <2>8, <2>b, FS_CardinalityType DEF DtorClear, Accounts, Counted
  <2>9. CASE DtorFree
    BY <2>9, <2>0 DEF DtorFree, Fault
  <2>10. CASE Leave \/ Interrupt
    BY <2>10, <2>0 DEF Leave, Interrupt
  <2>11. ASSUME NEW t \in Worker, Enter(t) PROVE Accounts'
    <3>1. PICK p \in {"preload", "loop"} : tpc' = [tpc EXCEPT ![t] = p]
      BY <2>11 DEF Enter
    <3>2. tpc[t] = "start" /\ nalive' = nalive + 1 /\ UNCHANGED <<pool, mpc>>
      BY <2>11 DEF Enter
    <3>3. Existing' = Existing /\ Counted' = Counted \cup {t} /\ t \notin Counted
      BY <3>1, <3>2, <2>a DEF Existing, Counted
    <3>4. Cardinality(Counted') = Cardinality(Counted) + 1 /\ nalive \in Int /\ Cardinality(Counted) \in Nat
      BY <3>3, <2>b, FS_AddElement, FS_CardinalityType DEF TypeInv, TypeOK
    <3> QED
      BY <3>2, <3>3, <3>4 DEF Accounts
  <2>12. ASSUME NEW t \in Worker, Loop(t) PROVE Accounts'
    <3>1. PICK p \in {"fetch", "drain"} : tpc' = [tpc EXCEPT ![t] = p]
      BY <2>12 DEF Loop
    <3> QED
      BY <2>12, <2>w, <3>1 DEF Loop
  <2>13. ASSUME NEW t \in Worker, FetchNone(t) PROVE Accounts'
    <3>1. PICK p \in {"io", "loop", "drain"} : tpc' = [tpc EXCEPT ![t] = p]
      BY <2>13 DEF FetchNone
    <3> QED
      BY <2>13, <2>w, <3>1 DEF FetchNone
  <2>14. ASSUME NEW t \in Worker, FetchEos(t) PROVE Accounts'
    <3>1. PICK p \in {"loop", "drain"} : tpc' = [tpc EXCEPT ![t] = p]
      BY <2>14 DEF FetchEos
    <3> QED
      BY <2>14, <2>w, <3>1 DEF FetchEos
  <2>15. ASSUME NEW t \in Worker, Fetch(t) PROVE Accounts'
    BY <2>15, <2>w DEF Fetch
  <2>16. ASSUME NEW t \in Worker, Put(t) PROVE Accounts'
    <3>1. PICK p \in {"io", "preload", "loop"} : tpc' = [tpc EXCEPT ![t] = p]
      BY <2>16 DEF Put
    <3> QED
      BY <2>16, <2>w, <3>1 DEF Put
  <2>17. ASSUME NEW t \in Worker, Spin(t) PROVE Accounts'
    BY <2>17, <2>w DEF Spin
  <2>18. ASSUME NEW t \in Worker, SelectError(t) PROVE Accounts'
    <3>1. PICK p \in {"loop", "drain"} : tpc' = [tpc EXCEPT ![t] = p]
      BY <2>18 DEF SelectError
    <3> QED
      BY <2>18, <2>w, <3>1 DEF SelectError
  <2>19. ASSUME NEW t \in Worker, CloseAll(t) PROVE Accounts'
    BY <2>19, <2>w DEF CloseAll
  <2>20. ASSUME NEW t \in Worker, Sweep(t) PROVE Accounts'
    BY <2>20, <2>0 DEF Sweep
  <2>21. ASSUME NEW t \in Worker, SweepEnd(t) PROVE Accounts'
    BY <2>21, <2>w DEF SweepEnd
  <2>22. ASSUME NEW t \in Worker, Drain(t) PROVE Accounts'
    BY <2>22, <2>w DEF Drain
  <2>23. ASSUME NEW t \in Worker, UseDeleted(t) PROVE Accounts'
    BY <2>23, <2>0 DEF UseDeleted, Fault
  <2>24. ASSUME NEW t \in Worker, Post(t) PROVE Accounts'
    <3>1. tpc[t] = "post" /\ tpc' = [tpc EXCEPT ![t] = "none"] /\ UNCHANGED mpc
      BY <2>24 DEF Post
    <3>2. Existing' = Existing \ {t} /\ Counted' = Counted \ {t} /\ t \in Existing /\ t \in Counted
      BY <3>1, <2>a DEF Existing, Counted
    <3>7. Cardinality(Counted') = Cardinality(Counted) - 1 /\ Cardinality(Counted) \in Nat /\ nalive \in Int
      BY <3>2, <2>b, FS_RemoveElement, FS_CardinalityType DEF TypeInv, TypeOK
    <3>8. CASE PoolCleared
      <4>1. Elems(pool) = {} /\ Len(pool) = 0 /\ nalive >= Cardinality(Counted)
        BY <3>8, EmptyOnce DEF Accounts
      <4>2. UNCHANGED poolVars
        BY <2>24, <4>1 DEF Post
      <4> QED
        BY <3>1, <3>7, <3>8, <4>1, <4>2 DEF Accounts
    <3>3. SUFFICES ASSUME ~PoolCleared PROVE Accounts'
      BY <3>8
    <3>4. Len(pool) <= MaxThreads /\ Distinct(pool) /\ Elems(pool) = Existing /\ nalive = Cardinality(Counted)
      BY <3>3 DEF Accounts
    <3>5. PICK k \in 1..Len(pool) : pool[k] = t /\ pool' = EraseAt(pool, k) /\ nalive' = nalive - 1
      BY <2>24, <3>2, <3>4 DEF Post
    <3>6. Len(pool') = Len(pool) - 1 /\ Elems(pool') = Elems(pool) \ {t} /\ Distinct(pool')
      BY <3>4, <3>5, <2>a, EraseAtDistinct
    <3> QED
      BY <3>1, <3>2, <3>3, <3>4, <3>5, <3>6, <3>7, <2>a DEF Accounts
  <2>25. CASE UNCHANGED vars
    BY <2>25, <2>0 DEF vars
  <2> QED
    BY <2>hang, <2>1, <2>2, <2>3, <2>4, <2>5, <2>6, <2>7, <2>8, <2>9, <2>10, <2>11, <2>12, <2>13, <2>14, <2>15, <2>16, <2>17, <2>18, <2>19, <2>20, <2>21, <2>22, <2>23, <2>24, <2>25 DEF Next, MainRuns, Main, WorkerRuns, WorkerStep, Environment, Over
<1> QED
  BY <1>1, <1>2, TypeInvariant, PTL DEF Spec

\* Until ~ThreadPool clears it, the pool's vector lists exactly the workers that
\* exist, each once and at most max_threads, and the counter counts those past inc().
THEOREM PoolAccountingHolds == Spec => []PoolAccounting
<1>1. Accounts => PoolAccounting
  BY DEF Accounts, PoolAccounting, PoolCleared, Distinct, Existing, Counted
<1> QED
  BY <1>1, Accounting, PTL

-----------------------------------------------------------------------------
(* The workers of create().                                                *)

\* A sequence without repetition is as long as the set of its elements.
LEMMA LengthOfDistinct ==
  ASSUME NEW S, NEW s \in Seq(S), Distinct(s)
  PROVE  Cardinality(Elems(s)) = Len(s)
<1>1. Len(s) \in Nat /\ s \in [1..Len(s) -> S]
  BY LenProperties
<1>2. s \in [1..Len(s) -> Elems(s)]
  BY <1>1 DEF Elems
<1>3. s \in Bijection(1..Len(s), Elems(s))
  <2>1. s \in Injection(1..Len(s), Elems(s))
    BY <1>1, <1>2 DEF Injection, IsInjective, Distinct
  <2>2. s \in Surjection(1..Len(s), Elems(s))
    BY <1>2 DEF Surjection, Elems
  <2> QED
    BY <2>1, <2>2 DEF Bijection
<1> QED
  BY <1>1, <1>3, FS_CountingElements DEF ExistsBijection

\* The invariant: as long as the server lives create() finds room in the pool,
\* and no worker of its has ended.
THEOREM StaticInvariant == Spec => []StaticInv
<1> USE CtxPoolAssumption
<1>1. Init => StaticInv
  <2> SUFFICES ASSUME Init PROVE StaticInv
    OBVIOUS
  <2>1. Statics = {}
    BY DEF Init, Statics
  <2> QED
    BY <2>1, FS_EmptySet DEF Init, StaticInv
<1>2. TypeInv /\ Accounts /\ StaticInv /\ [Next]_vars => StaticInv'
  <2> SUFFICES ASSUME TypeInv, Accounts, StaticInv, [Next]_vars PROVE StaticInv'
    OBVIOUS
  <2> USE DEF queueVars, mainVars, poolVars, workerVars
  <2>a. /\ pool \in Seq(Worker) /\ tpc \in [Worker -> WorkerPoints] /\ Len(pool) \in Nat
        /\ dynamic \in [Worker -> BOOLEAN] /\ made \in 0..MinThreads
    BY LenProperties DEF TypeInv, TypeOK
  <2>b. IsFiniteSet(Statics)
    BY FS_Subset DEF Statics
  <2>c. /\ \A t \in Worker : tpc[t] = "none" => ~dynamic[t]
        /\ mpc = "create" => \A t \in Worker : ~dynamic[t]
        /\ alive => \A t \in Worker : tpc[t] = "post" => dynamic[t]
        /\ alive => Cardinality(Statics) = made
    BY DEF StaticInv
  \* a step that moves no worker
  <2>0. ASSUME UNCHANGED <<tpc, dynamic, made>>, alive' => alive, mpc' = "create" => mpc = "create"
        PROVE  StaticInv'
    BY <2>0, <2>c DEF StaticInv, Statics
  \* a worker's own step, before its end
  <2>w. ASSUME NEW t \in Worker, NEW p, tpc[t] \notin {"none", "post"}, p \notin {"none", "post"},
               tpc' = [tpc EXCEPT ![t] = p], UNCHANGED <<dynamic, made, alive, mpc>>
        PROVE  StaticInv'
    <3>1. Statics' = Statics
      BY <2>w, <2>a DEF Statics
    <3>2. \A u \in Worker : (tpc'[u] = "none" <=> tpc[u] = "none") /\ (tpc'[u] = "post" <=> tpc[u] = "post")
      BY <2>w, <2>a
    <3> QED
      BY <3>1, <3>2, <2>w, <2>c DEF StaticInv
  <2>hang. CASE DtorHang
    <3>1. PICK t \in Worker : tpc[t] \in {"sweep", "io", "drain"} /\ tpc' = [tpc EXCEPT ![t] = "hang"]
      BY <2>hang, HangStep
    <3>2. UNCHANGED <<dynamic, made, alive>> /\ mpc' # "create"
      BY <2>hang, HangStep
    <3>3. Statics' = Statics
      BY <3>1, <3>2, <2>a DEF Statics
    <3>4. \A u \in Worker : (tpc'[u] = "none" <=> tpc[u] = "none") /\ (tpc'[u] = "post" <=> tpc[u] = "post")
      BY <3>1, <2>a
    <3> QED
      BY <3>2, <3>3, <3>4, <2>c DEF StaticInv
  <2>1. CASE Create
    <3>1. ASSUME made < MinThreads, Len(pool) < MaxThreads, NEW t \in Worker, AddThread(t, FALSE),
                 made' = made + 1
          PROVE  StaticInv'
      <4>1. /\ tpc[t] = "none" /\ tpc' = [tpc EXCEPT ![t] = "start"] /\ mpc' = mpc /\ alive' = alive
            /\ dynamic' = [dynamic EXCEPT ![t] = FALSE] /\ mpc = "create"
        BY <2>1, <3>1 DEF AddThread, Create
      <4>2. Statics' = Statics \cup {t} /\ t \notin Statics
        BY <4>1, <2>a DEF Statics
      <4>3. Cardinality(Statics') = Cardinality(Statics) + 1
        BY <4>2, <2>b, FS_AddElement
      <4>4. dynamic' = dynamic /\ \A u \in Worker : tpc'[u] = "post" => tpc[u] = "post"
        BY <4>1, <2>a, <2>c
      <4> QED
        BY <4>1, <4>3, <4>4, <3>1, <2>a, <2>c DEF StaticInv
    <3>2. ASSUME made < MinThreads, Len(pool) >= MaxThreads, UNCHANGED <<poolVars, workerVars>>
          PROVE  StaticInv'
      <4>1. mpc = "create" /\ UNCHANGED <<mpc, alive>>
        BY <2>1, <3>2 DEF Create
      <4>2. ASSUME alive PROVE FALSE
        <5>1. Existing = Statics
          BY <4>1, <4>2, <2>c DEF Existing, Statics
        <5>2. Distinct(pool) /\ Elems(pool) = Existing
          BY <4>1 DEF Accounts, PoolCleared
        <5>3. Len(pool) = Cardinality(Statics)
          BY <5>1, <5>2, <2>a, LengthOfDistinct
        <5> QED
          BY <5>3, <4>2, <3>2, <2>a, <2>c
      <4> QED
        BY <4>1, <4>2, <3>2, <2>c DEF StaticInv
    <3>3. CASE ~(made < MinThreads)
      BY <2>1, <3>3, <2>0 DEF Create
    <3> QED
      BY <2>1, <3>1, <3>2, <3>3 DEF Create
  <2>2. CASE Poll \/ Accept \/ Reject \/ InRange
    BY <2>2, <2>0 DEF Poll, Accept, Reject, InRange
  <2>3. CASE Overflow
    BY <2>3, <2>0 DEF Overflow
  <2>4. CASE Grow
    <3>1. ASSUME NEW t \in Worker, AddThread(t, TRUE) PROVE StaticInv'
      <4>1. /\ tpc[t] = "none" /\ tpc' = [tpc EXCEPT ![t] = "start"] /\ mpc' = "poll"
            /\ dynamic' = [dynamic EXCEPT ![t] = TRUE] /\ UNCHANGED <<made, alive>>
        BY <2>4, <3>1 DEF AddThread, Grow
      <4>2. Statics' = Statics
        BY <4>1, <2>a DEF Statics
      <4>3. \A u \in Worker : u # t => tpc'[u] = tpc[u] /\ dynamic'[u] = dynamic[u]
        BY <4>1, <2>a
      <4>4. tpc'[t] = "start"
        BY <4>1, <2>a
      <4> QED
        BY <4>1, <4>2, <4>3, <4>4, <2>c DEF StaticInv
    <3>2. CASE UNCHANGED <<poolVars, workerVars>>
      BY <2>4, <2>0, <3>2 DEF Grow
    <3> QED
      BY <2>4, <3>1, <3>2 DEF Grow
  <2>5. CASE Shed \/ UseAfterDtor
    BY <2>5, <2>0 DEF Shed, UseAfterDtor, Fault
  <2>6. CASE DtorSize \/ DtorEos \/ DtorTimeout \/ DtorClear
    BY <2>6, <2>0 DEF DtorSize, DtorEos, DtorTimeout, DtorClear
  <2>7. CASE DtorSignal
    <3>1. UNCHANGED <<tpc, dynamic, made, alive>> /\ mpc' # "create"
      BY <2>7 DEF DtorSignal, Fault
    <3> QED
      BY <3>1, <2>0
  <2>9. CASE DtorFree
    BY <2>9, <2>0 DEF DtorFree, Fault
  <2>10. CASE Leave \/ Interrupt
    BY <2>10, <2>0 DEF Leave, Interrupt
  <2>11. ASSUME NEW t \in Worker, Enter(t) PROVE StaticInv'
    <3>1. PICK p \in {"preload", "loop"} : tpc' = [tpc EXCEPT ![t] = p]
      BY <2>11 DEF Enter
    <3> QED
      BY <2>11, <2>w, <3>1 DEF Enter
  <2>12. ASSUME NEW t \in Worker, Loop(t) PROVE StaticInv'
    <3>1. PICK p \in {"fetch", "drain"} : tpc' = [tpc EXCEPT ![t] = p]
      BY <2>12 DEF Loop
    <3> QED
      BY <2>12, <2>w, <3>1 DEF Loop
  <2>13. ASSUME NEW t \in Worker, FetchNone(t) PROVE StaticInv'
    <3>1. PICK p \in {"io", "loop", "drain"} : tpc' = [tpc EXCEPT ![t] = p]
      BY <2>13 DEF FetchNone
    <3> QED
      BY <2>13, <2>w, <3>1 DEF FetchNone
  <2>14. ASSUME NEW t \in Worker, FetchEos(t) PROVE StaticInv'
    <3>1. PICK p \in {"loop", "drain"} : tpc' = [tpc EXCEPT ![t] = p]
      BY <2>14 DEF FetchEos
    <3> QED
      BY <2>14, <2>w, <3>1 DEF FetchEos
  <2>15. ASSUME NEW t \in Worker, Fetch(t) PROVE StaticInv'
    BY <2>15, <2>w DEF Fetch
  <2>16. ASSUME NEW t \in Worker, Put(t) PROVE StaticInv'
    <3>1. PICK p \in {"io", "preload", "loop"} : tpc' = [tpc EXCEPT ![t] = p]
      BY <2>16 DEF Put
    <3> QED
      BY <2>16, <2>w, <3>1 DEF Put
  <2>17. ASSUME NEW t \in Worker, Spin(t) PROVE StaticInv'
    BY <2>17, <2>w DEF Spin
  <2>18. ASSUME NEW t \in Worker, SelectError(t) PROVE StaticInv'
    <3>1. PICK p \in {"loop", "drain"} : tpc' = [tpc EXCEPT ![t] = p]
      BY <2>18 DEF SelectError
    <3> QED
      BY <2>18, <2>w, <3>1 DEF SelectError
  <2>19. ASSUME NEW t \in Worker, CloseAll(t) PROVE StaticInv'
    BY <2>19, <2>w DEF CloseAll
  <2>20. ASSUME NEW t \in Worker, Sweep(t) PROVE StaticInv'
    BY <2>20, <2>0 DEF Sweep
  <2>21. ASSUME NEW t \in Worker, SweepEnd(t) PROVE StaticInv'
    BY <2>21, <2>w DEF SweepEnd
  <2>22. ASSUME NEW t \in Worker, Drain(t) PROVE StaticInv'
    <3>1. /\ tpc[t] = "drain" /\ tpc' = [tpc EXCEPT ![t] = "post"] /\ alive' = (alive /\ dynamic[t])
          /\ UNCHANGED <<dynamic, made, mpc>>
      BY <2>22 DEF Drain
    <3>2. \A u \in Worker : (tpc'[u] = "none" => tpc[u] = "none") /\ (tpc'[u] = "post" => tpc[u] = "post" \/ u = t)
      BY <3>1, <2>a
    <3>3. ASSUME alive' PROVE Statics' = Statics /\ dynamic[t] /\ alive
      BY <3>1, <3>3, <2>a DEF Statics
    <3> QED
      BY <3>1, <3>2, <3>3, <2>c DEF StaticInv
  <2>23. ASSUME NEW t \in Worker, UseDeleted(t) PROVE StaticInv'
    BY <2>23, <2>0 DEF UseDeleted, Fault
  <2>24. ASSUME NEW t \in Worker, Post(t) PROVE StaticInv'
    <3>1. /\ tpc[t] = "post" /\ tpc' = [tpc EXCEPT ![t] = "none"]
          /\ dynamic' = [dynamic EXCEPT ![t] = FALSE] /\ UNCHANGED <<made, mpc, alive>>
      BY <2>24 DEF Post
    <3>2. Statics' = Statics
      BY <3>1, <2>a DEF Statics
    <3>3. \A u \in Worker : u # t => tpc'[u] = tpc[u] /\ dynamic'[u] = dynamic[u]
      BY <3>1, <2>a
    <3>4. tpc'[t] = "none" /\ ~dynamic'[t]
      BY <3>1, <2>a
    <3> QED
      BY <3>1, <3>2, <3>3, <3>4, <2>c DEF StaticInv
  <2>25. CASE UNCHANGED vars
    BY <2>25, <2>0 DEF vars
  <2> QED
    BY <2>hang, <2>1, <2>2, <2>3, <2>4, <2>5, <2>6, <2>7, <2>9, <2>10, <2>11, <2>12, <2>13, <2>14, <2>15, <2>16, <2>17, <2>18, <2>19, <2>20, <2>21, <2>22, <2>23, <2>24, <2>25 DEF Next, MainRuns, Main, WorkerRuns, WorkerStep, Environment, Over
<1> QED
  BY <1>1, <1>2, TypeInvariant, Accounting, PTL DEF Spec

\* While the server is alive none of the workers of create() has ended.
THEOREM StaticKeptHolds == Spec => []StaticKept
<1>1. StaticInv => StaticKept
  BY DEF StaticInv, StaticKept, Statics
<1> QED
  BY <1>1, StaticInvariant, PTL

-----------------------------------------------------------------------------
(* The end of main.                                                        *)

\* The invariant: main destroys the pool only when the server has stopped, and
\* ~CtxQueue is its last step.
THEOREM Ending == Spec => []EndInv
<1>1. Init => EndInv
  BY DEF Init, EndInv
<1>2. TypeInv /\ EndInv /\ [Next]_vars => EndInv'
  <2> SUFFICES ASSUME TypeInv, EndInv, [Next]_vars PROVE EndInv'
    OBVIOUS
  <2> USE DEF queueVars, mainVars, poolVars, workerVars, EndInv
  <2>hang. CASE DtorHang
    BY <2>hang, HangStep
  <2>1. CASE Create \/ Poll \/ Accept \/ Reject \/ InRange \/ Overflow \/ Grow
    BY <2>1 DEF Create, Poll, Accept, Reject, InRange, Overflow, Grow
  <2>2. CASE Shed
    BY <2>2 DEF Shed, Fault
  <2>3. CASE DtorSize \/ DtorEos \/ DtorTimeout \/ DtorClear
    BY <2>3 DEF DtorSize, DtorEos, DtorTimeout, DtorClear
  <2>4. CASE DtorSignal
    BY <2>4 DEF DtorSignal, Fault
  <2>5. CASE DtorFree
    BY <2>5 DEF DtorFree, Fault
  <2>6. CASE Leave \/ Interrupt \/ UseAfterDtor
    BY <2>6 DEF Leave, Interrupt, UseAfterDtor, Fault
  <2>7. ASSUME NEW t \in Worker, mpc # "end", WorkerStep(t) PROVE EndInv'
    <3>1. CASE Drain(t)
      BY <2>7, <3>1 DEF Drain
    <3>2. CASE UseDeleted(t)
      BY <2>7, <3>2 DEF UseDeleted, Fault
    <3>3. CASE Enter(t) \/ Loop(t) \/ FetchNone(t) \/ FetchEos(t) \/ Fetch(t) \/ Put(t)
      BY <2>7, <3>3 DEF Enter, Loop, FetchNone, FetchEos, Fetch, Put
    <3>4. CASE Spin(t) \/ SelectError(t) \/ CloseAll(t) \/ Sweep(t) \/ SweepEnd(t) \/ Post(t)
      BY <2>7, <3>4 DEF Spin, SelectError, CloseAll, Sweep, SweepEnd, Post
    <3> QED
      BY <2>7, <3>1, <3>2, <3>3, <3>4 DEF WorkerStep
  <2>8. CASE UNCHANGED vars
    BY <2>8 DEF vars
  <2> QED
    BY <2>hang, <2>1, <2>2, <2>3, <2>4, <2>5, <2>6, <2>7, <2>8 DEF Next, MainRuns, Main, WorkerRuns, Environment, Over
<1> QED
  BY <1>1, <1>2, TypeInvariant, PTL DEF Spec

\* The invariant: a bucket is filled on the way through the loop and emptied at its end.
THEOREM Idleness == Spec => []IdleInv
<1>1. Init => IdleInv
  BY DEF Init, IdleInv
<1>2. TypeInv /\ IdleInv /\ [Next]_vars => IdleInv'
  <2> SUFFICES ASSUME TypeInv, IdleInv, [Next]_vars PROVE IdleInv'
    OBVIOUS
  <2> USE DEF queueVars, mainVars, poolVars, workerVars, IdleInv
  <2>a. tpc \in [Worker -> WorkerPoints] /\ bucket \in [Worker -> Seq(Ctx)]
    BY DEF TypeInv, TypeOK
  <2>n. ASSUME NEW t \in Worker, NEW dyn \in BOOLEAN, AddThread(t, dyn) PROVE IdleInv'
    BY <2>n, <2>a DEF AddThread
  <2>0. ASSUME UNCHANGED <<tpc, bucket>> PROVE IdleInv'
    BY <2>0
  <2>hang. CASE DtorHang
    <3>1. PICK t \in Worker : tpc[t] \in {"sweep", "io", "drain"} /\ tpc' = [tpc EXCEPT ![t] = "hang"]
      BY <2>hang, HangStep
    <3>2. UNCHANGED bucket
      BY <2>hang, HangStep
    <3> QED
      BY <3>1, <3>2, <2>a
  <2>1. CASE Create
    <3>1. UNCHANGED <<tpc, bucket>> \/ \E t \in Worker : AddThread(t, FALSE)
      BY <2>1 DEF Create
    <3> QED
      BY <3>1, <2>n, <2>0
  <2>2. CASE Grow
    <3>1. UNCHANGED <<tpc, bucket>> \/ \E t \in Worker : AddThread(t, TRUE)
      BY <2>2 DEF Grow
    <3> QED
      BY <3>1, <2>n, <2>0
  <2>3. CASE Poll \/ Accept \/ Reject \/ InRange \/ Overflow
    BY <2>3, <2>0 DEF Poll, Accept, Reject, InRange, Overflow
  <2>4. CASE Shed \/ UseAfterDtor
    BY <2>4, <2>0 DEF Shed, UseAfterDtor, Fault
  <2>5. CASE DtorSize \/ DtorEos \/ DtorTimeout \/ DtorClear
    BY <2>5, <2>0 DEF DtorSize, DtorEos, DtorTimeout, DtorClear
  <2>6. CASE DtorSignal
    BY <2>6, <2>0 DEF DtorSignal, Fault
  <2>7. CASE DtorFree
    BY <2>7, <2>0 DEF DtorFree, Fault
  <2>8. CASE Leave \/ Interrupt
    BY <2>8, <2>0 DEF Leave, Interrupt
  \* a worker's own step, before its end: the buckets of the others stay
  <2>w. ASSUME NEW t \in Worker, NEW p, tpc' = [tpc EXCEPT ![t] = p], p \notin {"none", "start", "post"},
               \A u \in Worker : u # t => bucket'[u] = bucket[u]
        PROVE  IdleInv'
    BY <2>w, <2>a
  <2>9. ASSUME NEW t \in Worker, WorkerStep(t) PROVE IdleInv'
    <3>1. CASE Enter(t)
      <4>1. PICK p \in {"preload", "loop"} : tpc' = [tpc EXCEPT ![t] = p]
        BY <3>1 DEF Enter
      <4> QED
        BY <3>1, <4>1, <2>w DEF Enter
    <3>2. CASE Loop(t)
      <4>1. PICK p \in {"fetch", "drain"} : tpc' = [tpc EXCEPT ![t] = p]
        BY <3>2 DEF Loop
      <4> QED
        BY <3>2, <4>1, <2>w DEF Loop
    <3>3. CASE FetchNone(t)
      <4>1. PICK p \in {"io", "loop", "drain"} : tpc' = [tpc EXCEPT ![t] = p]
        BY <3>3 DEF FetchNone
      <4> QED
        BY <3>3, <4>1, <2>w DEF FetchNone
    <3>4. CASE FetchEos(t)
      <4>1. PICK p \in {"loop", "drain"} : tpc' = [tpc EXCEPT ![t] = p]
        BY <3>4 DEF FetchEos
      <4> QED
        BY <3>4, <4>1, <2>w DEF FetchEos
    <3>5. CASE Fetch(t)
      BY <3>5, <2>w DEF Fetch
    <3>6. CASE Put(t)
      <4>1. PICK p \in {"io", "preload", "loop"} : tpc' = [tpc EXCEPT ![t] = p]
        BY <3>6 DEF Put
      <4>2. \A u \in Worker : u # t => bucket'[u] = bucket[u]
        BY <3>6, <2>a DEF Put
      <4> QED
        BY <4>1, <4>2, <2>w
    <3>7. CASE Spin(t)
      BY <3>7, <2>w DEF Spin
    <3>8. CASE SelectError(t)
      <4>1. PICK p \in {"loop", "drain"} : tpc' = [tpc EXCEPT ![t] = p]
        BY <3>8 DEF SelectError
      <4> QED
        BY <3>8, <4>1, <2>w DEF SelectError
    <3>9. CASE CloseAll(t)
      BY <3>9, <2>a, <2>w DEF CloseAll, DeleteAll
    <3>10. CASE Sweep(t)
      <4>1. tpc[t] = "sweep" /\ UNCHANGED tpc /\ \A u \in Worker : u # t => bucket'[u] = bucket[u]
        BY <3>10, <2>a DEF Sweep
      <4> QED
        BY <4>1
    <3>11. CASE SweepEnd(t)
      BY <3>11, <2>w DEF SweepEnd
    <3>12. CASE Drain(t)
      BY <3>12, <2>a DEF Drain, DeleteAll
    <3>13. CASE UseDeleted(t)
      BY <3>13, <2>0 DEF UseDeleted, Fault
    <3>14. CASE Post(t)
      BY <3>14, <2>a DEF Post
    <3> QED
      BY <2>9, <3>1, <3>2, <3>3, <3>4, <3>5, <3>6, <3>7, <3>8, <3>9, <3>10, <3>11, <3>12, <3>13, <3>14 DEF WorkerStep
  <2>10. CASE UNCHANGED vars
    BY <2>10, <2>0 DEF vars
  <2> QED
    BY <2>hang, <2>1, <2>2, <2>3, <2>4, <2>5, <2>6, <2>7, <2>8, <2>9, <2>10 DEF Next, MainRuns, Main, WorkerRuns, Environment, Over
<1> QED
  BY <1>1, <1>2, TypeInvariant, PTL DEF Spec

\* When main is done and nothing was shed, a context is left only with a worker
\* that still runs, and none when every worker counted in is counted out.
THEOREM NoneLeftAtEndHolds == Spec => []NoneLeftAtEnd
<1>1. TypeInv /\ OwnInv /\ Accounts /\ EndInv /\ IdleInv => NoneLeftAtEnd
  <2> SUFFICES ASSUME TypeInv, OwnInv, Accounts, EndInv, IdleInv, mpc = "end", ~shed
               PROVE  /\ live \subseteq UNION {Elems(bucket[t]) \cup {hand[t]} : t \in Existing}
                      /\ nalive = 0 => live = {}
    BY DEF NoneLeftAtEnd
  <2>1. Owned /\ Elems(q) = {} /\ Null \notin live
    BY EmptyOnce, CtxPoolAssumption DEF OwnInv, EndInv, TypeInv, TypeOK
  <2>2. \A t \in Worker : tpc[t] \in {"none", "start"} => Elems(bucket[t]) = {} /\ hand[t] = Null
    BY EmptyOnce DEF IdleInv, TypeInv, HandFull
  <2>3. ASSUME NEW c \in live PROVE \E t \in Counted : c \in Elems(bucket[t]) \cup {hand[t]}
    BY <2>1, <2>2 DEF Owned, Counted
  <2>4. Counted \subseteq Existing
    BY DEF Counted, Existing
  <2>5. ASSUME nalive = 0 PROVE Counted = {}
    <3>1. IsFiniteSet(Counted)
      BY CtxPoolAssumption, FS_Subset DEF Counted
    <3>2. nalive >= Cardinality(Counted) /\ Cardinality(Counted) \in Nat
      BY <3>1, FS_CardinalityType DEF Accounts, PoolCleared
    <3> QED
      BY <2>5, <3>1, <3>2, FS_EmptySet
  <2> QED
    BY <2>3, <2>4, <2>5
<1> QED
  BY <1>1, TypeInvariant, Ownership, Accounting, Ending, Idleness, PTL

-----------------------------------------------------------------------------
(* The engine implements the service.                                      *)

Serves(h, b, t, c) == h[t] = c \/ c \in Elems(b[t])
Chosen(serving) == IF serving = {} THEN Null ELSE CHOOSE t \in serving : TRUE
TheServer(h, b, c) == Chosen({t \in Worker : Serves(h, b, t, c)})

\* With one holder, the CHOOSE of ServerOf is that holder.
LEMMA OneServer ==
  ASSUME NEW h, NEW b, NEW c
  PROVE  /\ (\A t \in Worker : ~Serves(h, b, t, c)) => TheServer(h, b, c) = Null
         /\ \A t \in Worker :
              Serves(h, b, t, c) /\ (\A u \in Worker : Serves(h, b, u, c) => u = t)
                => TheServer(h, b, c) = t
<1>1. ASSUME \A t \in Worker : ~Serves(h, b, t, c) PROVE TheServer(h, b, c) = Null
  BY <1>1 DEF TheServer, Chosen
<1>2. ASSUME NEW t \in Worker, Serves(h, b, t, c), \A u \in Worker : Serves(h, b, u, c) => u = t
      PROVE  TheServer(h, b, c) = t
  <2>1. {u \in Worker : Serves(h, b, u, c)} = {t}
    BY <1>2
  <2>2. (CHOOSE u \in {t} : TRUE) = t /\ {t} # {}
    OBVIOUS
  <2> QED
    BY <2>1, <2>2 DEF TheServer, Chosen
<1> QED
  BY <1>1, <1>2

\* Two placements of the contexts with the same holders have the same servers.
LEMMA SameServers ==
  ASSUME NEW h, NEW b, NEW g, NEW a, NEW c, \A t \in Worker : Serves(h, b, t, c) <=> Serves(g, a, t, c)
  PROVE  TheServer(h, b, c) = TheServer(g, a, c)
<1>1. {t \in Worker : Serves(h, b, t, c)} = {t \in Worker : Serves(g, a, t, c)}
  OBVIOUS
<1> QED
  BY <1>1 DEF TheServer

\* With Owned, a context has at most one server, and a queued or unused address none.
LEMMA OwnedServer ==
  ASSUME NEW Q, NEW L, NEW h, NEW b, NEW c \in Ctx,
         \A t \in Worker : h[t] \in L \cup {Null} /\ Elems(b[t]) \subseteq L,
         \A t \in Worker : h[t] # Null => h[t] \notin Q,
         \A t \in Worker : Elems(b[t]) \cap Q = {},
         \A t, u \in Worker : h[t] \notin Elems(b[u]),
         \A t, u \in Worker : t # u => h[t] = Null \/ h[t] # h[u],
         \A t, u \in Worker : t # u => Elems(b[t]) \cap Elems(b[u]) = {}
  PROVE  /\ c \notin L \/ c \in Q => TheServer(h, b, c) = Null
         /\ \A t \in Worker : Serves(h, b, t, c) => TheServer(h, b, c) = t
<1>0. c # Null
  BY CtxPoolAssumption
<1>1. ASSUME c \notin L \/ c \in Q PROVE \A t \in Worker : ~Serves(h, b, t, c)
  BY <1>0, <1>1 DEF Serves
<1>2. ASSUME NEW t \in Worker, Serves(h, b, t, c), NEW u \in Worker, Serves(h, b, u, c) PROVE u = t
  BY <1>0, <1>2 DEF Serves
<1> QED
  BY <1>1, <1>2, OneServer

\* A worker's deletes take contexts from its bucket and give them to nobody.
LEMMA Finished ==
  ASSUME TypeInv, Owned, Owned', NEW t \in Worker, NEW gone \in SUBSET Ctx, gone \subseteq Elems(bucket[t]),
         live' = live \ gone, hand' = hand, Elems(bucket'[t]) = Elems(bucket[t]) \ gone,
         \A u \in Worker : u # t => bucket'[u] = bucket[u]
  PROVE  /\ \A c \in gone : TheServer(hand, bucket, c) = t
         /\ \A c \in Ctx : TheServer(hand', bucket', c) =
                             IF c \in gone THEN Null ELSE TheServer(hand, bucket, c)
<1>1. ASSUME NEW c \in gone PROVE TheServer(hand, bucket, c) = t
  <2>1. Serves(hand, bucket, t, c) /\ c \in Ctx
    BY DEF Serves
  <2> QED
    BY <2>1, OwnedServer DEF Owned
<1>2. ASSUME NEW c \in gone PROVE TheServer(hand', bucket', c) = Null
  <2>1. c \notin live'
    OBVIOUS
  <2> QED
    BY <2>1, OwnedServer, SMTT(30) DEF Owned
<1>3. ASSUME NEW c \in Ctx, c \notin gone PROVE TheServer(hand', bucket', c) = TheServer(hand, bucket, c)
  <2>1. \A u \in Worker : Serves(hand', bucket', u, c) <=> Serves(hand, bucket, u, c)
    BY <1>3 DEF Serves
  <2> QED
    BY <2>1, SameServers
<1> QED
  BY <1>1, <1>2, <1>3

\* A refused push is not forgotten.
LEMMA RefusedStays ==
  ASSUME [Next]_vars, shed
  PROVE  shed'
<1> USE DEF queueVars, mainVars, poolVars, workerVars
<1>1. CASE Create \/ Poll \/ Accept \/ Reject \/ InRange \/ Overflow \/ Grow
  BY <1>1 DEF Create, Poll, Accept, Reject, InRange, Overflow, Grow
<1>2. CASE Shed \/ DtorSignal \/ DtorHang \/ DtorFree \/ UseAfterDtor
  BY <1>2 DEF Shed, DtorSignal, DtorHang, DtorFree, UseAfterDtor, Fault
<1>3. CASE DtorSize \/ DtorEos \/ DtorTimeout \/ DtorClear \/ Leave \/ Interrupt
  BY <1>3 DEF DtorSize, DtorEos, DtorTimeout, DtorClear, Leave, Interrupt
<1>4. ASSUME NEW t \in Worker, WorkerStep(t) PROVE shed'
  <2>1. CASE Enter(t) \/ Loop(t) \/ FetchNone(t) \/ FetchEos(t) \/ Fetch(t) \/ Put(t)
    BY <2>1 DEF Enter, Loop, FetchNone, FetchEos, Fetch, Put
  <2>2. CASE Spin(t) \/ SelectError(t) \/ CloseAll(t) \/ Sweep(t) \/ SweepEnd(t) \/ Post(t)
    BY <2>2 DEF Spin, SelectError, CloseAll, Sweep, SweepEnd, Post
  <2>3. CASE Drain(t) \/ UseDeleted(t)
    BY <2>3 DEF Drain, UseDeleted, Fault
  <2> QED
    BY <1>4, <2>1, <2>2, <2>3 DEF WorkerStep
<1>5. CASE UNCHANGED vars
  BY <1>5 DEF vars
<1> QED
  BY <1>1, <1>2, <1>3, <1>4, <1>5 DEF Next, MainRuns, Main, WorkerRuns, Environment, Over

\* The engine implements ConnService: first come first served, each connection by
\* one worker that alone finishes it, until a push is refused.
THEOREM ServiceImplemented == Spec => ImplementsService
<1> USE CtxPoolAssumption
<1>0. \A c : ServerOf(c) = TheServer(hand, bucket, c)
  BY DEF ServerOf, TheServer, Chosen, Serves
<1>1. Init => Service!Init
  <2> SUFFICES ASSUME Init PROVE Service!Init
    OBVIOUS
  <2>1. ASSUME NEW c \in Ctx PROVE ServerOf(c) = Null
    <3>1. \A t \in Worker : ~Serves(hand, bucket, t, c)
      BY EmptyOnce DEF Init, Serves
    <3> QED
      BY <1>0, <3>1, OneServer
  <2> QED
    BY <2>1 DEF Init, Service!Init
<1>2. /\ TypeInv /\ OwnInv /\ EndInv
      /\ TypeInv' /\ OwnInv'
      /\ [Next]_vars
      => [Service!Next]_(Service!vars)
  <2> SUFFICES ASSUME TypeInv, OwnInv, EndInv, TypeInv', OwnInv', [Next]_vars
               PROVE  [Service!Next]_(Service!vars)
    OBVIOUS
  <2> USE DEF queueVars, mainVars, poolVars, workerVars
  <2>a. /\ q \in Seq(Ctx \cup {Null}) /\ live \subseteq Ctx /\ Null \notin live
        /\ hand \in [Worker -> Ctx \cup {Null}] /\ bucket \in [Worker -> Seq(Ctx)]
        /\ alive \in BOOLEAN /\ alive' \in BOOLEAN /\ shed \in BOOLEAN /\ shed' \in BOOLEAN
    BY DEF TypeInv, TypeOK
  <2>b. CASE shed'
    BY <2>a, <2>b DEF Service!Next, Service!Break
  <2>d. SUFFICES ASSUME shed = FALSE, shed' = FALSE
                 PROVE  [Service!Next]_(Service!vars)
    BY <2>a, <2>b, RefusedStays
  <2>e. Owned /\ Owned'
    BY <2>d DEF OwnInv
  <2>f. /\ \A c : ServerOf(c) = TheServer(hand, bucket, c)
        /\ \A c : ServerOf(c)' = TheServer(hand', bucket', c)
    BY DEF ServerOf, TheServer, Chosen, Serves
  \* a step that changes the server of nobody
  <2>g. ASSUME \A c \in Ctx : TheServer(hand', bucket', c) = TheServer(hand, bucket, c)
        PROVE  UNCHANGED [c \in Ctx |-> ServerOf(c)]
    BY <2>f, <2>g
  <2>h. ASSUME UNCHANGED <<hand, bucket>> PROVE UNCHANGED [c \in Ctx |-> ServerOf(c)]
    BY <2>g, <2>h
  \* a step the service does not see
  <2>0. ASSUME UNCHANGED <<q, hand, bucket, alive>> PROVE UNCHANGED Service!vars
    BY <2>0, <2>h, <2>d DEF Service!vars
  <2>hang. CASE DtorHang
    BY <2>hang, <2>0, HangStep
  <2>1. CASE Create
    <3>1. UNCHANGED <<q, hand, bucket, alive>>
      BY <2>1 DEF Create, AddThread
    <3> QED
      BY <3>1, <2>0
  <2>2. CASE Grow
    <3>1. UNCHANGED <<q, hand, bucket, alive>>
      BY <2>2 DEF Grow, AddThread
    <3> QED
      BY <3>1, <2>0
  <2>3. CASE Poll \/ Reject \/ InRange \/ Overflow
    BY <2>3, <2>0 DEF Poll, Reject, InRange, Overflow
  <2>4. CASE Accept
    <3>1. PICK c \in Ctx \ live : q' = Append(q, c)
      BY <2>4 DEF Accept
    <3>2. UNCHANGED <<hand, bucket, alive>>
      BY <2>4 DEF Accept
    <3>3. TheServer(hand, bucket, c) = Null
      BY <2>e, OwnedServer DEF Owned
    <3>4. \A i \in 1..Len(q) : q[i] # c
      BY <2>a, <2>e DEF Owned, Elems
    <3>5. Service!Arrive
      BY <2>f, <2>h, <3>1, <3>2, <3>3, <3>4 DEF Service!Arrive, Service!InLine
    <3> QED
      BY <3>5, <2>d DEF Service!Next
  <2>5. CASE Shed \/ UseAfterDtor
    <3>1. UNCHANGED <<q, hand, bucket, alive>>
      BY <2>5 DEF Shed, UseAfterDtor, Fault
    <3> QED
      BY <3>1, <2>0
  <2>6. CASE DtorSize \/ DtorTimeout \/ DtorClear
    BY <2>6, <2>0 DEF DtorSize, DtorTimeout, DtorClear
  <2>7. CASE DtorSignal
    <3>1. UNCHANGED <<q, hand, bucket, alive>>
      BY <2>7 DEF DtorSignal, Fault
    <3> QED
      BY <3>1, <2>0
  <2>8. CASE DtorEos
    <3>1. ~alive /\ UNCHANGED <<hand, bucket, alive>>
      BY <2>8 DEF DtorEos, EndInv
    <3>2. CASE q' = Append(q, Null)
      <4>1. Service!Mark
        BY <2>h, <3>1, <3>2 DEF Service!Mark
      <4> QED
        BY <4>1, <2>d DEF Service!Next
    <3>3. CASE UNCHANGED q
      BY <3>1, <3>3, <2>0
    <3> QED
      BY <2>8, <3>2, <3>3 DEF DtorEos
  <2>9. CASE DtorFree
    <3>1. ~alive /\ UNCHANGED <<hand, bucket, alive>> /\ (q' = <<>> \/ UNCHANGED q)
      BY <2>9 DEF DtorFree, Fault, EndInv
    <3>2. CASE q' = <<>>
      <4>1. Service!Abandon
        BY <2>h, <3>1, <3>2 DEF Service!Abandon
      <4> QED
        BY <4>1, <2>d DEF Service!Next
    <3> QED
      BY <3>1, <3>2, <2>0
  <2>10. CASE Leave \/ Interrupt
    <3>1. alive' = FALSE /\ UNCHANGED <<q, hand, bucket>>
      BY <2>10 DEF Leave, Interrupt
    <3>2. Service!Stop
      BY <3>1, <2>h DEF Service!Stop
    <3> QED
      BY <3>2, <2>d DEF Service!Next
  <2>11. ASSUME NEW t \in Worker, WorkerStep(t) PROVE [Service!Next]_(Service!vars)
    <3>1. CASE Enter(t) \/ Loop(t) \/ FetchNone(t) \/ Spin(t) \/ SelectError(t) \/ SweepEnd(t) \/ Post(t)
      BY <3>1, <2>0 DEF Enter, Loop, FetchNone, Spin, SelectError, SweepEnd, Post
    <3>2. CASE UseDeleted(t)
      BY <3>2, <2>0 DEF UseDeleted, Fault
    <3>3. CASE FetchEos(t)
      <4>1. q # <<>> /\ Head(q) = Null /\ q' = Tail(q) /\ UNCHANGED <<hand, bucket, alive>>
        BY <3>3 DEF FetchEos
      <4>2. Service!Discard
        BY <4>1, <2>h DEF Service!Discard
      <4> QED
        BY <4>2, <2>d DEF Service!Next
    <3>4. CASE Fetch(t)
      <4> DEFINE x == Head(q)
      <4>1. /\ q # <<>> /\ x # Null /\ q' = Tail(q) /\ hand' = [hand EXCEPT ![t] = x]
            /\ UNCHANGED <<bucket, alive>>
        BY <3>4 DEF Fetch
      <4>2. hand[t] = Null /\ x \in Ctx
        BY <3>4, <4>1, <2>a, HeadTailProperties DEF Fetch, TypeInv, HandFull
      <4> HIDE DEF x
      <4>3. TheServer(hand', bucket', x) = t
        <5>1. Serves(hand', bucket', t, x)
          BY <4>1, <2>a DEF Serves
        <5>2. /\ \A u \in Worker : hand'[u] \in live' \cup {Null} /\ Elems(bucket'[u]) \subseteq live'
              /\ \A u \in Worker : hand'[u] # Null => hand'[u] \notin Elems(q')
              /\ \A u \in Worker : Elems(bucket'[u]) \cap Elems(q') = {}
              /\ \A u, v \in Worker : hand'[u] \notin Elems(bucket'[v])
              /\ \A u, v \in Worker : u # v => hand'[u] = Null \/ hand'[u] # hand'[v]
              /\ \A u, v \in Worker : u # v => Elems(bucket'[u]) \cap Elems(bucket'[v]) = {}
          BY <2>e DEF Owned
        <5> QED
          BY <4>2, <5>1, <5>2, OwnedServer
      <4>4. ASSUME NEW c \in Ctx, c # x PROVE TheServer(hand', bucket', c) = TheServer(hand, bucket, c)
        <5>1. \A u \in Worker : Serves(hand', bucket', u, c) <=> Serves(hand, bucket, u, c)
          BY <4>1, <4>2, <4>4, <2>a DEF Serves
        <5> QED
          BY <5>1, SameServers
      <4>5. [c \in Ctx |-> ServerOf(c)]' = [[c \in Ctx |-> ServerOf(c)] EXCEPT ![x] = t]
        BY <2>f, <4>2, <4>3, <4>4
      <4>6. Service!Take
        BY <4>1, <4>5 DEF Service!Take, x
      <4> QED
        BY <4>6, <2>d DEF Service!Next
    <3>5. CASE Put(t)
      <4>1. /\ bucket' = [bucket EXCEPT ![t] = Append(bucket[t], hand[t])]
            /\ hand' = [hand EXCEPT ![t] = Null] /\ UNCHANGED <<q, alive>>
        BY <3>5 DEF Put
      <4>2. hand[t] \in Ctx
        BY <3>5, <2>a DEF Put, TypeInv, HandFull
      <4>3. Elems(bucket'[t]) = Elems(bucket[t]) \cup {hand[t]}
        BY <4>1, <4>2, <2>a, AppendOnce
      <4>4. ASSUME NEW c \in Ctx PROVE TheServer(hand', bucket', c) = TheServer(hand, bucket, c)
        <5>1. \A u \in Worker : Serves(hand', bucket', u, c) <=> Serves(hand, bucket, u, c)
          BY <4>1, <4>3, <2>a, CtxPoolAssumption DEF Serves
        <5> QED
          BY <5>1, SameServers
      <4> QED
        BY <4>1, <4>4, <2>d, <2>g DEF Service!vars
    <3>6. ASSUME NEW gone \in SUBSET Ctx, gone \subseteq Elems(bucket[t]), live' = live \ gone,
                 hand' = hand, q' = q, Elems(bucket'[t]) = Elems(bucket[t]) \ gone,
                 \A u \in Worker : u # t => bucket'[u] = bucket[u], (~alive)' \in {~alive, TRUE}
          PROVE  Service!Next
      <4>1. /\ \A c \in gone : TheServer(hand, bucket, c) = t
            /\ \A c \in Ctx : TheServer(hand', bucket', c) =
                                IF c \in gone THEN Null ELSE TheServer(hand, bucket, c)
        BY <3>6, <2>e, Finished
      <4>2. gone \in SUBSET {c \in Ctx : [d \in Ctx |-> ServerOf(d)][c] = t}
        BY <2>f, <4>1
      <4>3. [c \in Ctx |-> ServerOf(c)]' =
              [c \in Ctx |-> IF c \in gone THEN Null ELSE [d \in Ctx |-> ServerOf(d)][c]]
        BY <2>f, <4>1
      <4>4. Service!Finish
        BY <3>6, <4>2, <4>3 DEF Service!Finish
      <4> QED
        BY <4>4, <2>d DEF Service!Next
    <3>7. CASE CloseAll(t) \/ Drain(t)
      <4>1. DeleteAll(t) /\ UNCHANGED <<q, hand>>
        BY <3>7 DEF CloseAll, Drain
      <4>2. (~alive)' \in {~alive, TRUE}
        BY <3>7, <2>a DEF CloseAll, Drain
      <4>3. bucket'[t] = <<>> /\ \A u \in Worker : u # t => bucket'[u] = bucket[u]
        BY <4>1, <2>a DEF DeleteAll
      <4>4. Elems(bucket[t]) \subseteq Ctx /\ Elems(bucket'[t]) = {}
        BY <4>3, <2>a, <2>e, EmptyOnce DEF Owned
      <4> QED
        BY <3>6, <4>1, <4>2, <4>3, <4>4 DEF DeleteAll
    <3>8. CASE Sweep(t)
      <4> DEFINE k == idx[t]
                 c == bucket[t][k]
      <4>1. UNCHANGED <<q, hand, alive>>
        BY <3>8 DEF Sweep
      <4>2. CASE UNCHANGED <<live, bucket>>
        BY <4>1, <4>2, <2>0
      <4>3. CASE live' = live \ {c} /\ bucket' = [bucket EXCEPT ![t] = SwapRemove(bucket[t], k)]
        <5>1. k \in 1..Len(bucket[t]) /\ c \in live
          BY <3>8, <2>a, LenProperties DEF Sweep, TypeInv, TypeOK, SweepSlot
        <5>2. Elems(bucket'[t]) = Elems(bucket[t]) \ {c} /\ \A u \in Worker : u # t => bucket'[u] = bucket[u]
          BY <4>3, <5>1, <2>a, <2>e, SwapRemoveOnce DEF Owned
        <5>3. c \in Elems(bucket[t]) /\ {c} \in SUBSET Ctx
          BY <5>1, <2>a DEF Elems
        <5> QED
          BY <3>6, <4>1, <4>3, <5>2, <5>3
      <4> QED
        BY <3>8, <4>2, <4>3 DEF Sweep
    <3> QED
      BY <2>11, <3>1, <3>2, <3>3, <3>4, <3>5, <3>7, <3>8 DEF WorkerStep
  <2>12. CASE UNCHANGED vars
    BY <2>12, <2>0 DEF vars
  <2> QED
    BY <2>hang, <2>1, <2>2, <2>3, <2>4, <2>5, <2>6, <2>7, <2>8, <2>9, <2>10, <2>11, <2>12 DEF Next, MainRuns, Main, WorkerRuns, Environment, Over
<1> QED
  BY <1>1, <1>2, TypeInvariant, Ownership, Ending, PTL DEF Spec, ImplementsService, Service!Spec
=============================================================================
