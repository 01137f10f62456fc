-------------------------- MODULE CtxPool_proofs --------------------------
(***************************************************************************)
(* Theorems about CtxPool, for every number of contexts and workers and    *)
(* every size of the queue, the pool and the buckets.                      *)
(***************************************************************************)
EXTENDS CtxPool, TLAPS, SequenceTheorems

\* A worker has a context in its hand exactly between Fetch and Put.
HandFull == \A t \in Worker : tpc[t] = "put" <=> hand[t] # Null

\* The sweep counts from the first slot.
SweepSlot == \A t \in Worker : tpc[t] = "sweep" => idx[t] >= 1

TypeInv == TypeOK /\ HandFull /\ SweepSlot

\* Bucket<T>::remove leaves a bucket that is one shorter.
LEMMA SwapRemoveType ==
  ASSUME NEW S, NEW s \in Seq(S), NEW k \in 1..Len(s)
  PROVE  /\ SwapRemove(s, k) \in Seq(S)
         /\ Len(SwapRemove(s, k)) = Len(s) - 1
         /\ \A i \in 1..(Len(s) - 1) :
              SwapRemove(s, k)[i] = IF i = k THEN s[Len(s)] ELSE s[i]
  <1>1. Len(s) - 1 \in Nat
    BY LenProperties, SMT
  <1>2. \A i \in 1..(Len(s) - 1) : (IF i = k THEN s[Len(s)] ELSE s[i]) \in S
    BY ElementOfSeq, LenProperties, SMT
  <1>3. SwapRemove(s, k) \in [1..(Len(s) - 1) -> S]
    BY <1>2 DEF SwapRemove
  <1>4. SwapRemove(s, k) \in Seq(S)
    BY <1>1, <1>3, SeqDef
  <1>5. Len(SwapRemove(s, k)) = Len(s) - 1
    BY <1>1, <1>3, <1>4, LenProperties, SMT
  <1> QED
    BY <1>4, <1>5 DEF SwapRemove

\* vector::erase leaves a sequence over the same set.
LEMMA EraseAtType ==
  ASSUME NEW S, NEW s \in Seq(S), NEW k \in 1..Len(s)
  PROVE  EraseAt(s, k) \in Seq(S)
  <1>1. SubSeq(s, 1, k - 1) \in Seq(S)
    BY SubSeqProperties, ElementOfSeq, LenProperties, SMT
  <1>2. SubSeq(s, k + 1, Len(s)) \in Seq(S)
    BY SubSeqProperties, ElementOfSeq, LenProperties, SMT
  <1> QED
    BY <1>1, <1>2, ConcatProperties DEF EraseAt

\* The step into the lock cycle stops one worker between its start and its end,
\* and moves no context.
LEMMA HangStep ==
  ASSUME TypeInv, DtorHang
  PROVE  /\ mpc = "signal" /\ mpc' = "hang"
         /\ UNCHANGED <<q, live, pctx, made, nsig, pool, nalive, dynamic, hand, bucket,
                        idx, alive, shed, fault>>
         /\ open' \subseteq open /\ bstop' \in [Worker -> BOOLEAN]
         /\ \E t \in Worker : /\ tpc[t] \in {"sweep", "io", "drain"}
                             /\ tpc' = [tpc EXCEPT ![t] = "hang"]
<1>1. PICK k \in 1..nsig :
        /\ Deleting(pool[k])
        /\ open' = open \ UNION {Elems(bucket[pool[i]]) : i \in 1..(k - 1)}
        /\ bstop' = [t \in Worker |-> bstop[t] \/ \E i \in 1..k : pool[i] = t]
        /\ tpc' = [tpc EXCEPT ![pool[k]] = "hang"]
  BY DEF DtorHang
<1>2. pool[k] \in Worker
  BY ElementOfSeq, LenProperties, SMT DEF DtorHang, TypeInv, TypeOK
<1>3. bstop' \in [Worker -> BOOLEAN] /\ open' \subseteq open
  BY <1>1
<1>4. tpc[pool[k]] \in {"sweep", "io", "drain"}
  BY <1>1 DEF Deleting
<1> QED
  BY <1>1, <1>2, <1>3, <1>4 DEF DtorHang, poolVars

\* Every variable keeps its type, whatever the main thread, a worker or the
\* environment does, and a hand is full only on the way to a bucket.
THEOREM TypeInvariant == Spec => []TypeInv
<1> USE CtxPoolAssumption
<1>1. Init => TypeInv
  <2> SUFFICES ASSUME Init PROVE TypeInv
    OBVIOUS
  <2>1. q \in Seq(Ctx \cup {Null}) /\ pool \in Seq(Worker) /\ bucket \in [Worker -> Seq(Ctx)]
    BY EmptySeq DEF Init
  <2>2. made \in 0..MinThreads /\ nsig \in Nat /\ nalive \in Int /\ idx \in [Worker -> Nat]
    BY DEF Init
  <2>3. HandFull /\ SweepSlot
    BY DEF Init, HandFull, SweepSlot
  <2> QED
    BY <2>1, <2>2, <2>3 DEF Init, TypeInv, TypeOK, MainPoints, WorkerPoints, Faults
<1>2. TypeInv /\ [Next]_vars => TypeInv'
  <2> SUFFICES ASSUME TypeInv, [Next]_vars PROVE TypeInv'
    OBVIOUS
  <2> USE DEF TypeInv, TypeOK, HandFull, SweepSlot, MainPoints, WorkerPoints, Faults, queueVars, mainVars, poolVars, workerVars
  <2>0. ASSUME NEW t \in Worker, NEW dyn \in BOOLEAN, AddThread(t, dyn)
        PROVE  /\ pool' \in Seq(Worker) /\ nalive' \in Int
               /\ tpc' \in [Worker -> WorkerPoints] /\ dynamic' \in [Worker -> BOOLEAN]
               /\ UNCHANGED <<bstop, hand, bucket, idx>>
               /\ HandFull' /\ SweepSlot'
    BY <2>0, AppendProperties DEF AddThread
  <2>1. CASE Create
    <3>1. CASE made < MinThreads
      <4>1. made' \in 0..MinThreads
        BY <2>1, <3>1 DEF Create
      <4>2. CASE Len(pool) < MaxThreads /\ \E t \in Worker : AddThread(t, FALSE)
        BY <2>0, <2>1, <3>1, <4>1, <4>2 DEF Create
      <4>3. CASE UNCHANGED <<poolVars, workerVars>>
        BY <2>1, <3>1, <4>1, <4>3 DEF Create
      <4> QED
        BY <2>1, <3>1, <4>2, <4>3 DEF Create
    <3>2. CASE ~(made < MinThreads)
      BY <2>1, <3>2 DEF Create
    <3> QED
      BY <3>1, <3>2
  <2>2. CASE Poll
    BY <2>2 DEF Poll
  <2>3. CASE Accept
    BY <2>3 DEF Accept
  <2>4. CASE Reject
    BY <2>4 DEF Reject
  <2>5. CASE InRange
    BY <2>5 DEF InRange
  <2>6. CASE Overflow
    BY <2>6 DEF Overflow
  <2>7. CASE Grow
    <3>1. CASE Len(pool) < MaxThreads /\ \E t \in Worker : AddThread(t, TRUE)
      BY <2>0, <2>7, <3>1 DEF Grow
    <3>2. CASE UNCHANGED <<poolVars, workerVars>>
      BY <2>7, <3>2 DEF Grow
    <3> QED
      BY <2>7, <3>1, <3>2 DEF Grow
  <2>8. CASE Shed
    BY <2>8 DEF Shed, Fault
  <2>9. CASE DtorSize
    BY <2>9 DEF DtorSize
  <2>10. CASE DtorSignal
    <3> DEFINE signalled == {pool[i] : i \in 1..nsig}
               cleared == UNION {Elems(bucket[t]) : t \in signalled}
    <3> HIDE DEF signalled, cleared
    <3>1. CASE Fault("thread") \/ Fault("context")
      BY <3>1 DEF Fault
    <3>2. CASE /\ bstop' = [t \in Worker |-> IF t \in signalled THEN TRUE ELSE bstop[t]]
               /\ open' = open \ cleared
               /\ mpc' = "eos" /\ nsig' = 0
               /\ UNCHANGED <<q, live, pctx, made, poolVars, tpc, dynamic, hand,
                              bucket, idx, alive, shed, fault>>
      BY <3>2
    <3> QED
      BY <2>10, <3>1, <3>2 DEF DtorSignal, signalled, cleared
  <2>11. CASE DtorEos
    <3>1. CASE q' = Append(q, Null) /\ UNCHANGED mpc
      BY <2>11, <3>1, AppendProperties DEF DtorEos
    <3>2. CASE mpc' = "clear" /\ UNCHANGED q
      BY <2>11, <3>2 DEF DtorEos
    <3> QED
      BY <2>11, <3>1, <3>2 DEF DtorEos
  <2>12. CASE DtorTimeout
    BY <2>12 DEF DtorTimeout
  <2>13. CASE DtorClear
    BY <2>13 DEF DtorClear
  <2>14. CASE DtorFree
    <3> DEFINE left == Elems(q) \ {Null}
    <3> HIDE DEF left
    <3>1. CASE Fault("context")
      BY <3>1 DEF Fault
    <3>2. CASE /\ live' = live \ left /\ open' = open \ left /\ q' = <<>>
               /\ mpc' = "end"
               /\ UNCHANGED <<pctx, made, nsig, poolVars, workerVars, alive, shed, fault>>
      BY <3>2, EmptySeq
    <3> QED
      BY <2>14, <3>1, <3>2 DEF DtorFree, left
  <2>15. CASE Leave
    BY <2>15 DEF Leave
  <2>16. CASE Interrupt
    BY <2>16 DEF Interrupt
  <2>17. CASE UseAfterDtor
    BY <2>17 DEF UseAfterDtor, Fault
  <2>18. ASSUME NEW t \in Worker, Enter(t) PROVE TypeInv'
    BY <2>18 DEF Enter
  <2>19. ASSUME NEW t \in Worker, Loop(t) PROVE TypeInv'
    BY <2>19 DEF Loop
  <2>20. ASSUME NEW t \in Worker, FetchNone(t) PROVE TypeInv'
    BY <2>20 DEF FetchNone
  <2>21. ASSUME NEW t \in Worker, FetchEos(t) PROVE TypeInv'
    BY <2>21 DEF FetchEos, Room
  <2>22. ASSUME NEW t \in Worker, Fetch(t) PROVE TypeInv'
    BY <2>22, SMTT(30) DEF Fetch, Room
  <2>23. ASSUME NEW t \in Worker, Put(t) PROVE TypeInv'
    <3>1. hand[t] \in Ctx
      BY <2>23 DEF Put
    <3>2. bucket' \in [Worker -> Seq(Ctx)]
      BY <2>23, <3>1, AppendProperties DEF Put
    <3>3. \E p \in {"io", "preload", "loop"} : tpc' = [tpc EXCEPT ![t] = p]
      BY <2>23 DEF Put
    <3>4. tpc' \in [Worker -> WorkerPoints] /\ HandFull' /\ hand' \in [Worker -> Ctx \cup {Null}]
      BY <2>23, <3>3 DEF Put
    <3>5. idx' \in [Worker -> Nat] /\ \A u \in Worker : u # t => idx'[u] = idx[u]
      <4>1. CASE UNCHANGED idx
        BY <4>1
      <4>2. CASE idx' = [idx EXCEPT ![t] = 0]
        BY <4>2
      <4> QED
        BY <2>23, <4>1, <4>2 DEF Put
    <3>7. SweepSlot'
      <4>1. ASSUME NEW u \in Worker, tpc'[u] = "sweep" PROVE u # t /\ tpc[u] = "sweep"
        <5>1. PICK p \in {"io", "preload", "loop"} : tpc' = [tpc EXCEPT ![t] = p]
          BY <3>3
        <5>2. tpc'[t] # "sweep"
          BY <5>1
        <5> QED
          BY <4>1, <5>1, <5>2
      <4> QED
        BY <3>5, <4>1
    <3>6. UNCHANGED <<queueVars, mainVars, poolVars, dynamic, bstop, alive, shed, fault>>
      BY <2>23 DEF Put
    <3> QED
      BY <3>2, <3>4, <3>5, <3>6, <3>7
  <2>24. ASSUME NEW t \in Worker, Spin(t) PROVE TypeInv'
    BY <2>24 DEF Spin
  <2>25. ASSUME NEW t \in Worker, SelectError(t) PROVE TypeInv'
    BY <2>25 DEF SelectError
  <2>26. ASSUME NEW t \in Worker, CloseAll(t) PROVE TypeInv'
    BY <2>26 DEF CloseAll, DeleteAll
  <2>27. ASSUME NEW t \in Worker, Sweep(t) PROVE TypeInv'
    <3> DEFINE k == idx[t]
    <3>1. k \in Nat /\ idx' \in [Worker -> Nat]
      BY <2>27 DEF Sweep
    <3>2. CASE bucket[t][k] \in open
      BY <2>27, <3>1, <3>2 DEF Sweep
    <3>3. CASE bucket[t][k] \notin open
      <4>1. k \in 1..Len(bucket[t])
        BY <2>27, <3>1, LenProperties DEF Sweep
      <4>2. SwapRemove(bucket[t], k) \in Seq(Ctx)
        BY <4>1, SwapRemoveType
      <4>3. bucket' \in [Worker -> Seq(Ctx)]
        BY <2>27, <3>3, <4>2 DEF Sweep
      <4> QED
        BY <2>27, <3>1, <3>3, <4>3 DEF Sweep
    <3> QED
      BY <3>2, <3>3
  <2>28. ASSUME NEW t \in Worker, SweepEnd(t) PROVE TypeInv'
    BY <2>28 DEF SweepEnd
  <2>29. ASSUME NEW t \in Worker, Drain(t) PROVE TypeInv'
    BY <2>29 DEF Drain, DeleteAll
  <2>30. ASSUME NEW t \in Worker, UseDeleted(t) PROVE TypeInv'
    BY <2>30 DEF UseDeleted, Fault
  <2>31. ASSUME NEW t \in Worker, Post(t) PROVE TypeInv'
    <3>1. pool' \in Seq(Worker) /\ nalive' \in Int
      BY <2>31, EraseAtType DEF Post
    <3> QED
      BY <2>31, <3>1 DEF Post
  <2>32. CASE UNCHANGED vars
    BY <2>32 DEF vars
  <2>33. CASE DtorHang
    <3>1. PICK t \in Worker : tpc[t] \in {"sweep", "io", "drain"} /\ tpc' = [tpc EXCEPT ![t] = "hang"]
      BY <2>33, HangStep
    <3>2. /\ mpc' = "hang" /\ open' \subseteq open /\ bstop' \in [Worker -> BOOLEAN]
          /\ UNCHANGED <<q, live, pctx, made, nsig, pool, nalive, dynamic, hand, bucket,
                         idx, alive, shed, fault>>
      BY <2>33, HangStep
    <3> QED
      BY <3>1, <3>2
  <2> QED
    BY <2>33, <2>1, <2>2, <2>3, <2>4, <2>5, <2>6, <2>7, <2>8, <2>9, <2>10, <2>11, <2>12, <2>13, <2>14, <2>15, <2>16, <2>17, <2>18, <2>19, <2>20, <2>21, <2>22, <2>23, <2>24, <2>25, <2>26, <2>27, <2>28, <2>29, <2>30, <2>31, <2>32 DEF Next, MainRuns, Main, WorkerRuns, WorkerStep, Environment, Over
<1> QED
  BY <1>1, <1>2, PTL DEF Spec

\* Every variable has its type in every reachable state.
THEOREM TypeCorrect == Spec => []TypeOK
<1>1. TypeInv => TypeOK
  BY DEF TypeInv
<1> QED
  BY <1>1, TypeInvariant, PTL

-----------------------------------------------------------------------------
(* Sequences without repetition.                                           *)

\* No context is there twice (the eos entry may be).
Once(s) == \A i, j \in 1..Len(s) : s[i] = s[j] /\ s[i] # Null => i = j

\* std::deque::push_back, and Bucket<T>::push.
LEMMA AppendOnce ==
  ASSUME NEW S, NEW s \in Seq(S), NEW x \in S
  PROVE  /\ Elems(Append(s, x)) = Elems(s) \cup {x}
         /\ Once(s) /\ (x \notin Elems(s) \/ x = Null) => Once(Append(s, x))
<1>1. /\ Append(s, x) \in Seq(S) /\ Len(Append(s, x)) = Len(s) + 1
      /\ \A i \in 1..Len(s) : Append(s, x)[i] = s[i]
      /\ Append(s, x)[Len(s) + 1] = x
  BY AppendProperties
<1>2. Len(s) \in Nat
  BY LenProperties
<1>3. 1..Len(Append(s, x)) = (1..Len(s)) \cup {Len(s) + 1}
  BY <1>1, <1>2
<1>4. Elems(Append(s, x)) = Elems(s) \cup {x}
  BY <1>1, <1>3 DEF Elems
<1>5. ASSUME Once(s), x \notin Elems(s) \/ x = Null
      PROVE  Once(Append(s, x))
  BY <1>1, <1>2, <1>3, <1>5 DEF Once, Elems
<1> QED
  BY <1>4, <1>5

\* std::deque::front and pop_front.
LEMMA TailOnce ==
  ASSUME NEW S, NEW s \in Seq(S), s # <<>>, Once(s)
  PROVE  /\ Elems(s) = Elems(Tail(s)) \cup {Head(s)}
         /\ Once(Tail(s))
         /\ Head(s) # Null => Head(s) \notin Elems(Tail(s))
<1>1. /\ Tail(s) \in Seq(S) /\ Len(Tail(s)) = Len(s) - 1 /\ Head(s) = s[1]
      /\ \A i \in 1..Len(Tail(s)) : Tail(s)[i] = s[i + 1]
  BY HeadTailProperties
<1>2. Len(s) \in Nat /\ Len(s) >= 1
  BY LenProperties, EmptySeq
<1>3. \A i \in 1..Len(s) : i = 1 \/ (i - 1 \in 1..Len(Tail(s)) /\ s[i] = Tail(s)[i - 1])
  BY <1>1, <1>2
<1>4. Elems(s) = Elems(Tail(s)) \cup {Head(s)}
  <2>1. Elems(s) \subseteq Elems(Tail(s)) \cup {Head(s)}
    BY <1>1, <1>3 DEF Elems
  <2>2. Elems(Tail(s)) \cup {Head(s)} \subseteq Elems(s)
    BY <1>1, <1>2 DEF Elems
  <2> QED
    BY <2>1, <2>2
<1>5. Once(Tail(s))
  BY <1>1, <1>2 DEF Once
<1>6. ASSUME Head(s) # Null PROVE Head(s) \notin Elems(Tail(s))
  BY <1>1, <1>2, <1>6 DEF Once, Elems
<1> QED
  BY <1>4, <1>5, <1>6

\* Bucket<T>::remove removes one context and no other.
LEMMA SwapRemoveOnce ==
  ASSUME NEW s \in Seq(Ctx), NEW k \in 1..Len(s), Once(s)
  PROVE  /\ Elems(SwapRemove(s, k)) = Elems(s) \ {s[k]}
         /\ Once(SwapRemove(s, k))
<1> DEFINE r == SwapRemove(s, k)
<1>1. /\ r \in Seq(Ctx) /\ Len(r) = Len(s) - 1
      /\ \A i \in 1..(Len(s) - 1) : r[i] = IF i = k THEN s[Len(s)] ELSE s[i]
  BY SwapRemoveType
<1>2. Len(s) \in Nat /\ Len(s) >= 1
  BY LenProperties
<1>3. \A i \in 1..Len(s) : s[i] # Null
  BY ElementOfSeq, CtxPoolAssumption
<1> HIDE DEF r
<1>4. Elems(r) \subseteq Elems(s) \ {s[k]}
  <2> SUFFICES ASSUME NEW i \in 1..Len(r) PROVE r[i] \in Elems(s) /\ r[i] # s[k]
    BY DEF Elems
  <2>1. PICK j \in 1..Len(s) : j # k /\ r[i] = s[j]
    BY <1>1, <1>2
  <2> QED
    BY <2>1, <1>3 DEF Elems, Once
<1>5. Elems(s) \ {s[k]} \subseteq Elems(r)
  <2> SUFFICES ASSUME NEW i \in 1..Len(s), i # k PROVE \E j \in 1..Len(r) : r[j] = s[i]
    BY DEF Elems
  <2>1. CASE i = Len(s)
    BY <2>1, <1>1, <1>2
  <2>2. CASE i # Len(s)
    BY <2>2, <1>1, <1>2
  <2> QED
    BY <2>1, <2>2
<1>6. Once(r)
  <2> SUFFICES ASSUME NEW i \in 1..Len(r), NEW j \in 1..Len(r), r[i] = r[j] PROVE i = j
    BY DEF Once
  <2> DEFINE a == IF i = k THEN Len(s) ELSE i
             b == IF j = k THEN Len(s) ELSE j
  <2>1. a \in 1..Len(s) /\ b \in 1..Len(s) /\ s[a] = s[b]
    BY <1>1, <1>2
  <2>2. a = b
    BY <2>1, <1>3 DEF Once
  <2> QED
    BY <2>2, <1>1, <1>2
<1> QED
  BY <1>4, <1>5, <1>6 DEF r

-----------------------------------------------------------------------------
(* Who owns a context.                                                     *)

\* As long as no push was refused: every context that exists is in the queue,
\* in one hand or in one bucket, and nothing else is.
Owned ==
  /\ Once(q) /\ \A t \in Worker : Once(bucket[t])
  /\ \A c \in live : c \in Elems(q) \/ \E t \in Worker : hand[t] = c \/ c \in Elems(bucket[t])
  /\ Elems(q) \subseteq live \cup {Null}
  /\ \A t \in Worker : hand[t] \in live \cup {Null} /\ Elems(bucket[t]) \subseteq live
  /\ \A t \in Worker : hand[t] # Null => hand[t] \notin Elems(q)
  /\ \A t \in Worker : Elems(bucket[t]) \cap Elems(q) = {}
  /\ \A t, u \in Worker : hand[t] \notin Elems(bucket[u])
  /\ \A t, u \in Worker : t # u => hand[t] = Null \/ hand[t] # hand[u]
  /\ \A t, u \in Worker : t # u => Elems(bucket[t]) \cap Elems(bucket[u]) = {}

\* The deletes find what they delete, so no context is used after its delete.
OwnInv ==
  /\ mpc = "shed" => shed
  /\ fault = "context" => shed
  /\ ~shed => Owned

\* The empty queue, the empty bucket.
LEMMA EmptyOnce == Elems(<<>>) = {} /\ Once(<<>>)
<1>1. Len(<<>>) = 0
  OBVIOUS
<1> QED
  BY <1>1, SMT DEF Elems, Once

\* With Owned, "delete" finds every context of a bucket, and each only once.
LEMMA OwnedDeletable ==
  ASSUME TypeInv, Owned, NEW t \in Worker
  PROVE  Deletable(t)
<1>1. bucket[t] \in Seq(Ctx) /\ Once(bucket[t]) /\ Elems(bucket[t]) \subseteq live
  BY DEF TypeInv, TypeOK, Owned
<1>2. \A i \in 1..Len(bucket[t]) : bucket[t][i] # Null
  BY <1>1, ElementOfSeq, CtxPoolAssumption
<1> QED
  BY <1>1, <1>2 DEF Deletable, Once

\* _close_all and the clean-up after the loop delete one bucket and keep the rest.
LEMMA DeleteAllOwned ==
  ASSUME TypeInv, Owned, NEW t \in Worker, DeleteAll(t), UNCHANGED <<q, hand>>,
         Null \notin live
  PROVE  Owned'
<1>1. bucket'[t] = <<>> /\ \A u \in Worker : u # t => bucket'[u] = bucket[u]
  BY DEF DeleteAll, TypeInv, TypeOK
<1>2. Elems(bucket'[t]) = {} /\ Once(bucket'[t])
  BY <1>1, EmptyOnce
<1>3. live' = live \ Elems(bucket[t]) /\ q' = q /\ hand' = hand
  BY DEF DeleteAll
<1> USE DEF Owned
<1>4. Once(q') /\ \A u \in Worker : Once(bucket'[u])
  BY <1>1, <1>2, <1>3
<1>5. \A c \in live' : c \in Elems(q') \/ \E u \in Worker : hand'[u] = c \/ c \in Elems(bucket'[u])
  BY <1>1, <1>3
<1>6. Elems(q') \subseteq live' \cup {Null}
  BY <1>3
<1>7. \A u \in Worker : hand'[u] \in live' \cup {Null} /\ Elems(bucket'[u]) \subseteq live'
  BY <1>1, <1>2, <1>3
<1>8. \A u \in Worker : hand'[u] # Null => hand'[u] \notin Elems(q')
  BY <1>3
<1>9. \A u \in Worker : Elems(bucket'[u]) \cap Elems(q') = {}
  BY <1>1, <1>2, <1>3
<1>10. \A u, v \in Worker : hand'[u] \notin Elems(bucket'[v])
  BY <1>1, <1>2, <1>3
<1>11. \A u, v \in Worker : u # v => hand'[u] = Null \/ hand'[u] # hand'[v]
  BY <1>3
<1>12. \A u, v \in Worker : u # v => Elems(bucket'[u]) \cap Elems(bucket'[v]) = {}
  BY <1>1, <1>2
<1> QED
  BY <1>4, <1>5, <1>6, <1>7, <1>8, <1>9, <1>10, <1>11, <1>12

\* The invariant: no step of any thread, before a push is refused, loses a
\* context or leaves two owners for it.
THEOREM Ownership == Spec => []OwnInv
<1> USE CtxPoolAssumption
<1>1. Init => OwnInv
  <2> SUFFICES ASSUME Init PROVE OwnInv
    OBVIOUS
  <2>1. Elems(q) = {} /\ Once(q) /\ live = {}
    BY EmptyOnce DEF Init
  <2>2. \A t \in Worker : Elems(bucket[t]) = {} /\ Once(bucket[t]) /\ hand[t] = Null
    BY EmptyOnce DEF Init
  <2> QED
    BY <2>1, <2>2 DEF Init, OwnInv, Owned
<1>2. TypeInv /\ OwnInv /\ [Next]_vars => OwnInv'
  <2> SUFFICES ASSUME TypeInv, OwnInv, [Next]_vars PROVE OwnInv'
    OBVIOUS
  <2> USE DEF queueVars, mainVars, poolVars, workerVars
  <2>a. /\ q \in Seq(Ctx \cup {Null}) /\ live \subseteq Ctx /\ Null \notin live
        /\ hand \in [Worker -> Ctx \cup {Null}] /\ bucket \in [Worker -> Seq(Ctx)]
        /\ pool \in Seq(Worker) /\ nsig \in Nat
    BY DEF TypeInv, TypeOK
  <2>b. /\ mpc = "shed" => shed
        /\ fault = "context" => shed
        /\ ~shed => Owned
    BY DEF OwnInv
  \* a step that moves no context
  <2>0. ASSUME UNCHANGED <<q, live, hand, bucket>>, shed => shed', mpc' = "shed" => shed',
               fault' = "context" => shed'
        PROVE  OwnInv'
    BY <2>0, <2>b DEF OwnInv, Owned
  <2>1. CASE Create
    <3>1. UNCHANGED <<q, live, hand, bucket, shed, fault>> /\ mpc' # "shed"
      BY <2>1 DEF Create, AddThread
    <3> QED
      BY <3>1, <2>0, <2>b
  <2>2. CASE Poll
    BY <2>2, <2>0, <2>b DEF Poll
  <2>3. CASE Accept
    <3>1. PICK c \in Ctx \ live : live' = live \cup {c} /\ q' = Append(q, c)
      BY <2>3 DEF Accept
    <3>2. UNCHANGED <<hand, bucket, shed, fault>> /\ mpc' # "shed"
      BY <2>3 DEF Accept
    <3>3. Elems(q') = Elems(q) \cup {c} /\ (Once(q) /\ c \notin Elems(q) => Once(q'))
      BY <3>1, <2>a, AppendOnce
    <3>4. ASSUME Owned PROVE Owned'
      BY <3>4, <3>1, <3>2, <3>3, <2>a DEF Owned
    <3> QED
      BY <3>2, <3>4, <2>b DEF OwnInv
  <2>4. CASE Reject
    BY <2>4, <2>0, <2>b DEF Reject
  <2>5. CASE InRange
    BY <2>5, <2>0, <2>b DEF InRange
  <2>6. CASE Overflow
    BY <2>6, <2>0, <2>b DEF Overflow
  <2>7. CASE Grow
    <3>1. UNCHANGED <<q, live, hand, bucket, shed, fault>> /\ mpc' # "shed"
      BY <2>7 DEF Grow, AddThread
    <3> QED
      BY <3>1, <2>0, <2>b
  <2>8. CASE Shed
    <3>1. shed /\ shed'
      BY <2>8, <2>b DEF Shed, Fault
    <3> QED
      BY <3>1 DEF OwnInv
  <2>9. CASE DtorSize
    BY <2>9, <2>0, <2>b DEF DtorSize
  <2>10. CASE DtorSignal
    <3> DEFINE signalled == {pool[i] : i \in 1..nsig}
               cleared == UNION {Elems(bucket[t]) : t \in signalled}
    <3>1. UNCHANGED <<q, live, hand, bucket, shed>> /\ mpc' # "shed"
      BY <2>10 DEF DtorSignal, Fault
    <3> HIDE DEF signalled, cleared
    <3>2. fault' = "context" => fault = "context" \/ (~(nsig > Len(pool)) /\ ~(cleared \subseteq live))
      <4>1. \/ Fault("thread")
            \/ ~(nsig > Len(pool)) /\ ~(cleared \subseteq live) /\ Fault("context")
            \/ UNCHANGED fault
        BY <2>10 DEF DtorSignal, signalled, cleared
      <4> QED
        BY <4>1 DEF Fault
    <3>3. ASSUME Owned, ~(nsig > Len(pool)) PROVE cleared \subseteq live
      <4>1. signalled \subseteq Worker
        BY <3>3, <2>a, ElementOfSeq, LenProperties DEF signalled
      <4>2. \A t \in signalled : Elems(bucket[t]) \subseteq live
        BY <4>1, <3>3 DEF Owned
      <4> QED
        BY <4>2 DEF cleared
    <3>4. fault' = "context" => shed
      BY <3>2, <3>3, <2>b
    <3> QED
      BY <3>1, <3>4, <2>0
  <2>hang. CASE DtorHang
    BY <2>hang, <2>0, <2>b, HangStep
  <2>11. CASE DtorEos
    <3>1. UNCHANGED <<live, hand, bucket, shed, fault>> /\ mpc' # "shed"
      BY <2>11 DEF DtorEos
    <3>2. CASE q' = Append(q, Null)
      <4>1. Elems(q') = Elems(q) \cup {Null} /\ (Once(q) => Once(q'))
        BY <3>2, <2>a, AppendOnce
      <4>2. ASSUME Owned PROVE Owned'
        BY <4>1, <4>2, <3>1, <2>a DEF Owned
      <4> QED
        BY <3>1, <4>2, <2>b DEF OwnInv
    <3>3. CASE UNCHANGED q
      BY <3>1, <3>3, <2>0, <2>b
    <3> QED
      BY <2>11, <3>2, <3>3 DEF DtorEos
  <2>12. CASE DtorTimeout
    BY <2>12, <2>0, <2>b DEF DtorTimeout
  <2>13. CASE DtorClear
    BY <2>13, <2>0, <2>b DEF DtorClear
  <2>14. CASE DtorFree
    <3> DEFINE left == Elems(q) \ {Null}
    <3>1. CASE shed
      BY <2>14, <3>1 DEF DtorFree, Fault, OwnInv
    <3>2. CASE ~shed
      <4>1. Owned
        BY <3>2, <2>b
      <4>2. left \subseteq live /\ \A i, j \in 1..Len(q) : q[i] = q[j] /\ q[i] # Null => i = j
        BY <4>1 DEF Owned, Once
      <4>3. /\ live' = live \ left /\ q' = <<>> /\ mpc' = "end"
            /\ UNCHANGED <<hand, bucket, shed, fault>>
        BY <2>14, <4>2 DEF DtorFree
      <4>4. Elems(q') = {} /\ Once(q')
        BY <4>3, EmptyOnce
      <4>5. Owned'
        BY <4>1, <4>3, <4>4, <2>a DEF Owned
      <4> QED
        BY <4>3, <4>5, <2>b DEF OwnInv
    <3> QED
      BY <3>1, <3>2
  <2>15. CASE Leave
    BY <2>15, <2>0, <2>b DEF Leave
  <2>16. CASE Interrupt
    BY <2>16, <2>0, <2>b DEF Interrupt
  <2>17. CASE UseAfterDtor
    BY <2>17, <2>0, <2>b DEF UseAfterDtor, Fault
  <2>18. ASSUME NEW t \in Worker, Enter(t) PROVE OwnInv'
    BY <2>18, <2>0, <2>b DEF Enter
  <2>19. ASSUME NEW t \in Worker, Loop(t) PROVE OwnInv'
    BY <2>19, <2>0, <2>b DEF Loop
  <2>20. ASSUME NEW t \in Worker, FetchNone(t) PROVE OwnInv'
    BY <2>20, <2>0, <2>b DEF FetchNone
  <2>21. ASSUME NEW t \in Worker, FetchEos(t) PROVE OwnInv'
    <3>1. q # <<>> /\ Head(q) = Null /\ q' = Tail(q) /\ UNCHANGED <<live, hand, bucket, shed, fault, mpc>>
      BY <2>21 DEF FetchEos
    <3>2. Once(q) => Elems(q) = Elems(q') \cup {Null} /\ Once(q')
      BY <3>1, <2>a, TailOnce
    <3>3. ASSUME Owned PROVE Owned'
      BY <3>1, <3>2, <3>3, <2>a, SMTT(30) DEF Owned
    <3> QED
      BY <3>1, <3>3, <2>b DEF OwnInv
  <2>22. ASSUME NEW t \in Worker, Fetch(t) PROVE OwnInv'
    <3>1. /\ q # <<>> /\ Head(q) # Null /\ q' = Tail(q) /\ hand' = [hand EXCEPT ![t] = Head(q)]
          /\ UNCHANGED <<live, bucket, shed, fault, mpc>>
      BY <2>22 DEF Fetch
    <3>2. hand[t] = Null
      BY <2>22 DEF Fetch, TypeInv, HandFull
    <3>3. hand'[t] = Head(q) /\ \A u \in Worker : u # t => hand'[u] = hand[u]
      BY <3>1, <2>a
    <3>4. Once(q) => Elems(q) = Elems(q') \cup {Head(q)} /\ Once(q') /\ Head(q) \notin Elems(q')
      BY <3>1, <2>a, TailOnce
    <3>5. ASSUME Owned PROVE Owned'
      <4> USE <3>1, <3>2, <3>3, <3>4, <3>5, <2>a DEF Owned
      <4> DEFINE x == Head(q)
      <4>0. x \in live /\ Elems(q') \subseteq Elems(q) /\ x \in Elems(q)
        OBVIOUS
      <4>1. Once(q') /\ \A u \in Worker : Once(bucket'[u])
        OBVIOUS
      <4>2. \A c \in live' : c \in Elems(q') \/ \E u \in Worker : hand'[u] = c \/ c \in Elems(bucket'[u])
        <5> SUFFICES ASSUME NEW c \in live
                     PROVE c \in Elems(q') \/ \E u \in Worker : hand'[u] = c \/ c \in Elems(bucket[u])
          OBVIOUS
        <5>1. CASE c = x
          BY <5>1
        <5>2. CASE c # x /\ c \in Elems(q)
          BY <5>2
        <5>3. ASSUME NEW u \in Worker, hand[u] = c \/ c \in Elems(bucket[u])
              PROVE  hand'[u] = c \/ c \in Elems(bucket[u])
          BY <5>3
        <5> QED
          BY <5>1, <5>2, <5>3
      <4>3. Elems(q') \subseteq live' \cup {Null}
        OBVIOUS
      <4>4. \A u \in Worker : hand'[u] \in live' \cup {Null} /\ Elems(bucket'[u]) \subseteq live'
        BY <4>0
      <4>5. \A u \in Worker : hand'[u] # Null => hand'[u] \notin Elems(q')
        BY <4>0
      <4>6. \A u \in Worker : Elems(bucket'[u]) \cap Elems(q') = {}
        BY <4>0
      <4>7. \A u, v \in Worker : hand'[u] \notin Elems(bucket'[v])
        BY <4>0
      <4>8. \A u, v \in Worker : u # v => hand'[u] = Null \/ hand'[u] # hand'[v]
        BY <4>0
      <4>9. \A u, v \in Worker : u # v => Elems(bucket'[u]) \cap Elems(bucket'[v]) = {}
        OBVIOUS
      <4> QED
        BY <4>1, <4>2, <4>3, <4>4, <4>5, <4>6, <4>7, <4>8, <4>9
    <3> QED
      BY <3>1, <3>5, <2>b DEF OwnInv
  <2>23. ASSUME NEW t \in Worker, Put(t) PROVE OwnInv'
    <3>1. /\ bucket' = [bucket EXCEPT ![t] = Append(bucket[t], hand[t])]
          /\ hand' = [hand EXCEPT ![t] = Null]
          /\ UNCHANGED <<q, live, shed, fault, mpc>>
      BY <2>23 DEF Put
    <3>2. hand[t] \in Ctx /\ hand[t] # Null
      BY <2>23, <2>a DEF Put, TypeInv, HandFull
    <3>3. /\ hand'[t] = Null /\ \A u \in Worker : u # t => hand'[u] = hand[u]
          /\ bucket'[t] = Append(bucket[t], hand[t])
          /\ \A u \in Worker : u # t => bucket'[u] = bucket[u]
      BY <3>1, <2>a
    <3>4. /\ Elems(bucket'[t]) = Elems(bucket[t]) \cup {hand[t]}
          /\ Once(bucket[t]) /\ hand[t] \notin Elems(bucket[t]) => Once(bucket'[t])
      BY <3>2, <3>3, <2>a, AppendOnce
    <3>5. ASSUME Owned PROVE Owned'
      <4> USE <3>1, <3>2, <3>3, <3>4, <3>5, <2>a DEF Owned
      <4>0. hand[t] \in live /\ hand[t] \notin Elems(q) /\ \A u \in Worker : hand[t] \notin Elems(bucket[u])
        OBVIOUS
      <4>1. Once(q') /\ \A u \in Worker : Once(bucket'[u])
        BY <4>0
      <4>2. \A c \in live' : c \in Elems(q') \/ \E u \in Worker : hand'[u] = c \/ c \in Elems(bucket'[u])
        <5> SUFFICES ASSUME NEW c \in live
                     PROVE c \in Elems(q) \/ \E u \in Worker : hand'[u] = c \/ c \in Elems(bucket'[u])
          OBVIOUS
        <5>1. CASE c = hand[t] \/ c \in Elems(bucket[t])
          BY <5>1
        <5>2. ASSUME NEW u \in Worker, u # t, hand[u] = c \/ c \in Elems(bucket[u])
              PROVE  hand'[u] = c \/ c \in Elems(bucket'[u])
          BY <5>2
        <5> QED
          BY <5>1, <5>2
      <4>3. Elems(q') \subseteq live' \cup {Null}
        OBVIOUS
      <4>4. \A u \in Worker : hand'[u] \in live' \cup {Null} /\ Elems(bucket'[u]) \subseteq live'
        BY <4>0
      <4>5. \A u \in Worker : hand'[u] # Null => hand'[u] \notin Elems(q')
        BY <4>0
      <4>6. \A u \in Worker : Elems(bucket'[u]) \cap Elems(q') = {}
        BY <4>0
      <4>7. \A u, v \in Worker : hand'[u] \notin Elems(bucket'[v])
        <5> TAKE u, v \in Worker
        <5>1. CASE u = t
          BY <5>1
        <5>2. CASE u # t
          <6>1. hand'[u] = hand[u] /\ hand[u] \notin Elems(bucket[v])
            BY <5>2
          <6>2. hand[u] # hand[t]
            BY <5>2
          <6> QED
            BY <6>1, <6>2
        <5> QED
          BY <5>1, <5>2
      <4>8. \A u, v \in Worker : u # v => hand'[u] = Null \/ hand'[u] # hand'[v]
        BY <4>0
      <4>9. \A u, v \in Worker : u # v => Elems(bucket'[u]) \cap Elems(bucket'[v]) = {}
        BY <4>0
      <4> QED
        BY <4>1, <4>2, <4>3, <4>4, <4>5, <4>6, <4>7, <4>8, <4>9
    <3> QED
      BY <3>1, <3>5, <2>b DEF OwnInv
  <2>24. ASSUME NEW t \in Worker, Spin(t) PROVE OwnInv'
    BY <2>24, <2>0, <2>b DEF Spin
  <2>25. ASSUME NEW t \in Worker, SelectError(t) PROVE OwnInv'
    BY <2>25, <2>0, <2>b DEF SelectError
  <2>26. ASSUME NEW t \in Worker, CloseAll(t) PROVE OwnInv'
    <3>1. DeleteAll(t) /\ UNCHANGED <<q, hand, shed, fault, mpc>>
      BY <2>26 DEF CloseAll
    <3>2. Owned => Owned'
      BY <3>1, <2>a, DeleteAllOwned
    <3> QED
      BY <3>1, <3>2, <2>b DEF OwnInv
  <2>27. ASSUME NEW t \in Worker, Sweep(t) PROVE OwnInv'
    <3> DEFINE k == idx[t]
               c == bucket[t][k]
    <3>1. UNCHANGED <<q, hand, shed, fault, mpc>>
      BY <2>27 DEF Sweep
    <3>2. CASE UNCHANGED <<live, bucket>>
      BY <3>1, <3>2, <2>0, <2>b
    <3>3. CASE live' = live \ {c} /\ bucket' = [bucket EXCEPT ![t] = SwapRemove(bucket[t], k)]
      <4>1. k \in 1..Len(bucket[t]) /\ c \in live
        BY <2>27, <2>a, LenProperties DEF Sweep, TypeInv, TypeOK, SweepSlot
      <4>2. /\ bucket'[t] = SwapRemove(bucket[t], k)
            /\ \A u \in Worker : u # t => bucket'[u] = bucket[u]
        BY <3>3, <2>a
      <4>3. Once(bucket[t]) => Elems(bucket'[t]) = Elems(bucket[t]) \ {c} /\ Once(bucket'[t])
        BY <4>1, <4>2, <2>a, SwapRemoveOnce
      <4>4. c \in Elems(bucket[t])
        BY <4>1 DEF Elems
      <4> HIDE DEF c, k
      <4>5. ASSUME Owned PROVE Owned'
        <5> USE <3>1, <3>3, <4>2, <4>3, <4>4, <4>5, <2>a DEF Owned
        <5>0. /\ c \notin Elems(q) /\ \A u \in Worker : hand[u] # c
              /\ \A u \in Worker : u # t => c \notin Elems(bucket[u])
          OBVIOUS
        <5>1. Once(q') /\ \A u \in Worker : Once(bucket'[u])
          OBVIOUS
        <5>2. \A d \in live' : d \in Elems(q') \/ \E u \in Worker : hand'[u] = d \/ d \in Elems(bucket'[u])
          <6> SUFFICES ASSUME NEW d \in live, d # c
                       PROVE d \in Elems(q) \/ \E u \in Worker : hand[u] = d \/ d \in Elems(bucket'[u])
            OBVIOUS
          <6>1. ASSUME NEW u \in Worker, d \in Elems(bucket[u]) PROVE d \in Elems(bucket'[u])
            BY <6>1
          <6> QED
            BY <6>1
        <5>3. Elems(q') \subseteq live' \cup {Null}
          BY <5>0
        <5>4. \A u \in Worker : hand'[u] \in live' \cup {Null} /\ Elems(bucket'[u]) \subseteq live'
          BY <5>0
        <5>5. \A u \in Worker : hand'[u] # Null => hand'[u] \notin Elems(q')
          OBVIOUS
        <5>6. \A u \in Worker : Elems(bucket'[u]) \cap Elems(q') = {}
          OBVIOUS
        <5>7. \A u, v \in Worker : hand'[u] \notin Elems(bucket'[v])
          OBVIOUS
        <5>8. \A u, v \in Worker : u # v => hand'[u] = Null \/ hand'[u] # hand'[v]
          OBVIOUS
        <5>9. \A u, v \in Worker : u # v => Elems(bucket'[u]) \cap Elems(bucket'[v]) = {}
          OBVIOUS
        <5> QED
          BY <5>1, <5>2, <5>3, <5>4, <5>5, <5>6, <5>7, <5>8, <5>9
      <4> QED
        BY <3>1, <4>5, <2>b DEF OwnInv
    <3> QED
      BY <2>27, <3>2, <3>3 DEF Sweep
  <2>28. ASSUME NEW t \in Worker, SweepEnd(t) PROVE OwnInv'
    BY <2>28, <2>0, <2>b DEF SweepEnd
  <2>29. ASSUME NEW t \in Worker, Drain(t) PROVE OwnInv'
    <3>1. DeleteAll(t) /\ UNCHANGED <<q, hand, shed, fault, mpc>>
      BY <2>29 DEF Drain
    <3>2. Owned => Owned'
      BY <3>1, <2>a, DeleteAllOwned
    <3> QED
      BY <3>1, <3>2, <2>b DEF OwnInv
  <2>30. ASSUME NEW t \in Worker, UseDeleted(t) PROVE OwnInv'
    <3>1. UNCHANGED <<q, live, hand, bucket, shed, mpc>>
      BY <2>30 DEF UseDeleted, Fault
    <3>2. ASSUME Owned PROVE FALSE
      <4>1. Deletable(t)
        BY <3>2, OwnedDeletable
      <4>2. Elems(bucket[t]) \subseteq live
        BY <3>2 DEF Owned
      <4>3. tpc[t] = "sweep" /\ idx[t] <= Len(bucket[t]) /\ bucket[t][idx[t]] \notin live
        BY <2>30, <4>1, <4>2 DEF UseDeleted
      <4>4. idx[t] \in 1..Len(bucket[t])
        BY <4>3, <2>a, LenProperties DEF TypeInv, TypeOK, SweepSlot
      <4> QED
        BY <4>2, <4>3, <4>4 DEF Elems
    <3> QED
      BY <3>1, <3>2, <2>b, <2>0
  <2>31. ASSUME NEW t \in Worker, Post(t) PROVE OwnInv'
    BY <2>31, <2>0, <2>b DEF Post
  <2>32. CASE UNCHANGED vars
    BY <2>32, <2>0, <2>b DEF vars
  <2> QED
    BY <2>hang, <2>1, <2>2, <2>3, <2>4, <2>5, <2>6, <2>7, <2>8, <2>9, <2>10, <2>11, <2>12, <2>13, <2>14, <2>15, <2>16, <2>17, <2>18, <2>19, <2>20, <2>21, <2>22, <2>23, <2>24, <2>25, <2>26, <2>27, <2>28, <2>29, <2>30, <2>31, <2>32 DEF Next, MainRuns, Main, WorkerRuns, WorkerStep, Environment, Over
<1> QED
  BY <1>1, <1>2, TypeInvariant, PTL DEF Spec

\* Until a push is refused, every context that exists is held in exactly one
\* place, and nothing else is held anywhere.
THEOREM OwnedOnceHolds == Spec => []OwnedOnce
<1>1. TypeInv /\ OwnInv => OwnedOnce
  <2> SUFFICES ASSUME TypeInv, OwnInv, ~shed, NEW c \in Ctx
               PROVE  IF c \in live THEN \E p \in Holders(c) : Holders(c) = {p} ELSE Holders(c) = {}
    BY DEF OwnedOnce
  <2>1. Owned /\ c # Null
    BY CtxPoolAssumption DEF OwnInv
  <2>2. \A p \in Holders(c) :
          \/ \E i \in 1..Len(q) : q[i] = c /\ p = <<"queue", i>>
          \/ \E t \in Worker : hand[t] = c /\ p = <<"hand", t>>
          \/ \E t \in Worker : \E k \in 1..Len(bucket[t]) : bucket[t][k] = c /\ p = <<t, k>>
    BY DEF Holders
  <2>3. /\ \A i \in 1..Len(q) : q[i] = c => <<"queue", i>> \in Holders(c)
        /\ \A t \in Worker : hand[t] = c => <<"hand", t>> \in Holders(c)
        /\ \A t \in Worker : \A k \in 1..Len(bucket[t]) : bucket[t][k] = c => <<t, k>> \in Holders(c)
    BY DEF Holders
  <2>4. CASE c \notin live
    <3>1. c \notin Elems(q) /\ \A t \in Worker : hand[t] # c /\ c \notin Elems(bucket[t])
      BY <2>1, <2>4 DEF Owned
    <3> QED
      BY <2>2, <2>4, <3>1 DEF Elems
  <2>5. CASE c \in Elems(q)
    <3>1. PICK i \in 1..Len(q) : q[i] = c
      BY <2>5 DEF Elems
    <3>2. \A j \in 1..Len(q) : q[j] = c => j = i
      BY <3>1, <2>1 DEF Owned, Once
    <3>3. \A t \in Worker : hand[t] # c /\ c \notin Elems(bucket[t])
      BY <2>1, <2>5 DEF Owned
    <3>4. \A t \in Worker : \A k \in 1..Len(bucket[t]) : bucket[t][k] # c
      BY <3>3 DEF Elems
    <3>5. Holders(c) = {<<"queue", i>>}
      BY <2>2, <2>3, <3>1, <3>2, <3>3, <3>4
    <3> QED
      BY <3>5, <2>5, <2>1 DEF Owned
  <2>6. ASSUME NEW t \in Worker, hand[t] = c PROVE Holders(c) = {<<"hand", t>>}
    <3>1. c \notin Elems(q) /\ \A u \in Worker : c \notin Elems(bucket[u]) /\ (hand[u] = c => u = t)
      BY <2>6, <2>1 DEF Owned
    <3>2. /\ \A i \in 1..Len(q) : q[i] # c
          /\ \A u \in Worker : \A k \in 1..Len(bucket[u]) : bucket[u][k] # c
      BY <3>1 DEF Elems
    <3> QED
      BY <2>2, <2>3, <2>6, <3>1, <3>2
  <2>7. ASSUME NEW t \in Worker, c \in Elems(bucket[t]) PROVE \E p \in Holders(c) : Holders(c) = {p}
    <3>1. PICK k \in 1..Len(bucket[t]) : bucket[t][k] = c
      BY <2>7 DEF Elems
    <3>2. \A j \in 1..Len(bucket[t]) : bucket[t][j] = c => j = k
      BY <3>1, <2>1 DEF Owned, Once
    <3>3. /\ c \notin Elems(q) /\ \A u \in Worker : hand[u] # c
          /\ \A u \in Worker : u # t => c \notin Elems(bucket[u])
      BY <2>7, <2>1 DEF Owned
    <3>4. /\ \A i \in 1..Len(q) : q[i] # c
          /\ \A u \in Worker : u # t => \A j \in 1..Len(bucket[u]) : bucket[u][j] # c
      BY <3>3 DEF Elems
    <3>5. \A p \in Holders(c) : p = <<t, k>>
      BY <2>2, <3>2, <3>3, <3>4
    <3> QED
      BY <2>3, <3>1, <3>5
  <2> QED
    BY <2>1, <2>4, <2>5, <2>6, <2>7 DEF Owned
<1> QED
  BY <1>1, TypeInvariant, Ownership, PTL

\* No context is used or deleted after its deletion in a run without a refused push.
THEOREM DeletedOnceHolds == Spec => []DeletedOnce
<1>1. OwnInv => DeletedOnce
  BY DEF OwnInv, DeletedOnce
<1> QED
  BY <1>1, Ownership, PTL
=============================================================================
