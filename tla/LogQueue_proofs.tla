-------------------------- MODULE LogQueue_proofs --------------------------
(***************************************************************************)
(* Proofs about LogQueue, for any number of producers, buffers, calls and  *)
(* starts, and any limits of the pool and of the queue.                    *)
(***************************************************************************)
EXTENDS LogQueueProps, SequenceTheorems, FiniteSetTheorems, TLAPS

---------------------------------------------------------------------------
(* Sequences                                                               *)

(* The two ends of a non-empty sequence, and what is left without them.    *)
LEMMA FrontLast ==
  ASSUME NEW S, NEW s \in Seq(S), s # <<>>
  PROVE  /\ Len(s) \in Nat \ {0}
         /\ Front(s) \in Seq(S) /\ Len(Front(s)) = Len(s) - 1
         /\ \A i \in 1..(Len(s) - 1) : Front(s)[i] = s[i]
         /\ Last(s) = s[Len(s)] /\ Last(s) \in S
<1>1. Len(s) \in Nat \ {0} /\ \A i \in 1..Len(s) : s[i] \in S
  BY EmptySeq, ElementOfSeq
<1>2. \A i \in 1..(Len(s) - 1) : s[i] \in S
  BY <1>1
<1>3. /\ SubSeq(s, 1, Len(s) - 1) \in Seq(S)
      /\ Len(SubSeq(s, 1, Len(s) - 1)) = Len(s) - 1
      /\ \A i \in 1..(Len(s) - 1) : SubSeq(s, 1, Len(s) - 1)[i] = s[i]
  <2> DEFINE n == Len(s) - 1
  <2>1. 1 \in Int /\ n \in Nat
    BY <1>1
  <2> HIDE DEF n
  <2>2. \A i \in 1..n : s[i] \in S
    BY <1>2 DEF n
  <2>3. /\ SubSeq(s, 1, n) \in Seq(S)
        /\ Len(SubSeq(s, 1, n)) = IF 1 <= n THEN n - 1 + 1 ELSE 0
        /\ \A i \in 1..(n - 1 + 1) : SubSeq(s, 1, n)[i] = s[1 + i - 1]
    BY <2>1, <2>2, SubSeqProperties
  <2>4. Len(SubSeq(s, 1, n)) = n /\ \A i \in 1..n : SubSeq(s, 1, n)[i] = s[i]
    BY <2>1, <2>3
  <2>5. QED
    BY <2>3, <2>4 DEF n
<1>4. QED
  BY <1>1, <1>3 DEF Front, Last

(* Adding an element at the end, taking one off either end: the range, and *)
(* that no element comes twice.                                            *)
LEMMA AppendRange ==
  ASSUME NEW S, NEW s \in Seq(S), NEW e \in S
  PROVE  /\ Range(Append(s, e)) = Range(s) \cup {e}
         /\ IsInjective(s) /\ e \notin Range(s) => IsInjective(Append(s, e))
<1>1. /\ Len(s) \in Nat /\ DOMAIN s = 1..Len(s)
      /\ DOMAIN Append(s, e) = 1..(Len(s) + 1)
      /\ \A i \in 1..Len(s) : Append(s, e)[i] = s[i]
      /\ Append(s, e)[Len(s) + 1] = e
  BY AppendProperties, LenProperties
<1>2. QED
  BY <1>1 DEF Range, IsInjective

(* The elements of Front(s) are those of s without the last one.           *)
LEMMA FrontRange ==
  ASSUME NEW S, NEW s \in Seq(S), s # <<>>, IsInjective(s)
  PROVE  /\ Range(Front(s)) = Range(s) \ {Last(s)} /\ Last(s) \in Range(s)
         /\ IsInjective(Front(s))
<1>1. /\ Len(s) \in Nat \ {0} /\ DOMAIN s = 1..Len(s) /\ Last(s) = s[Len(s)]
      /\ DOMAIN Front(s) = 1..(Len(s) - 1)
      /\ \A i \in 1..(Len(s) - 1) : Front(s)[i] = s[i]
  BY FrontLast, LenProperties
<1>2. QED
  BY <1>1 DEF Range, IsInjective

(* The elements of Tail(s) are those of s without the first one.           *)
LEMMA TailRange ==
  ASSUME NEW S, NEW s \in Seq(S), s # <<>>, IsInjective(s)
  PROVE  /\ Range(Tail(s)) = Range(s) \ {Head(s)} /\ Head(s) \in Range(s)
         /\ IsInjective(Tail(s))
<1>1. /\ Len(s) \in Nat \ {0} /\ DOMAIN s = 1..Len(s) /\ Head(s) = s[1]
      /\ DOMAIN Tail(s) = 1..(Len(s) - 1)
      /\ \A i \in 1..(Len(s) - 1) : Tail(s)[i] = s[i + 1]
  BY HeadTailProperties, LenProperties, EmptySeq
<1>2. \A i \in 2..Len(s) : i - 1 \in 1..(Len(s) - 1) /\ Tail(s)[i - 1] = s[i]
  BY <1>1
<1>3. Range(Tail(s)) \subseteq Range(s) \ {Head(s)}
  BY <1>1 DEF Range, IsInjective
<1>4. Range(s) \ {Head(s)} \subseteq Range(Tail(s))
  <2> SUFFICES ASSUME NEW x \in Range(s), x # Head(s)
               PROVE  x \in Range(Tail(s))
    OBVIOUS
  <2>1. PICK i \in 2..Len(s) : x = s[i]
    BY <1>1 DEF Range
  <2>2. QED
    BY <1>1, <1>2, <2>1 DEF Range
<1>5. Head(s) \in Range(s)
  BY <1>1 DEF Range
<1>6. IsInjective(Tail(s))
  BY <1>1 DEF IsInjective
<1>7. QED
  BY <1>3, <1>4, <1>5, <1>6

---------------------------------------------------------------------------
(* Types                                                                   *)

(* The strengthening of TypeOK: the local `log' holds a buffer exactly     *)
(* between make and the place that gives it away, and a thread inside      *)
(* push() has begun a call.                                                *)
Holding == {"check", "append", "free", "pool_add", "handle"}
Entering == {"prepush", "limit", "asleep", "make"}

LocalsOK ==
  \A t \in Threads :
    /\ log[t] # NULL <=> pc[t] \in Holding
    /\ pc[t] \in Entering => calls[t] > 0

(* Between stop() and start() there is no worker.                          *)
CtlOK == ctl = "stopped" => pc[Worker] = "none"

TypeInv == TypeOK /\ LocalsOK /\ CtlOK

(* The types and locals are right before anything runs.                    *)
LEMMA TypeInvInit == Init => TypeInv
<1> SUFFICES ASSUME Init PROVE TypeInv
  OBVIOUS
<1> USE QueueAssumption DEF QueueAssumption, Init
<1>1. starts \in 0..MaxStarts
  OBVIOUS
<1>2. /\ active \in BOOLEAN /\ ctl \in {"stopped", "started", "joining"}
      /\ heap \subseteq Buffers /\ logsMtx \in Threads \cup {NULL}
  OBVIOUS
<1>3. pool \in Seq(Buffers) /\ logs \in Seq(Buffers) /\ cache \in Seq(Buffers)
  BY EmptySeq
<1>4. rec \in [Buffers -> Records \cup {NoRecord}]
  OBVIOUS
<1>5. calls \in [Threads -> Nat] /\ \A t \in Threads : calls[t] <= MaxCalls[t]
  OBVIOUS
<1>6. pc \in [Threads -> CallLabels \cup WorkerLabels \cup {"idle"}]
  BY DEF CallLabels, WorkerLabels
<1>7. log \in [Threads -> Buffers \cup {NULL}]
  OBVIOUS
<1>8. ret \in [Threads -> {"idle", "prologue", "pop"}]
  OBVIOUS
<1>9. LocalsOK
  BY DEF LocalsOK, Holding, Entering
<1>10. CtlOK
  BY DEF CtlOK, Threads
<1>11. QED
  BY <1>1, <1>3, <1>4, <1>5, <1>6, <1>7, <1>8, <1>9, <1>2, <1>10 DEF TypeInv, TypeOK

(* Every step of push(), by whichever thread, keeps the types.             *)
LEMMA TypeInvPush ==
  ASSUME TypeInv, NEW t \in Threads, PushStep(t)
  PROVE  TypeInv'
<1> Worker \in Threads
  BY DEF Threads
<1> USE QueueAssumption
    DEF QueueAssumption, TypeInv, TypeOK, LocalsOK, CtlOK, Holding, Entering, CallLabels, WorkerLabels,
        Goto, Return, lifeVars, buffVars, callVars
<1>1. CASE Prepush(t)
  BY <1>1, ZenonT(40) DEF Prepush
<1>2. CASE Throttle(t)
  BY <1>2, ZenonT(40) DEF Throttle
<1>3. CASE Wake(t)
  BY <1>3 DEF Wake
<1>4. CASE Make(t)
  <2>1. PICK b \in Buffers :
          /\ \/ pool # <<>> /\ pool' = Front(pool) /\ UNCHANGED heap
             \/ heap' = heap \ {b} /\ UNCHANGED pool
          /\ log' = [log EXCEPT ![t] = b]
          /\ rec' = [rec EXCEPT ![b] = <<t, calls[t]>>]
    BY <1>4 DEF Make
  <2>2. pool' \in Seq(Buffers)
    <3>1. CASE pool # <<>> /\ pool' = Front(pool)
      BY <3>1, FrontLast
    <3>2. QED
      BY <2>1, <3>1
  <2>5. heap' \subseteq Buffers
    BY <2>1
  <2>3. <<t, calls[t]>> \in Records
    BY <1>4 DEF Make, Records
  <2>4. QED
    BY <1>4, <2>1, <2>2, <2>3, <2>5 DEF Make
<1>5. CASE Check(t)
  BY <1>5, ZenonT(40) DEF Check
<1>6. CASE Enlist(t)
  <2>1. Append(logs, log[t]) \in Seq(Buffers)
    BY <1>6, AppendProperties DEF Enlist
  <2>2. QED
    BY <1>6, <2>1 DEF Enlist
<1>7. CASE FreeCheck(t)
  <2>1. \/ Goto(t, "pool_add") /\ UNCHANGED <<heap, log>>
        \/ /\ heap' = heap \cup {log[t]}
           /\ log' = [log EXCEPT ![t] = NULL]
           /\ Return(t)
    BY <1>7 DEF FreeCheck
  <2>2. CASE Goto(t, "pool_add") /\ UNCHANGED <<heap, log>>
    BY <1>7, <2>2 DEF FreeCheck
  <2>3. CASE /\ heap' = heap \cup {log[t]}
             /\ log' = [log EXCEPT ![t] = NULL]
             /\ Return(t)
    BY <1>7, <2>3 DEF FreeCheck
  <2>4. QED
    BY <2>1, <2>2, <2>3
<1>8. CASE PoolAdd(t)
  <2>1. Append(pool, log[t]) \in Seq(Buffers)
    BY <1>8, AppendProperties DEF PoolAdd
  <2>2. QED
    BY <1>8, <2>1 DEF PoolAdd
<1>9. QED
  BY <1>1, <1>2, <1>3, <1>4, <1>5, <1>6, <1>7, <1>8 DEF PushStep

(* So does the call of push() itself.                                      *)
LEMMA TypeInvBegin ==
  ASSUME TypeInv, NEW t \in Threads, NEW back \in {"idle", "prologue", "pop"},
         pc[t] \notin Holding \cup {"none"}, BeginPush(t, back)
  PROVE  TypeInv'
<1> Worker \in Threads
  BY DEF Threads
<1> USE QueueAssumption
    DEF QueueAssumption, TypeInv, TypeOK, LocalsOK, CtlOK, Holding, Entering, CallLabels, WorkerLabels,
        Goto, lifeVars, buffVars, BeginPush
<1>1. calls' \in [Threads -> Nat] /\ \A u \in Threads : calls'[u] <= MaxCalls[u]
  <2> calls[t] \in Nat /\ MaxCalls[t] \in Nat /\ calls[t] < MaxCalls[t]
    OBVIOUS
  <2>1. calls[t] + 1 \in Nat /\ calls[t] + 1 <= MaxCalls[t]
    <3> HIDE QueueAssumption DEF QueueAssumption, TypeInv, TypeOK, LocalsOK, CtlOK, BeginPush
    <3>1. QED
      OBVIOUS
  <2>2. calls' = [calls EXCEPT ![t] = calls[t] + 1]
    OBVIOUS
  <2>3. QED
    BY <2>1, <2>2
<1>2. pc' \in [Threads -> CallLabels \cup WorkerLabels \cup {"idle"}]
  OBVIOUS
<1>3. ret' \in [Threads -> {"idle", "prologue", "pop"}]
  OBVIOUS
<1>4. LocalsOK'
  OBVIOUS
<1>5. CtlOK'
  OBVIOUS
<1>6. QED
  BY <1>1, <1>2, <1>3, <1>4, <1>5

(* The worker's own steps, and those of start() and stop().                *)
LEMMA TypeInvWorker ==
  ASSUME TypeInv, WorkerStep
  PROVE  TypeInv'
<1> Worker \in Threads
  BY DEF Threads
<1> USE QueueAssumption
    DEF QueueAssumption, TypeInv, TypeOK, LocalsOK, CtlOK, Holding, Entering, CallLabels, WorkerLabels,
        Goto, lifeVars, buffVars, callVars
<1>1. CASE WorkerEnter
  BY <1>1 DEF WorkerEnter
<1>2. CASE WorkerPrologue
  <2>1. CASE BeginPush(Worker, "prologue")
    BY <1>2, <2>1, TypeInvBegin DEF WorkerPrologue
  <2>2. QED
    BY <1>2, <2>1 DEF WorkerPrologue
<1>3. CASE WorkerPop
  <2>1. CASE cache # <<>>
    <3>1. Head(cache) \in Buffers \ {NULL} /\ Tail(cache) \in Seq(Buffers)
      BY <2>1, HeadTailProperties
    <3>2. /\ pc[Worker] = "pop" /\ pc' = [pc EXCEPT ![Worker] = "handle"]
          /\ log' = [log EXCEPT ![Worker] = Head(cache)] /\ cache' = Tail(cache)
          /\ UNCHANGED <<lifeVars, callVars, pool, logs, heap, logsMtx, rec>>
      BY <1>3, <2>1 DEF WorkerPop
    <3>3. QED
      BY <3>1, <3>2
  <2>2. CASE cache = <<>>
    BY <1>3, <2>2, ZenonT(40) DEF WorkerPop
  <2>3. QED
    BY <2>1, <2>2
<1>4. CASE WorkerSwap
  BY <1>4 DEF WorkerSwap
<1>5. CASE WorkerHandle
  BY <1>5 DEF WorkerHandle
<1>6. CASE WorkerReadActive \/ WorkerReadEmpty
  BY <1>6, ZenonT(40) DEF WorkerReadActive, WorkerReadEmpty
<1>7. CASE WorkerUpdate
  <2>1. CASE BeginPush(Worker, "pop")
    BY <1>7, <2>1, TypeInvBegin DEF WorkerUpdate
  <2>2. QED
    BY <1>7, <2>1, ZenonT(40) DEF WorkerUpdate
<1>8. CASE PushStep(Worker)
  BY <1>8, TypeInvPush
<1>9. QED
  BY <1>1, <1>2, <1>3, <1>4, <1>5, <1>6, <1>7, <1>8 DEF WorkerStep

(* Every step of the system keeps the types and the locals.                *)
LEMMA TypeInvNext == TypeInv /\ [Next]_vars => TypeInv'
<1> SUFFICES ASSUME TypeInv, [Next]_vars PROVE TypeInv'
  OBVIOUS
<1> USE DEF TypeInv, TypeOK, LocalsOK, CtlOK, Holding, Entering, CallLabels, WorkerLabels,
            Goto, lifeVars, buffVars, callVars
<1> Worker \in Threads
  BY DEF Threads
<1>1. CASE Start
  <2>1. starts' \in 0..MaxStarts
    BY <1>1, QueueAssumption DEF Start, QueueAssumption
  <2>2. QED
    BY <1>1, <2>1 DEF Start
<1>2. CASE StopCall
  BY <1>2 DEF StopCall
<1>3. CASE Join
  BY <1>3 DEF Join
<1>4. CASE WorkerStep
  BY <1>4, TypeInvWorker
<1>5. ASSUME NEW p \in Producers, ProducerPush(p) \/ PushStep(p)
      PROVE  TypeInv'
  <2> p \in Threads
    BY DEF Threads
  <2>1. CASE ProducerPush(p)
    BY <2>1, TypeInvBegin DEF ProducerPush
  <2>2. CASE PushStep(p)
    BY <2>2, TypeInvPush
  <2>3. QED
    BY <1>5, <2>1, <2>2
<1>6. CASE Finished \/ UNCHANGED vars
  BY <1>6 DEF Finished, vars
<1>7. QED
  BY <1>1, <1>2, <1>3, <1>4, <1>5, <1>6 DEF Next

(* TypeInv is an invariant: the proofs below rest on it.                   *)
LEMMA TypeInvariant == Spec => []TypeInv
BY TypeInvInit, TypeInvNext, PTL DEF Spec

(* Every variable, program counter and local keeps a value of its type.    *)
THEOREM TypeCorrect == Spec => []TypeOK
<1>1. TypeInv => TypeOK
  BY DEF TypeInv
<1>2. QED
  BY <1>1, TypeInvariant, PTL

---------------------------------------------------------------------------
(* The pool                                                                *)

(* The strengthening of PoolBound: a thread between the size test and the  *)
(* push_back counts as if its buffer were in _pool already.                *)
Adders == {t \in Threads : pc[t] = "pool_add"}

PoolInv == Len(pool) + Cardinality(Adders) <= PoolMax + Cardinality(Producers)

(* There are finitely many threads about to add to _pool.                  *)
LEMMA AddersFinite ==
  /\ IsFiniteSet(Threads) /\ Cardinality(Threads) = Cardinality(Producers) + 1
  /\ Cardinality(Producers) \in Nat
  /\ \A T \in SUBSET Threads :
       /\ IsFiniteSet(T) /\ Cardinality(T) \in Nat
       /\ Cardinality(T) <= Cardinality(Producers) + 1
       /\ \A U \in SUBSET T : Cardinality(U) <= Cardinality(T)
<1>1. IsFiniteSet(Producers) /\ Worker \notin Producers
  BY QueueAssumption DEF QueueAssumption
<1>2. IsFiniteSet(Threads) /\ Cardinality(Threads) = Cardinality(Producers) + 1
  BY <1>1, FS_AddElement DEF Threads
<1>3. Cardinality(Producers) \in Nat
  BY <1>1, FS_CardinalityType
<1>4. ASSUME NEW T \in SUBSET Threads
      PROVE  /\ IsFiniteSet(T) /\ Cardinality(T) \in Nat
             /\ Cardinality(T) <= Cardinality(Producers) + 1
             /\ \A U \in SUBSET T : Cardinality(U) <= Cardinality(T)
  <2>1. IsFiniteSet(T) /\ Cardinality(T) <= Cardinality(Threads)
    BY <1>2, FS_Subset
  <2>2. Cardinality(T) \in Nat
    BY <2>1, FS_CardinalityType
  <2>3. \A U \in SUBSET T : Cardinality(U) <= Cardinality(T)
    BY <2>1, FS_Subset
  <2>4. QED
    BY <1>2, <2>1, <2>2, <2>3
<1>5. QED
  BY <1>2, <1>3, <1>4

(* A step that adds neither to _pool nor to the threads about to do so.    *)
LEMMA PoolInvQuiet ==
  ASSUME TypeInv, PoolInv, Len(pool') \in Nat, Len(pool') <= Len(pool),
         Adders' \subseteq Adders
  PROVE  PoolInv'
<1>1. Cardinality(Adders') <= Cardinality(Adders)
  BY AddersFinite DEF Adders
<1>2. Cardinality(Adders) \in Nat /\ Cardinality(Adders') \in Nat
  BY AddersFinite DEF Adders
<1>3. Len(pool) \in Nat
  BY LenProperties DEF TypeInv, TypeOK
<1>4. QED
  BY <1>1, <1>2, <1>3, AddersFinite, QueueAssumption DEF PoolInv, QueueAssumption

(* Every step of push() keeps the bound on _pool and its coming additions. *)
LEMMA PoolInvPush ==
  ASSUME TypeInv, PoolInv, NEW t \in Threads, PushStep(t)
  PROVE  PoolInv'
<1> USE DEF Goto, Return
<1>0. /\ pc \in [Threads -> CallLabels \cup WorkerLabels \cup {"idle"}]
      /\ ret[t] # "pool_add" /\ pool \in Seq(Buffers) /\ Len(pool) \in Nat
      /\ PoolMax \in Nat
  BY LenProperties, QueueAssumption DEF TypeInv, TypeOK, QueueAssumption
<1>1. CASE Prepush(t) \/ Throttle(t) \/ Wake(t) \/ Check(t) \/ Enlist(t)
  <2>1. pool' = pool /\ Adders' \subseteq Adders
    BY <1>0, <1>1
       DEF Prepush, Throttle, Wake, Check, Enlist, Adders, lifeVars, buffVars, callVars
  <2>2. QED
    BY <1>0, <2>1, PoolInvQuiet
<1>2. CASE Make(t)
  <2>1. Adders' \subseteq Adders
    BY <1>0, <1>2 DEF Make, Adders
  <2>2. Len(pool') \in Nat /\ Len(pool') <= Len(pool)
    <3>1. CASE pool # <<>> /\ pool' = Front(pool)
      BY <1>0, <3>1, FrontLast
    <3>2. CASE UNCHANGED pool
      BY <1>0, <3>2
    <3>3. QED
      BY <1>2, <3>1, <3>2 DEF Make
  <2>3. QED
    BY <2>1, <2>2, PoolInvQuiet
<1>3. CASE FreeCheck(t)
  <2>1. CASE Len(pool) < PoolMax /\ UNCHANGED pool
    <3>1. Cardinality(Adders') \in Nat /\ Cardinality(Adders') <= Cardinality(Producers) + 1
      BY AddersFinite DEF Adders
    <3>2. QED
      BY <1>0, <2>1, <3>1, AddersFinite DEF PoolInv
  <2>2. CASE Return(t) /\ UNCHANGED pool
    <3>1. Adders' \subseteq Adders
      BY <1>0, <2>2 DEF Adders
    <3>2. QED
      BY <1>0, <2>2, <3>1, PoolInvQuiet
  <2>3. QED
    BY <1>3, <2>1, <2>2 DEF FreeCheck
<1>4. CASE PoolAdd(t)
  <2>1. Adders' = Adders \ {t} /\ t \in Adders
    BY <1>0, <1>4 DEF PoolAdd, Adders
  <2>2. Cardinality(Adders') = Cardinality(Adders) - 1 /\ Cardinality(Adders) \in Nat
    <3>1. IsFiniteSet(Adders) /\ Cardinality(Adders) \in Nat
      BY AddersFinite DEF Adders
    <3>2. QED
      BY <2>1, <3>1, FS_RemoveElement
  <2>3. Len(pool') = Len(pool) + 1
    <3>1. log[t] \in Buffers
      BY <1>4 DEF PoolAdd, TypeInv, TypeOK, LocalsOK, Holding
    <3>2. QED
      BY <1>0, <1>4, <3>1, AppendProperties DEF PoolAdd
  <2>4. QED
    BY <1>0, <2>2, <2>3, AddersFinite DEF PoolInv
<1>5. QED
  BY <1>1, <1>2, <1>3, <1>4 DEF PushStep

(* So does every step of the system.                                       *)
LEMMA PoolInvNext == TypeInv /\ PoolInv /\ [Next]_vars => PoolInv'
<1> SUFFICES ASSUME TypeInv, PoolInv, [Next]_vars PROVE PoolInv'
  OBVIOUS
<1> USE DEF Goto
<1>0. /\ pc \in [Threads -> CallLabels \cup WorkerLabels \cup {"idle"}]
      /\ Len(pool) \in Nat /\ Worker \in Threads /\ Producers \subseteq Threads
  BY LenProperties DEF TypeInv, TypeOK, Threads
<1>1. ASSUME NEW t \in Threads, PushStep(t) PROVE PoolInv'
  BY <1>1, PoolInvPush
<1>2. ASSUME NEW t \in Threads, NEW back, BeginPush(t, back) PROVE PoolInv'
  <2>1. pool' = pool /\ Adders' \subseteq Adders
    BY <1>0, <1>2 DEF BeginPush, Adders, buffVars
  <2>2. QED
    BY <1>0, <2>1, PoolInvQuiet
<1>3. CASE Start \/ StopCall \/ Join \/ Finished \/ UNCHANGED vars
  <2>1. pool' = pool /\ Adders' \subseteq Adders
    BY <1>0, <1>3
       DEF Start, StopCall, Join, Finished, Adders, buffVars, lifeVars, callVars, vars
  <2>2. QED
    BY <1>0, <2>1, PoolInvQuiet
<1>4. CASE \/ WorkerEnter \/ WorkerPop \/ WorkerSwap \/ WorkerHandle
           \/ WorkerReadActive \/ WorkerReadEmpty
  <2>1. pool' = pool /\ Adders' \subseteq Adders
    BY <1>0, <1>4
       DEF WorkerEnter, WorkerPop, WorkerSwap, WorkerHandle, WorkerReadActive,
           WorkerReadEmpty, Adders, buffVars, lifeVars, callVars
  <2>2. QED
    BY <1>0, <2>1, PoolInvQuiet
<1>5. CASE WorkerPrologue \/ WorkerUpdate
  <2>1. CASE Goto(Worker, "pop") /\ UNCHANGED buffVars
    <3>1. pool' = pool /\ Adders' \subseteq Adders
      BY <1>0, <2>1 DEF Adders, buffVars
    <3>2. QED
      BY <1>0, <3>1, PoolInvQuiet
  <2>2. QED
    BY <1>0, <1>2, <1>5, <2>1 DEF WorkerPrologue, WorkerUpdate
<1>6. QED
  BY <1>0, <1>1, <1>2, <1>3, <1>4, <1>5 DEF Next, WorkerStep, ProducerPush

(* _pool holds at most PoolMax buffers and one for each producer.          *)
THEOREM PoolIsBounded == Spec => []PoolBound
<1>1. Init => PoolInv
  <2> SUFFICES ASSUME Init PROVE PoolInv
    OBVIOUS
  <2>1. Adders = {}
    BY DEF Init, Adders
  <2>2. Cardinality(Adders) = 0 /\ Len(pool) = 0
    BY <2>1, FS_EmptySet, EmptySeq DEF Init
  <2>3. QED
    BY <2>2, AddersFinite, QueueAssumption DEF PoolInv, QueueAssumption
<1>2. TypeInv /\ PoolInv => PoolBound
  <2> SUFFICES ASSUME TypeInv, PoolInv PROVE PoolBound
    OBVIOUS
  <2>1. Cardinality(Adders) \in Nat
    BY AddersFinite DEF Adders
  <2>2. Len(pool) \in Nat
    BY LenProperties DEF TypeInv, TypeOK
  <2>3. QED
    BY <2>1, <2>2, AddersFinite, QueueAssumption DEF PoolInv, PoolBound, QueueAssumption
<1>3. QED
  BY <1>1, <1>2, PoolInvNext, TypeInvariant, PTL DEF Spec

---------------------------------------------------------------------------
(* Ownership of the buffers                                                *)

(* A thread takes up a buffer.                                             *)
LEMMA HeldGain ==
  ASSUME TypeInv, NEW t \in Threads, NEW b \in Buffers,
         log[t] = NULL, log' = [log EXCEPT ![t] = b]
  PROVE  /\ Held' = Held \cup {b}
         /\ OneOwner /\ b \notin Held =>
              \A u, v \in Threads : log'[u] = log'[v] => u = v \/ log'[u] = NULL
<1>1. log \in [Threads -> Buffers \cup {NULL}] /\ NULL \notin Buffers
  BY QueueAssumption DEF TypeInv, TypeOK, QueueAssumption
<1>2. Held' \subseteq Held \cup {b}
  BY <1>1 DEF Held
<1>3. Held \subseteq Held' /\ b \in Held'
  BY <1>1 DEF Held
<1>4. ASSUME OneOwner, b \notin Held, NEW u \in Threads, NEW v \in Threads,
             log'[u] = log'[v]
      PROVE  u = v \/ log'[u] = NULL
  BY <1>1, <1>4 DEF OneOwner, Held
<1>5. QED
  BY <1>2, <1>3, <1>4

(* A thread gives up the buffer it holds.                                  *)
LEMMA HeldLose ==
  ASSUME TypeInv, OneOwner, NEW t \in Threads,
         log[t] # NULL, log' = [log EXCEPT ![t] = NULL]
  PROVE  /\ Held' = Held \ {log[t]} /\ log[t] \in Held
         /\ \A u, v \in Threads : log'[u] = log'[v] => u = v \/ log'[u] = NULL
<1>1. log \in [Threads -> Buffers \cup {NULL}] /\ NULL \notin Buffers
  BY QueueAssumption DEF TypeInv, TypeOK, QueueAssumption
<1>2. \A u, v \in Threads : log[u] = log[v] => u = v \/ log[u] = NULL
  BY DEF OneOwner
<1>3. Held' \subseteq Held \ {log[t]}
  BY <1>1, <1>2 DEF Held
<1>4. Held \ {log[t]} \subseteq Held'
  BY <1>1 DEF Held
<1>5. log[t] \in Held
  BY <1>1 DEF Held
<1>6. QED
  BY <1>1, <1>2, <1>3, <1>4, <1>5

(* A step that moves no buffer.                                            *)
LEMMA OwnerQuiet ==
  ASSUME OneOwner, UNCHANGED <<pool, logs, cache, heap, log>>
  PROVE  OneOwner'
BY DEF OneOwner, Held

(* OneOwner is inductive with the types: each step moves one buffer from   *)
(* one place to another, or exchanges _logs and _cache.                    *)
LEMMA OwnerPush ==
  ASSUME TypeInv, OneOwner, NEW t \in Threads, PushStep(t)
  PROVE  OneOwner'
<1>0. /\ pool \in Seq(Buffers) /\ logs \in Seq(Buffers) /\ cache \in Seq(Buffers)
      /\ heap \subseteq Buffers
      /\ pc[t] \in Holding => log[t] \in Buffers /\ log[t] # NULL
      /\ pc[t] \notin Holding => log[t] = NULL
  BY DEF TypeInv, TypeOK, LocalsOK
<1>1. CASE Prepush(t) \/ Throttle(t) \/ Wake(t) \/ Check(t)
  BY <1>1, OwnerQuiet DEF Prepush, Throttle, Wake, Check, buffVars
<1>2. CASE Make(t)
  <2>1. PICK b \in Buffers :
          /\ \/ pool # <<>> /\ b = Last(pool) /\ pool' = Front(pool) /\ UNCHANGED heap
             \/ b \in heap /\ heap' = heap \ {b} /\ UNCHANGED pool
          /\ log' = [log EXCEPT ![t] = b]
          /\ UNCHANGED <<logs, cache>>
    BY <1>2 DEF Make
  <2>2. log[t] = NULL
    BY <1>0, <1>2 DEF Make, Holding
  <2>3. CASE pool # <<>> /\ b = Last(pool) /\ pool' = Front(pool) /\ UNCHANGED heap
    <3>1. /\ Range(pool') = Range(pool) \ {b} /\ b \in Range(pool)
          /\ IsInjective(pool')
      BY <1>0, <2>3, FrontRange DEF OneOwner
    <3>2. b \notin Held
      BY <3>1 DEF OneOwner
    <3>3. /\ Held' = Held \cup {b}
          /\ \A u, v \in Threads : log'[u] = log'[v] => u = v \/ log'[u] = NULL
      BY <2>1, <2>2, <3>2, HeldGain
    <3>4. QED
      BY <2>1, <2>3, <3>1, <3>3 DEF OneOwner
  <2>4. CASE b \in heap /\ heap' = heap \ {b} /\ UNCHANGED pool
    <3>1. b \notin Held
      BY <2>4 DEF OneOwner
    <3>2. /\ Held' = Held \cup {b}
          /\ \A u, v \in Threads : log'[u] = log'[v] => u = v \/ log'[u] = NULL
      BY <2>1, <2>2, <3>1, HeldGain
    <3>3. QED
      BY <2>1, <2>4, <3>2 DEF OneOwner
  <2>5. QED
    BY <2>1, <2>3, <2>4
<1>3. CASE Enlist(t)
  <2>1. /\ log[t] \in Buffers /\ log[t] # NULL
        /\ logs' = Append(logs, log[t]) /\ log' = [log EXCEPT ![t] = NULL]
        /\ UNCHANGED <<pool, cache, heap>>
    BY <1>0, <1>3 DEF Enlist, Holding
  <2>2. /\ Held' = Held \ {log[t]} /\ log[t] \in Held
        /\ \A u, v \in Threads : log'[u] = log'[v] => u = v \/ log'[u] = NULL
    BY <2>1, HeldLose
  <2>3. Range(logs') = Range(logs) \cup {log[t]} /\ IsInjective(logs')
    BY <1>0, <2>1, <2>2, AppendRange DEF OneOwner
  <2>4. QED
    BY <2>1, <2>2, <2>3 DEF OneOwner
<1>4. CASE FreeCheck(t)
  <2>1. CASE UNCHANGED <<pool, heap, log>>
    BY <1>4, <2>1, OwnerQuiet DEF FreeCheck
  <2>2. CASE heap' = heap \cup {log[t]} /\ log' = [log EXCEPT ![t] = NULL]
    <3>1. log[t] \in Buffers /\ log[t] # NULL /\ UNCHANGED <<pool, logs, cache>>
      BY <1>0, <1>4 DEF FreeCheck, Holding
    <3>2. /\ Held' = Held \ {log[t]} /\ log[t] \in Held
          /\ \A u, v \in Threads : log'[u] = log'[v] => u = v \/ log'[u] = NULL
      BY <2>2, <3>1, HeldLose
    <3>3. QED
      BY <2>2, <3>1, <3>2 DEF OneOwner
  <2>3. QED
    BY <1>4, <2>1, <2>2 DEF FreeCheck
<1>5. CASE PoolAdd(t)
  <2>1. /\ log[t] \in Buffers /\ log[t] # NULL
        /\ pool' = Append(pool, log[t]) /\ log' = [log EXCEPT ![t] = NULL]
        /\ UNCHANGED <<logs, cache, heap>>
    BY <1>0, <1>5 DEF PoolAdd, Holding
  <2>2. /\ Held' = Held \ {log[t]} /\ log[t] \in Held
        /\ \A u, v \in Threads : log'[u] = log'[v] => u = v \/ log'[u] = NULL
    BY <2>1, HeldLose
  <2>3. Range(pool') = Range(pool) \cup {log[t]} /\ IsInjective(pool')
    BY <1>0, <2>1, <2>2, AppendRange DEF OneOwner
  <2>4. QED
    BY <2>1, <2>2, <2>3 DEF OneOwner
<1>6. QED
  BY <1>1, <1>2, <1>3, <1>4, <1>5 DEF PushStep

(* Every step of the system leaves each buffer with one owner.             *)
LEMMA OwnerNext == TypeInv /\ OneOwner /\ [Next]_vars => OneOwner'
<1> SUFFICES ASSUME TypeInv, OneOwner, [Next]_vars PROVE OneOwner'
  OBVIOUS
<1> Worker \in Threads /\ Producers \subseteq Threads
  BY DEF Threads
<1>1. ASSUME NEW t \in Threads, PushStep(t) PROVE OneOwner'
  BY <1>1, OwnerPush
<1>2. ASSUME NEW t \in Threads, NEW back, BeginPush(t, back) PROVE OneOwner'
  BY <1>2, OwnerQuiet DEF BeginPush, buffVars
<1>3. CASE Start \/ StopCall \/ Join \/ Finished \/ UNCHANGED vars
  BY <1>3, OwnerQuiet DEF Start, StopCall, Join, Finished, vars, buffVars
<1>4. CASE WorkerEnter \/ WorkerHandle \/ WorkerReadActive \/ WorkerReadEmpty
  BY <1>4, OwnerQuiet
     DEF WorkerEnter, WorkerHandle, WorkerReadActive, WorkerReadEmpty, buffVars
<1>5. CASE WorkerPrologue \/ WorkerUpdate
  <2>1. CASE UNCHANGED <<buffVars, log>>
    BY <2>1, OwnerQuiet DEF buffVars
  <2>2. QED
    BY <1>2, <1>5, <2>1 DEF WorkerPrologue, WorkerUpdate
<1>6. CASE WorkerPop
  <2>1. CASE UNCHANGED <<cache, log>>
    BY <1>6, <2>1, OwnerQuiet DEF WorkerPop
  <2>2. CASE /\ cache # <<>> /\ cache' = Tail(cache)
             /\ log' = [log EXCEPT ![Worker] = Head(cache)]
    <3>1. /\ cache \in Seq(Buffers) /\ log[Worker] = NULL
          /\ UNCHANGED <<pool, logs, heap>>
      BY <1>6 DEF WorkerPop, TypeInv, TypeOK, LocalsOK, Holding
    <3>2. /\ Range(cache') = Range(cache) \ {Head(cache)}
          /\ Head(cache) \in Range(cache) /\ IsInjective(cache')
      BY <2>2, <3>1, TailRange DEF OneOwner
    <3>3. Head(cache) \in Buffers \ Held
      BY <2>2, <3>1, <3>2, HeadTailProperties DEF OneOwner
    <3>4. /\ Held' = Held \cup {Head(cache)}
          /\ \A u, v \in Threads : log'[u] = log'[v] => u = v \/ log'[u] = NULL
      BY <2>2, <3>1, <3>3, HeldGain
    <3>5. QED
      BY <3>1, <3>2, <3>4 DEF OneOwner
  <2>3. QED
    BY <1>6, <2>1, <2>2 DEF WorkerPop
<1>7. CASE WorkerSwap
  BY <1>7 DEF WorkerSwap, OneOwner, Held
<1>8. QED
  BY <1>1, <1>2, <1>3, <1>4, <1>5, <1>6, <1>7 DEF Next, WorkerStep, ProducerPush

(* No buffer is leaked, freed twice, or in the hands of two threads.       *)
THEOREM EachBufferHasOneOwner == Spec => []OneOwner
<1>1. Init => OneOwner
  <2> SUFFICES ASSUME Init PROVE OneOwner
    OBVIOUS
  <2>1. Range(<<>>) = {} /\ IsInjective(<<>>)
    BY DEF Range, IsInjective
  <2>2. Held = {}
    BY QueueAssumption DEF Init, Held, QueueAssumption
  <2>3. QED
    BY <2>1, <2>2 DEF Init, OneOwner
<1>2. QED
  BY <1>1, OwnerNext, TypeInvariant, PTL DEF Spec
---------------------------------------------------------------------------
(* The backlog of a queue that is being stopped                            *)

(* The strengthening of DrainingShrinks: only a thread in entry() sets     *)
(* _active, and it has done so before stop() can find anything to stop.    *)
StopInv ==
  /\ ctl \in {"stopped", "joining"} => ~active
  /\ active \/ ctl = "joining" => pc[Worker] \notin {"none", "entry"}

(* Nothing is started yet.                                                 *)
LEMMA StopInvInit == Init => StopInv
BY DEF Init, StopInv

(* Only start() takes the worker to entry(), and only entry() sets _active. *)
LEMMA StopInvNext == TypeInv /\ StopInv /\ [Next]_vars => StopInv'
<1> SUFFICES ASSUME TypeInv, StopInv, [Next]_vars PROVE StopInv'
  OBVIOUS
<1> USE DEF StopInv, TypeInv, TypeOK, CtlOK, Goto, Return, lifeVars, buffVars, callVars, Threads
<1>1. ASSUME NEW t \in Threads, PushStep(t) PROVE StopInv'
  <2>1. /\ UNCHANGED <<ctl, active>>
        /\ \E l \in CallLabels \cup {ret[t]} : pc' = [pc EXCEPT ![t] = l]
    BY <1>1 DEF PushStep, Prepush, Throttle, Wake, Make, Check, Enlist, FreeCheck, PoolAdd,
                CallLabels
  <2>2. ret[t] \in {"idle", "prologue", "pop"} /\ Worker \in DOMAIN pc
    OBVIOUS
  <2>3. QED
    BY <2>1, <2>2 DEF CallLabels
<1>2. ASSUME NEW t \in Threads, NEW back, BeginPush(t, back) PROVE StopInv'
  BY <1>2 DEF BeginPush
<1>3. CASE Start \/ StopCall \/ Join \/ Finished \/ UNCHANGED vars
  BY <1>3 DEF Start, StopCall, Join, Finished, vars
<1>4. CASE WorkerEnter \/ WorkerHandle \/ WorkerReadActive \/ WorkerReadEmpty
  BY <1>4 DEF WorkerEnter, WorkerHandle, WorkerReadActive, WorkerReadEmpty
<1>5. CASE WorkerPrologue \/ WorkerUpdate
  <2>1. CASE Goto(Worker, "pop") /\ UNCHANGED <<ctl, active>>
    BY <2>1
  <2>2. QED
    BY <1>2, <1>5, <2>1 DEF WorkerPrologue, WorkerUpdate
<1>6. CASE WorkerPop \/ WorkerSwap
  BY <1>6 DEF WorkerPop, WorkerSwap
<1>7. QED
  BY <1>1, <1>2, <1>3, <1>4, <1>5, <1>6 DEF Next, WorkerStep, ProducerPush

NoMore == Backlog' <= Backlog

(* A step that neither fills the queue nor lets a thread past the test.    *)
LEMMA BacklogQuiet ==
  ASSUME TypeInv, Len(cache') \in Nat, Len(logs') \in Nat,
         Len(cache') + Len(logs') <= Len(cache) + Len(logs),
         Enqueuing' \subseteq Enqueuing
  PROVE  NoMore
<1>1. /\ Cardinality(Enqueuing) \in Nat /\ Cardinality(Enqueuing') \in Nat
      /\ Cardinality(Enqueuing') <= Cardinality(Enqueuing)
  BY AddersFinite DEF Enqueuing
<1>2. Len(cache) \in Nat /\ Len(logs) \in Nat
  BY LenProperties DEF TypeInv, TypeOK
<1>3. QED
  BY <1>1, <1>2 DEF NoMore, Backlog

(* In push(), a record goes into the queue with its thread out of the way. *)
LEMMA BacklogPush ==
  ASSUME TypeInv, ~active, NEW t \in Threads, PushStep(t)
  PROVE  NoMore
<1> USE DEF Goto, Return
<1>0. /\ pc \in [Threads -> CallLabels \cup WorkerLabels \cup {"idle"}]
      /\ ret[t] # "append" /\ logs \in Seq(Buffers)
      /\ Len(cache) \in Nat /\ Len(logs) \in Nat
  BY LenProperties DEF TypeInv, TypeOK
<1>1. CASE \/ Prepush(t) \/ Throttle(t) \/ Wake(t) \/ Make(t)
           \/ Check(t) \/ FreeCheck(t) \/ PoolAdd(t)
  <2>1. UNCHANGED <<cache, logs>>
    BY <1>1 DEF Prepush, Throttle, Wake, Make, Check, FreeCheck, PoolAdd, buffVars
  <2>2. \E l \in {"prepush", "limit", "asleep", "make", "check", "free", "pool_add", ret[t]} :
          pc' = [pc EXCEPT ![t] = l]
    BY <1>1 DEF Prepush, Throttle, Wake, Make, Check, FreeCheck, PoolAdd
  <2>3. Enqueuing' \subseteq Enqueuing
    BY <1>0, <2>2 DEF Enqueuing
  <2>4. QED
    BY <1>0, <2>1, <2>3, BacklogQuiet
<1>2. CASE Enlist(t)
  <2>1. Enqueuing' = Enqueuing \ {t} /\ t \in Enqueuing
    BY <1>0, <1>2 DEF Enlist, Enqueuing
  <2>2. Cardinality(Enqueuing') = Cardinality(Enqueuing) - 1 /\ Cardinality(Enqueuing) \in Nat
    <3>1. IsFiniteSet(Enqueuing) /\ Cardinality(Enqueuing) \in Nat
      BY AddersFinite DEF Enqueuing
    <3>2. QED
      BY <2>1, <3>1, FS_RemoveElement
  <2>3. Len(logs') = Len(logs) + 1 /\ cache' = cache
    <3>1. log[t] \in Buffers
      BY <1>2 DEF Enlist, TypeInv, TypeOK, LocalsOK, Holding
    <3>2. QED
      BY <1>0, <1>2, <3>1, AppendProperties DEF Enlist
  <2>4. QED
    BY <1>0, <2>2, <2>3 DEF NoMore, Backlog
<1>3. QED
  BY <1>1, <1>2 DEF PushStep

(* So does every step of the worker, and of the other threads.             *)
LEMMA BacklogNext ==
  ASSUME TypeInv, StopInv, [Next]_vars, ctl = "joining", ctl' = "joining"
  PROVE  NoMore
<1> USE DEF Goto
<1>0. /\ pc \in [Threads -> CallLabels \cup WorkerLabels \cup {"idle"}]
      /\ cache \in Seq(Buffers) /\ Len(cache) \in Nat /\ Len(logs) \in Nat
      /\ Worker \in Threads /\ Producers \subseteq Threads
      /\ ~active /\ pc[Worker] # "entry"
  BY LenProperties DEF TypeInv, TypeOK, Threads, StopInv
<1>1. ASSUME NEW t \in Threads, PushStep(t) PROVE NoMore
  BY <1>0, <1>1, BacklogPush
<1>2. ASSUME UNCHANGED <<cache, logs>>, Enqueuing' \subseteq Enqueuing PROVE NoMore
  BY <1>0, <1>2, BacklogQuiet
<1>3. ASSUME NEW t \in Threads, NEW back, BeginPush(t, back) PROVE NoMore
  <2>1. UNCHANGED <<cache, logs>> /\ Enqueuing' \subseteq Enqueuing
    BY <1>0, <1>3 DEF BeginPush, Enqueuing, buffVars
  <2>2. QED
    BY <1>2, <2>1
<1>4. CASE Start \/ StopCall \/ Join
  BY <1>4 DEF Start, StopCall, Join
<1>5. CASE Finished \/ UNCHANGED vars
  <2>1. UNCHANGED <<cache, logs>> /\ Enqueuing' \subseteq Enqueuing
    BY <1>5 DEF Finished, Enqueuing, buffVars, vars
  <2>2. QED
    BY <1>2, <2>1
<1>6. CASE \/ WorkerEnter \/ WorkerHandle \/ WorkerReadActive \/ WorkerReadEmpty
  <2>1. UNCHANGED <<cache, logs>> /\ Enqueuing' \subseteq Enqueuing
    BY <1>0, <1>6
       DEF WorkerEnter, WorkerHandle, WorkerReadActive, WorkerReadEmpty, Enqueuing, buffVars
  <2>2. QED
    BY <1>2, <2>1
<1>7. CASE WorkerPrologue \/ WorkerUpdate
  <2>1. CASE Goto(Worker, "pop") /\ UNCHANGED buffVars
    <3>1. UNCHANGED <<cache, logs>> /\ Enqueuing' \subseteq Enqueuing
      BY <1>0, <2>1 DEF Enqueuing, buffVars
    <3>2. QED
      BY <1>2, <3>1
  <2>2. QED
    BY <1>0, <1>3, <1>7, <2>1 DEF WorkerPrologue, WorkerUpdate
<1>8. CASE WorkerPop \/ WorkerSwap
  <2>1. Enqueuing' \subseteq Enqueuing
    BY <1>0, <1>8 DEF WorkerPop, WorkerSwap, Enqueuing
  <2>2. CASE cache # <<>> /\ cache' = Tail(cache) /\ UNCHANGED logs
    <3>1. Len(cache') = Len(cache) - 1 /\ Len(cache') \in Nat
      BY <1>0, <2>2, HeadTailProperties, EmptySeq
    <3>2. QED
      BY <1>0, <2>1, <2>2, <3>1, BacklogQuiet
  <2>3. CASE UNCHANGED <<cache, logs>>
    BY <1>2, <2>1, <2>3
  <2>4. CASE cache' = logs /\ logs' = cache
    BY <1>0, <2>1, <2>4, BacklogQuiet
  <2>5. QED
    BY <1>8, <2>2, <2>3, <2>4 DEF WorkerPop, WorkerSwap
<1>9. QED
  BY <1>0, <1>1, <1>3, <1>4, <1>5, <1>6, <1>7, <1>8 DEF Next, WorkerStep, ProducerPush

(* While stop() waits, the queue and those about to enqueue never grow.    *)
THEOREM BacklogShrinks == Spec => DrainingShrinks
<1>1. TypeInv /\ StopInv /\ [Next]_vars =>
        [ctl = "joining" /\ ctl' = "joining" => Backlog' <= Backlog]_vars
  BY BacklogNext DEF NoMore
<1>2. QED
  BY <1>1, StopInvInit, StopInvNext, TypeInvariant, PTL DEF Spec, DrainingShrinks
===========================================================================
