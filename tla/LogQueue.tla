----------------------------- MODULE LogQueue -----------------------------
(***************************************************************************)
(* The path of a log buffer through log4x.cpp: a logging thread takes a    *)
(* buffer from _pool or from the heap (make), fills it, appends it to      *)
(* _logs (push), the worker swaps _logs into _cache, pops it, handles it   *)
(* and gives it back (free).  The worker logs too, through the same code.  *)
(*                                                                         *)
(* An action runs from one access to shared state to the next; a critical  *)
(* section of _pool_mtx or _cache_mtx is one action, _logs_mtx is a        *)
(* variable because prepush sleeps with it locked.  Reads the code makes   *)
(* without a lock (_active, _logs.empty(), _pool.size()) are actions of    *)
(* their own, apart from the step that relies on them.                     *)
(*                                                                         *)
(* The verdict of the key registry (unknown, disabled or filtered key) is  *)
(* an input here: either outcome, whenever the code asks for it.           *)
(***************************************************************************)
EXTENDS Integers, FiniteSets, SequencesExt

CONSTANTS
  Producers,    (* threads of the application that call push()             *)
  Worker,       (* the thread that runs log4x::run()                       *)
  Buffers,      (* addresses malloc can return for a log4x_t               *)
  NULL,         (* no buffer, no mutex holder                              *)
  PoolMax,      (* the 200 of log4x::free                                  *)
  QueueLimit,   (* LOG4X_LOG_QUEUE_LIMIT_SIZE                              *)
  MaxCalls,     (* bound: calls of push() each thread makes                *)
  MaxStarts     (* bound: successful calls of start()                      *)

Threads == Producers \cup {Worker}

ASSUME QueueAssumption ==
  /\ Worker \notin Producers
  /\ NULL \notin Buffers \cup Threads
  /\ IsFiniteSet(Producers)
  /\ PoolMax \in Nat
  /\ QueueLimit \in Nat \ {0}
  /\ MaxCalls \in [Threads -> Nat]
  /\ MaxStarts \in Nat

VARIABLES
  active,       (* Thread::_active                                         *)
  ctl,          (* the controlling thread, between or inside start/stop    *)
  starts,       (* calls of start() made so far                            *)
  pool, logs, cache,
  heap,         (* addresses malloc can hand out                           *)
  logsMtx,      (* the thread asleep with _logs_mtx locked, or NULL        *)
  rec,          (* what each buffer holds: <<thread, number of its call>>  *)
  calls,        (* calls of push() begun by each thread                    *)
  pc, log,      (* per thread: place in the code, the local `log'          *)
  ret           (* per thread: where push() or free() returns to           *)

lifeVars == <<active, ctl, starts>>
buffVars == <<pool, logs, cache, heap, logsMtx, rec>>
callVars == <<calls, ret>>
vars == <<lifeVars, buffVars, callVars, pc, log>>

Records == UNION {{t} \X (1..MaxCalls[t]) : t \in Threads}
NoRecord == <<NULL, 0>>

Goto(t, label) == pc' = [pc EXCEPT ![t] = label]
Return(t) == Goto(t, ret[t])

Init ==
  /\ active = FALSE
  /\ ctl = "stopped"
  /\ starts = 0
  /\ pool = <<>> /\ logs = <<>> /\ cache = <<>>
  /\ heap = Buffers
  /\ logsMtx = NULL
  /\ rec = [b \in Buffers |-> NoRecord]
  /\ calls = [t \in Threads |-> 0]
  /\ pc = [t \in Threads |-> IF t = Worker THEN "none" ELSE "idle"]
  /\ log = [t \in Threads |-> NULL]
  /\ ret = [t \in Threads |-> "idle"]

---------------------------------------------------------------------------
(* push(), as every thread runs it                                         *)

\* A thread enters push() and will go on at `back' when it returns.
BeginPush(t, back) ==
  /\ calls[t] < MaxCalls[t]
  /\ calls' = [calls EXCEPT ![t] = @ + 1]
  /\ ret' = [ret EXCEPT ![t] = back]
  /\ Goto(t, "prepush")
  /\ UNCHANGED <<lifeVars, buffVars, log>>

\* prepush refuses when _active is false, or when the key's level filters.
Prepush(t) ==
  /\ pc[t] = "prepush"
  /\ \/ active /\ Goto(t, "limit")
     \/ Return(t)
  /\ UNCHANGED <<lifeVars, buffVars, callVars, log>>

\* The chance in a hundred, and the milliseconds, of a sleep in prepush.
Rate ==
  IF Len(logs) > QueueLimit
  THEN Min({100, ((Len(logs) - QueueLimit) * 100) \div QueueLimit})
  ELSE 0

\* prepush looks at the length of _logs and may go to sleep with the lock.
Throttle(t) ==
  /\ pc[t] = "limit"
  /\ logsMtx = NULL
  /\ \/ Rate < 100 /\ Goto(t, "make") /\ UNCHANGED logsMtx
     \/ Rate > 0 /\ Goto(t, "asleep") /\ logsMtx' = t
  /\ UNCHANGED <<lifeVars, callVars, pool, logs, cache, heap, rec, log>>

\* Slip: the sleeper looks at the queue again, as if it waited for room.
WakeRechecks(t) ==
  /\ pc[t] = "asleep"
  /\ logsMtx' = NULL
  /\ Goto(t, "limit")
  /\ UNCHANGED <<lifeVars, callVars, pool, logs, cache, heap, rec, log>>

Wake(t) ==
  /\ pc[t] = "asleep"
  /\ logsMtx' = NULL
  /\ Goto(t, "make")
  /\ UNCHANGED <<lifeVars, callVars, pool, logs, cache, heap, rec, log>>

\* Slip: an empty _pool is not followed by an allocation.
MakeFromPoolOnly(t) ==
  /\ pc[t] = "make"
  /\ log' = [log EXCEPT ![t] = IF pool = <<>> THEN NULL ELSE Last(pool)]
  /\ pool' = IF pool = <<>> THEN pool ELSE Front(pool)
  /\ Goto(t, "check")
  /\ UNCHANGED <<lifeVars, callVars, logs, cache, heap, logsMtx, rec>>

\* make takes the last buffer of _pool, or a new one, and stamps it.
Make(t) ==
  /\ pc[t] = "make"
  /\ \E b \in Buffers :
       /\ \/ pool # <<>> /\ b = Last(pool) /\ pool' = Front(pool) /\ UNCHANGED heap
          \/ pool = <<>> /\ b \in heap /\ heap' = heap \ {b} /\ UNCHANGED pool
       /\ log' = [log EXCEPT ![t] = b]
       /\ rec' = [rec EXCEPT ![b] = <<t, calls[t]>>]
  /\ Goto(t, "check")
  /\ UNCHANGED <<lifeVars, callVars, logs, cache, logsMtx>>

\* Slip: the second test of _active is left out, prepush having made one.
CheckTrustsPrepush(t) ==
  /\ pc[t] = "check"
  /\ Goto(t, "append") \/ Goto(t, "free")
  /\ UNCHANGED <<lifeVars, buffVars, callVars, log>>

\* push discards the buffer when _active is false or the registry says so.
Check(t) ==
  /\ pc[t] = "check"
  /\ \/ active /\ Goto(t, "append")
     \/ Goto(t, "free")
  /\ UNCHANGED <<lifeVars, buffVars, callVars, log>>

Enlist(t) ==
  /\ pc[t] = "append"
  /\ logsMtx = NULL
  /\ logs' = Append(logs, log[t])
  /\ log' = [log EXCEPT ![t] = NULL]
  /\ Return(t)
  /\ UNCHANGED <<lifeVars, callVars, pool, cache, heap, logsMtx, rec>>

\* Slip: `<=' for `<' in the size test of free.
FreeCheckInclusive(t) ==
  /\ pc[t] = "free"
  /\ \/ /\ Len(pool) <= PoolMax
        /\ Goto(t, "pool_add")
        /\ UNCHANGED <<heap, log>>
     \/ /\ Len(pool) > PoolMax
        /\ heap' = heap \cup {log[t]}
        /\ log' = [log EXCEPT ![t] = NULL]
        /\ Return(t)
  /\ UNCHANGED <<lifeVars, callVars, pool, logs, cache, logsMtx, rec>>

\* free tests _pool.size() outside _pool_mtx.  The read races with another
\* thread's push_back: while that one moves the vector, any size can be seen.
FreeCheck(t) ==
  /\ pc[t] = "free"
  /\ \/ /\ Len(pool) < PoolMax
        /\ Goto(t, "pool_add")
        /\ UNCHANGED <<heap, log>>
     \/ /\ Len(pool) >= PoolMax \/ \E u \in Threads \ {t} : pc[u] = "pool_add"
        /\ heap' = heap \cup {log[t]}
        /\ log' = [log EXCEPT ![t] = NULL]
        /\ Return(t)
  /\ UNCHANGED <<lifeVars, callVars, pool, logs, cache, logsMtx, rec>>

PoolAdd(t) ==
  /\ pc[t] = "pool_add"
  /\ pool' = Append(pool, log[t])
  /\ log' = [log EXCEPT ![t] = NULL]
  /\ Return(t)
  /\ UNCHANGED <<lifeVars, callVars, logs, cache, heap, logsMtx, rec>>

PushStep(t) ==
  \/ Prepush(t) \/ Throttle(t) \/ Wake(t) \/ Make(t)
  \/ Check(t) \/ Enlist(t) \/ FreeCheck(t) \/ PoolAdd(t)

ProducerPush(p) == pc[p] = "idle" /\ BeginPush(p, "idle")

---------------------------------------------------------------------------
(* The worker: entry(), then run()                                         *)

WorkerEnter ==
  /\ pc[Worker] = "entry"
  /\ active' = TRUE
  /\ Goto(Worker, "prologue")
  /\ UNCHANGED <<ctl, starts, buffVars, callVars, log>>

\* One LOGI for the start and one for each enabled key, then the loop.
WorkerPrologue ==
  /\ pc[Worker] = "prologue"
  /\ \/ BeginPush(Worker, "prologue")
     \/ Goto(Worker, "pop") /\ UNCHANGED <<lifeVars, buffVars, callVars, log>>

\* Slip: the front of _cache is returned but not removed.
WorkerPopKeepsFront ==
  /\ pc[Worker] = "pop"
  /\ IF cache # <<>>
     THEN log' = [log EXCEPT ![Worker] = Head(cache)] /\ Goto(Worker, "handle")
     ELSE Goto(Worker, IF logs = <<>> THEN "quit" ELSE "swap") /\ UNCHANGED log
  /\ UNCHANGED <<lifeVars, buffVars, callVars>>

\* Slip: an empty _cache ends the inner loop without a look at _logs.
WorkerPopCacheOnly ==
  /\ pc[Worker] = "pop"
  /\ IF cache # <<>>
     THEN /\ log' = [log EXCEPT ![Worker] = Head(cache)]
          /\ cache' = Tail(cache)
          /\ Goto(Worker, "handle")
     ELSE Goto(Worker, "quit") /\ UNCHANGED <<cache, log>>
  /\ UNCHANGED <<lifeVars, callVars, pool, logs, heap, logsMtx, rec>>

\* pop: the front of _cache or, if _logs looks non-empty, swap first.
WorkerPop ==
  /\ pc[Worker] = "pop"
  /\ \/ /\ cache # <<>>
        /\ log' = [log EXCEPT ![Worker] = Head(cache)]
        /\ cache' = Tail(cache)
        /\ Goto(Worker, "handle")
     \/ /\ cache = <<>>
        /\ Goto(Worker, IF logs = <<>> THEN "quit" ELSE "swap")
        /\ UNCHANGED <<cache, log>>
  /\ UNCHANGED <<lifeVars, callVars, pool, logs, heap, logsMtx, rec>>

WorkerSwap ==
  /\ pc[Worker] = "swap"
  /\ logsMtx = NULL
  /\ cache' = logs
  /\ logs' = cache
  /\ Goto(Worker, "pop")
  /\ UNCHANGED <<lifeVars, callVars, pool, heap, logsMtx, rec, log>>

\* The record is displayed and written, or discarded; then it is freed.
WorkerHandle ==
  /\ pc[Worker] = "handle"
  /\ ret' = [ret EXCEPT ![Worker] = "pop"]
  /\ Goto(Worker, "free")
  /\ UNCHANGED <<lifeVars, buffVars, calls, log>>

\* `if (!_active && _logs.empty()) break': two reads, in this order.
WorkerReadActive ==
  /\ pc[Worker] = "quit"
  /\ Goto(Worker, IF active THEN "update" ELSE "quit_if_empty")
  /\ UNCHANGED <<lifeVars, buffVars, callVars, log>>

\* Slip: the worker leaves as soon as it sees _active false.
WorkerLeavesAtOnce ==
  /\ pc[Worker] = "quit_if_empty"
  /\ Goto(Worker, "exited")
  /\ UNCHANGED <<lifeVars, buffVars, callVars, log>>

WorkerReadEmpty ==
  /\ pc[Worker] = "quit_if_empty"
  /\ Goto(Worker, IF logs = <<>> THEN "exited" ELSE "update")
  /\ UNCHANGED <<lifeVars, buffVars, callVars, log>>

\* update() logs an error when the file cannot be opened; then it sleeps.
WorkerUpdate ==
  /\ pc[Worker] = "update"
  /\ \/ BeginPush(Worker, "pop")
     \/ Goto(Worker, "pop") /\ UNCHANGED <<lifeVars, buffVars, callVars, log>>

WorkerStep ==
  \/ WorkerEnter \/ WorkerPrologue \/ WorkerPop \/ WorkerSwap \/ WorkerHandle
  \/ WorkerReadActive \/ WorkerReadEmpty \/ WorkerUpdate
  \/ PushStep(Worker)

---------------------------------------------------------------------------
(* start() and stop(), called by one controlling thread                    *)

Start ==
  /\ ctl = "stopped"
  /\ starts < MaxStarts
  /\ starts' = starts + 1
  /\ ctl' = "started"
  /\ Goto(Worker, "entry")
  /\ UNCHANGED <<active, buffVars, callVars, log>>

\* Slip: stop() joins without clearing _active.
StopKeepsActive ==
  /\ ctl = "started"
  /\ active
  /\ ctl' = "joining"
  /\ UNCHANGED <<active, starts, buffVars, callVars, pc, log>>

\* stop() does nothing while the new thread has not set _active.
StopCall ==
  /\ ctl = "started"
  /\ active
  /\ active' = FALSE
  /\ ctl' = "joining"
  /\ UNCHANGED <<starts, buffVars, callVars, pc, log>>

Join ==
  /\ ctl = "joining"
  /\ pc[Worker] = "exited"
  /\ ctl' = "stopped"
  /\ Goto(Worker, "none")
  /\ UNCHANGED <<active, starts, buffVars, callVars, log>>

\* Nothing is left to do within the bounds.
Finished ==
  /\ ctl = "stopped" /\ starts = MaxStarts
  /\ \A p \in Producers : pc[p] = "idle" /\ calls[p] = MaxCalls[p]
  /\ UNCHANGED vars

Next ==
  \/ Start \/ StopCall \/ Join
  \/ WorkerStep
  \/ \E p \in Producers : ProducerPush(p) \/ PushStep(p)
  \/ Finished

Spec == Init /\ [][Next]_vars

(* Threads that are running keep running: the scheduler preempts none of   *)
(* them forever.  Nobody has to call push(), start() or stop().            *)
Fairness ==
  /\ WF_vars(WorkerStep)
  /\ WF_vars(Join)
  /\ \A p \in Producers : WF_vars(PushStep(p))

FairSpec == Spec /\ Fairness
===========================================================================
