--------------------------- MODULE LogQueueProps ---------------------------
(***************************************************************************)
(* The properties of LogQueue, and its refinement of LogService.           *)
(***************************************************************************)
EXTENDS LogQueue

(* Every variable, program counter and local holds a value of its type.    *)
CallLabels == {"prepush", "limit", "asleep", "make", "check", "append", "free", "pool_add"}
WorkerLabels == {"none", "entry", "prologue", "pop", "swap", "handle",
                 "quit", "quit_if_empty", "update", "exited"}

TypeOK ==
  /\ active \in BOOLEAN
  /\ ctl \in {"stopped", "started", "joining"}
  /\ starts \in 0..MaxStarts
  /\ pool \in Seq(Buffers) /\ logs \in Seq(Buffers) /\ cache \in Seq(Buffers)
  /\ heap \subseteq Buffers
  /\ logsMtx \in Threads \cup {NULL}
  /\ rec \in [Buffers -> Records \cup {NoRecord}]
  /\ calls \in [Threads -> Nat] /\ \A t \in Threads : calls[t] <= MaxCalls[t]
  /\ pc \in [Threads -> CallLabels \cup WorkerLabels \cup {"idle"}]
  /\ log \in [Threads -> Buffers \cup {NULL}]
  /\ ret \in [Threads -> {"idle", "prologue", "pop"}]

---------------------------------------------------------------------------
(* A buffer is in one place: in _pool, in _logs, in _cache, in the hands   *)
(* of one thread, or free on the heap; so push, pop and free neither leak  *)
(* a log4x_t, nor free it twice, nor let two threads write into it.        *)
Held == {b \in Buffers : \E t \in Threads : log[t] = b}

OneOwner ==
  /\ IsInjective(pool) /\ IsInjective(logs) /\ IsInjective(cache)
  /\ \A t, u \in Threads : log[t] = log[u] => t = u \/ log[t] = NULL
  /\ Range(logs) \cap Range(cache) = {}
  /\ Range(pool) \cap (Range(logs) \cup Range(cache)) = {}
  /\ heap \cap (Range(pool) \cup Range(logs) \cup Range(cache)) = {}
  /\ Held \cap (heap \cup Range(pool) \cup Range(logs) \cup Range(cache)) = {}
  /\ Buffers = heap \cup Held \cup Range(pool) \cup Range(logs) \cup Range(cache)

(* free tests the size of _pool without its lock, so PoolMax is not a hard *)
(* limit: _pool exceeds it by at most one buffer per other thread.         *)
PoolBound == Len(pool) <= PoolMax + Cardinality(Producers)

---------------------------------------------------------------------------
(* The queue, the record in the worker's hand and the life of the worker   *)
(* behave like LogService: _cache followed by _logs is one FIFO, nothing   *)
(* is lost, duplicated or overtaken between push() and the worker, and     *)
(* the worker leaves run() only when nothing that was accepted waits.      *)
Phase ==
  IF pc[Worker] \in {"none", "entry", "exited"} THEN "down"
  ELSE IF active THEN "up" ELSE "draining"

Waiting == cache \o logs

Service == INSTANCE LogService WITH
  queue   <- [i \in DOMAIN Waiting |-> rec[Waiting[i]]],
  current <- IF pc[Worker] = "handle" THEN rec[log[Worker]] ELSE NoRecord,
  phase   <- Phase

ImplementsService == Service!Spec

---------------------------------------------------------------------------
(* While stop() waits for the worker, the records in the queue and those   *)
(* past the test of _active in push() together never grow: a thread that   *)
(* looks at _active now is refused, so the worker's backlog is bounded.    *)
Enqueuing == {t \in Threads : pc[t] = "append"}

Backlog == Len(cache) + Len(logs) + Cardinality(Enqueuing)

DrainingShrinks ==
  [][ctl = "joining" /\ ctl' = "joining" => Backlog' <= Backlog]_vars

---------------------------------------------------------------------------
(* A record that push() accepted leaves the queue for the worker's hand,   *)
(* or is still there when the worker is gone (a thread appended it after   *)
(* the worker's last look at _logs).                                       *)
IsWaiting(t, n) == \E i \in DOMAIN Waiting : rec[Waiting[i]] = <<t, n>>

AcceptedIsHandled ==
  \A t \in Threads : \A n \in 1..MaxCalls[t] :
    IsWaiting(t, n) ~> (~IsWaiting(t, n) \/ Phase = "down")

(* stop() returns: once _active is false every thread enqueues at most     *)
(* the record it already holds, so the worker drains _logs and exits.      *)
StopReturns == ctl = "joining" ~> ctl = "stopped"

(* push() returns to its caller whatever the worker does: the throttle in  *)
(* prepush delays a thread but never waits for room in the queue.          *)
PushReturns == \A p \in Producers : pc[p] # "idle" ~> pc[p] = "idle"
===========================================================================
