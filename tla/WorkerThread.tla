--------------------------- MODULE WorkerThread ---------------------------
(***************************************************************************)
(* The life of the worker thread: Thread::start, Thread::stop and          *)
(* Thread::entry under Thread::_mutex, the Semaphore that log4x::start     *)
(* waits on for at most three seconds, and the destructor of log4x.        *)
(*                                                                         *)
(* A critical section of _mutex is one action; stop() keeps it across      *)
(* join(), so the mutex is a variable.  run() is cut down to what matters  *)
(* here: log the prologue, post the semaphore, loop until _active is false.*)
(***************************************************************************)
EXTENDS Integers, FiniteSets

CONSTANTS
  Controllers,  (* threads of the application that call start and stop     *)
  NULL,         (* no holder of _mutex                                     *)
  Timeouts,     (* whether _sem.wait(3000) may give up                     *)
  MaxSpawns     (* bound: threads created                                  *)

ASSUME ThreadAssumption ==
  /\ NULL \notin Controllers /\ IsFiniteSet(Controllers)
  /\ Timeouts \in BOOLEAN
  /\ MaxSpawns \in Nat

VARIABLES
  active,       (* Thread::_active                                         *)
  mutex,        (* the controller that holds Thread::_mutex in join()      *)
  handle,       (* Thread::_t: the thread it can join, 0 for none          *)
  count,        (* Semaphore::_count of _sem                               *)
  worker,       (* the place each created thread has reached               *)
  pc,           (* per controller                                          *)
  result,       (* per controller: what its last start() returned          *)
  process,      (* "running", "aborted" by std::terminate, or "ended"      *)
  gaveUp        (* ghost: how many waits for the semaphore timed out       *)

vars == <<active, mutex, handle, count, worker, pc, result, process, gaveUp>>

Spawns == 1..MaxSpawns
Alive == {w \in Spawns : worker[w] \in {"entry", "prologue", "loop"}}

Goto(c, label) == pc' = [pc EXCEPT ![c] = label]
Reach(w, label) == worker' = [worker EXCEPT ![w] = label]

Init ==
  /\ active = FALSE
  /\ mutex = NULL
  /\ handle = 0
  /\ count = 0
  /\ worker = [w \in Spawns |-> "unborn"]
  /\ pc = [c \in Controllers |-> "idle"]
  /\ result = [c \in Controllers |-> -1]
  /\ process = "running"
  /\ gaveUp = 0

---------------------------------------------------------------------------
(* log4x::start                                                            *)

Born == {w \in Spawns : worker[w] # "unborn"}
Starting == {c \in Controllers : pc[c] = "start"}

CallStart(c) ==
  /\ process = "running"
  /\ pc[c] = "idle"
  /\ Cardinality(Born) + Cardinality(Starting) < MaxSpawns
  /\ Goto(c, "start")
  /\ UNCHANGED <<active, mutex, handle, count, worker, result, process, gaveUp>>

\* The new thread may run from its creation on; assigning it to a _t that can
\* still be joined calls std::terminate.
Spawn(c) ==
  \E w \in Spawns :
    /\ worker[w] = "unborn" /\ \A v \in 1..(w - 1) : worker[v] # "unborn"
    /\ Reach(w, "entry")
    /\ IF handle = 0
       THEN handle' = w /\ Goto(c, "wait") /\ UNCHANGED process
       ELSE process' = "aborted" /\ UNCHANGED <<handle, pc>>
    /\ UNCHANGED result

ThreadStart(c) ==
  /\ process = "running"
  /\ pc[c] = "start"
  /\ mutex = NULL
  /\ \/ ~active /\ Spawn(c)
     \/ /\ active
        /\ Goto(c, "idle")
        /\ result' = [result EXCEPT ![c] = -1]
        /\ UNCHANGED <<handle, worker, process>>
  /\ UNCHANGED <<active, mutex, count, gaveUp>>

\* Slip: a wait that times out takes a token all the same.
SemWaitAlwaysTakes(c) ==
  /\ process = "running"
  /\ pc[c] = "wait"
  /\ \/ count > 0 /\ result' = [result EXCEPT ![c] = 0] /\ UNCHANGED gaveUp
     \/ Timeouts /\ count = 0 /\ result' = [result EXCEPT ![c] = -1] /\ gaveUp' = gaveUp + 1
  /\ count' = count - 1
  /\ Goto(c, "idle")
  /\ UNCHANGED <<active, mutex, handle, worker, process>>

\* A wait that times out leaves the token that is posted later to the next.
SemWait(c) ==
  /\ process = "running"
  /\ pc[c] = "wait"
  /\ \/ /\ count > 0
        /\ count' = count - 1
        /\ result' = [result EXCEPT ![c] = 0]
        /\ UNCHANGED gaveUp
     \/ /\ Timeouts /\ count = 0
        /\ result' = [result EXCEPT ![c] = -1]
        /\ gaveUp' = gaveUp + 1
        /\ UNCHANGED count
  /\ Goto(c, "idle")
  /\ UNCHANGED <<active, mutex, handle, worker, process>>

---------------------------------------------------------------------------
(* log4x::stop, and the destructor, which calls it                         *)

CallStop(c) ==
  /\ process = "running"
  /\ pc[c] = "idle"
  /\ Goto(c, "stop")
  /\ UNCHANGED <<active, mutex, handle, count, worker, result, process, gaveUp>>

\* Slip: detach() for join().
ThreadStopDetaches(c) ==
  /\ process = "running"
  /\ pc[c] = "stop"
  /\ mutex = NULL
  /\ Goto(c, "idle")
  /\ active' = FALSE
  /\ handle' = IF active THEN 0 ELSE handle
  /\ UNCHANGED <<mutex, count, worker, result, process, gaveUp>>

\* Slip: stop() joins without clearing _active.
ThreadStopKeepsActive(c) ==
  /\ process = "running"
  /\ pc[c] = "stop"
  /\ mutex = NULL
  /\ IF active
     THEN mutex' = c /\ Goto(c, "join")
     ELSE Goto(c, "idle") /\ UNCHANGED mutex
  /\ UNCHANGED <<active, handle, count, worker, result, process, gaveUp>>

\* Slip: stop() asks _t whether there is a thread, and not _active.
ThreadStopAsksHandle(c) ==
  /\ process = "running"
  /\ pc[c] = "stop"
  /\ mutex = NULL
  /\ IF handle # 0
     THEN active' = FALSE /\ mutex' = c /\ Goto(c, "join")
     ELSE Goto(c, "idle") /\ UNCHANGED <<active, mutex>>
  /\ UNCHANGED <<handle, count, worker, result, process, gaveUp>>

\* Does nothing before entry() has set _active; joins with _mutex locked.
ThreadStop(c) ==
  /\ process = "running"
  /\ pc[c] = "stop"
  /\ mutex = NULL
  /\ IF active
     THEN active' = FALSE /\ mutex' = c /\ Goto(c, "join")
     ELSE Goto(c, "idle") /\ UNCHANGED <<active, mutex>>
  /\ UNCHANGED <<handle, count, worker, result, process, gaveUp>>

Join(c) ==
  /\ process = "running"
  /\ pc[c] = "join"
  /\ worker[handle] = "exited"
  /\ handle' = 0
  /\ mutex' = NULL
  /\ Goto(c, "idle")
  /\ UNCHANGED <<active, count, worker, result, process, gaveUp>>

\* At the end of the process ~log4x calls stop(), and then _t is destroyed,
\* which calls std::terminate if it can still be joined.
Destroy ==
  /\ process = "running"
  /\ \A c \in Controllers : pc[c] = "idle"
  /\ active' = FALSE
  /\ worker' = [w \in Spawns |-> IF active /\ w = handle THEN "exited" ELSE worker[w]]
  /\ handle' = IF active THEN 0 ELSE handle
  /\ process' = IF handle' = 0 THEN "ended" ELSE "aborted"
  /\ UNCHANGED <<mutex, count, pc, result, gaveUp>>

---------------------------------------------------------------------------
(* Thread::entry and log4x::run                                            *)

Entry(w) ==
  /\ process = "running"
  /\ worker[w] = "entry"
  /\ mutex = NULL
  /\ active' = TRUE
  /\ Reach(w, "prologue")
  /\ UNCHANGED <<mutex, handle, count, pc, result, process, gaveUp>>

Post(w) ==
  /\ process = "running"
  /\ worker[w] = "prologue"
  /\ count' = count + 1
  /\ Reach(w, "loop")
  /\ UNCHANGED <<active, mutex, handle, pc, result, process, gaveUp>>

\* Another turn of the loop.
Loop(w) ==
  /\ process = "running"
  /\ worker[w] = "loop"
  /\ active
  /\ UNCHANGED vars

Leave(w) ==
  /\ process = "running"
  /\ worker[w] = "loop"
  /\ ~active
  /\ Reach(w, "exited")
  /\ UNCHANGED <<active, mutex, handle, count, pc, result, process, gaveUp>>

Over == process # "running" /\ UNCHANGED vars

CallStep(c) == ThreadStart(c) \/ SemWait(c) \/ ThreadStop(c) \/ Join(c)
RunStep(w) == Entry(w) \/ Post(w) \/ Loop(w) \/ Leave(w)

Next ==
  \/ \E c \in Controllers : CallStart(c) \/ CallStop(c) \/ CallStep(c)
  \/ \E w \in Spawns : RunStep(w)
  \/ Destroy
  \/ Over

Spec == Init /\ [][Next]_vars

(* A thread that is inside a call, or created, keeps running.              *)
Fairness ==
  /\ \A c \in Controllers : WF_vars(CallStep(c))
  /\ \A w \in Spawns : WF_vars(RunStep(w))

FairSpec == Spec /\ Fairness

---------------------------------------------------------------------------
(* Every variable holds a value of its type.                               *)
TypeOK ==
  /\ active \in BOOLEAN
  /\ mutex \in Controllers \cup {NULL}
  /\ handle \in Spawns \cup {0}
  /\ count \in Nat
  /\ worker \in [Spawns -> {"unborn", "entry", "prologue", "loop", "exited"}]
  /\ pc \in [Controllers -> {"idle", "start", "wait", "stop", "join"}]
  /\ result \in [Controllers -> {-1, 0}]
  /\ process \in {"running", "aborted", "ended"}
  /\ gaveUp \in Nat

(* Two workers never drain the queue at once, however start(), stop() and  *)
(* time-outs of the semaphore interleave: run() counts on being the only   *)
(* one that touches _cache, the files and the registry's iterators.        *)
OneWorker ==
  process # "aborted" => \A v, w \in Alive : v = w

(* With one controlling thread and no time-out, no call of start(), stop() *)
(* or of the destructor ends in std::terminate.                            *)
NeverAborts == process # "aborted"

(* A second start() of a started logger is refused, it does not end the    *)
(* process: the test program calls start() twice in a row.                 *)
StartNeverAborts == [][Starting # {} => process' # "aborted"]_vars

(* start() returns 0 only when the thread it created is in its loop, with  *)
(* _active set: a push() made after it is accepted.                        *)
Ready ==
  \A c \in Controllers :
    pc[c] = "wait" /\ pc'[c] = "idle" /\ result'[c] = 0
    => active' /\ worker'[handle'] = "loop"

StartedIsReady == [][Ready]_vars

(* When stop() returns no worker is left that could still log or write, if *)
(* another thread has not started one meanwhile.  One may be left that has *)
(* not begun, after a start() that gave up: stop() does not know of it, as *)
(* _active is not set, and it comes up later.                              *)
Stopped ==
  \A c \in Controllers :
    pc[c] \in {"stop", "join"} /\ pc'[c] = "idle" =>
      \A w \in Alive' : worker'[w] = "entry"

StopMeansStopped == [][Stopped]_vars

(* stop() joins, with _mutex locked, only a thread that has left entry()   *)
(* behind and will see _active cleared: never none, never one that waits   *)
(* for _mutex itself, however the calls of several threads interleave.     *)
JoinedCanLeave ==
  \A c \in Controllers :
    process = "running" /\ pc[c] = "join" =>
      /\ mutex = c /\ ~active
      /\ handle # 0 /\ worker[handle] \in {"prologue", "loop", "exited"}

Waiting == {c \in Controllers : pc[c] = "wait"}
WillPost == {w \in Spawns : worker[w] \in {"entry", "prologue"}}

(* The tokens that are there or will be posted are one for each start()    *)
(* that waits and one for each that gave up before, also when one start()  *)
(* took the token of another.  So a token is coming for whoever waits, and *)
(* a start() that returns before its own worker is ready has found the     *)
(* token of one that gave up or the token of another start() that waits.   *)
TokenBalance ==
  process = "running" =>
    count + Cardinality(WillPost) = Cardinality(Waiting) + gaveUp

(* Nobody waits in vain: the two facts together, for join() and semaphore. *)
AwaitedComes == JoinedCanLeave /\ TokenBalance

(* A call of start() or stop() returns, unless the process ends: the two   *)
(* do not wait on each other through _mutex, the semaphore and join().     *)
CallsReturn ==
  \A c \in Controllers : pc[c] # "idle" ~> pc[c] = "idle" \/ process # "running"
===========================================================================
