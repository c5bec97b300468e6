----------------------- MODULE WorkerThread_proofs -----------------------
(***************************************************************************)
(* Proofs about WorkerThread, for any number of threads created.  The      *)
(* first part assumes nothing of who calls start() and stop(); the second  *)
(* is about one controlling thread whose start() does not time out.        *)
(***************************************************************************)
EXTENDS WorkerThread, FiniteSetTheorems, TLAPS

USE DEF Goto, Reach, Spawns

(* Every variable keeps a value of its type.                               *)
THEOREM TypeCorrect == Spec => []TypeOK
<1>1. Init => TypeOK
  <2> SUFFICES ASSUME Init PROVE TypeOK
    OBVIOUS
  <2>1. worker \in [Spawns -> {"unborn", "entry", "prologue", "loop", "exited"}]
    BY DEF Init
  <2>2. pc \in [Controllers -> {"idle", "start", "wait", "stop", "join"}]
    BY DEF Init
  <2>3. result \in [Controllers -> {-1, 0}]
    BY DEF Init
  <2>4. QED
    BY <2>1, <2>2, <2>3 DEF Init, TypeOK
<1>2. TypeOK /\ [Next]_vars => TypeOK'
  <2> SUFFICES ASSUME TypeOK, [Next]_vars PROVE TypeOK'
    OBVIOUS
  <2> USE ThreadAssumption DEF ThreadAssumption, TypeOK
  <2>1. ASSUME NEW c \in Controllers, CallStart(c) \/ CallStop(c) PROVE TypeOK'
    BY <2>1 DEF CallStart, CallStop
  <2>2. ASSUME NEW c \in Controllers, ThreadStart(c) PROVE TypeOK'
    BY <2>2 DEF ThreadStart, Spawn
  <2>3. ASSUME NEW c \in Controllers, SemWait(c) PROVE TypeOK'
    BY <2>3 DEF SemWait
  <2>4. ASSUME NEW c \in Controllers, ThreadStop(c) \/ Join(c) PROVE TypeOK'
    BY <2>4 DEF ThreadStop, Join
  <2>5. ASSUME NEW w \in Spawns, RunStep(w) PROVE TypeOK'
    <3>1. CASE Entry(w)
      BY <3>1 DEF Entry
    <3>2. CASE Post(w)
      BY <3>2 DEF Post
    <3>3. CASE Loop(w) \/ Leave(w)
      BY <3>3 DEF Loop, Leave, vars
    <3>4. QED
      BY <2>5, <3>1, <3>2, <3>3 DEF RunStep
  <2>6. CASE Destroy
    BY <2>6 DEF Destroy
  <2>7. CASE Over \/ UNCHANGED vars
    BY <2>7 DEF Over, vars
  <2>8. QED
    BY <2>1, <2>2, <2>3, <2>4, <2>5, <2>6, <2>7 DEF Next, CallStep
<1>3. QED
  BY <1>1, <1>2, PTL DEF Spec

---------------------------------------------------------------------------
(* The strengthening of OneWorker: while the process runs, _t is the only  *)
(* handle of a live worker, so that a start() that finds _t empty creates  *)
(* the only one.                                                           *)
HandleIsTheWorker ==
  process # "aborted" => \A w \in Alive : handle = w

(* _t is the handle of every live worker, whoever calls start() and stop(). *)
LEMMA HandleInvariant == Spec => []HandleIsTheWorker
<1>1. Init => HandleIsTheWorker
  BY DEF Init, HandleIsTheWorker, Alive
<1>2. TypeOK /\ HandleIsTheWorker /\ [Next]_vars => HandleIsTheWorker'
  <2> SUFFICES ASSUME TypeOK, HandleIsTheWorker, [Next]_vars
               PROVE  HandleIsTheWorker'
    OBVIOUS
  <2> USE ThreadAssumption DEF ThreadAssumption, TypeOK, HandleIsTheWorker, Alive
  <2>1. ASSUME NEW c \in Controllers, CallStart(c) \/ CallStop(c)
        PROVE  HandleIsTheWorker'
    BY <2>1 DEF CallStart, CallStop
  <2>2. ASSUME NEW c \in Controllers, ThreadStart(c) PROVE HandleIsTheWorker'
    BY <2>2 DEF ThreadStart, Spawn
  <2>3. ASSUME NEW c \in Controllers, SemWait(c) \/ ThreadStop(c)
        PROVE  HandleIsTheWorker'
    BY <2>3 DEF SemWait, ThreadStop
  <2>4. ASSUME NEW c \in Controllers, Join(c) PROVE HandleIsTheWorker'
    BY <2>4 DEF Join
  <2>5. ASSUME NEW w \in Spawns, RunStep(w) PROVE HandleIsTheWorker'
    BY <2>5 DEF RunStep, Entry, Post, Loop, Leave, vars
  <2>6. CASE Destroy
    BY <2>6 DEF Destroy
  <2>7. CASE Over \/ UNCHANGED vars
    BY <2>7 DEF Over, vars
  <2>8. QED
    BY <2>1, <2>2, <2>3, <2>4, <2>5, <2>6, <2>7 DEF Next, CallStep
<1>3. QED
  BY <1>1, <1>2, TypeCorrect, PTL DEF Spec

(* At most one worker is alive, however calls and time-outs interleave.     *)
THEOREM AtMostOneWorker == Spec => []OneWorker
<1>1. HandleIsTheWorker => OneWorker
  BY DEF HandleIsTheWorker, OneWorker
<1>2. QED
  BY <1>1, HandleInvariant, PTL

---------------------------------------------------------------------------
(* The strengthening of JoinedCanLeave: _active is set only by a thread    *)
(* that has a _t, and only stop() clears it before that thread leaves.     *)
ActiveWorks ==
  process = "running" /\ active => handle # 0 /\ worker[handle] \in {"prologue", "loop"}

(* Whom stop() joins will leave, whoever calls start() and stop().         *)
THEOREM WhoIsJoinedCanLeave == Spec => []JoinedCanLeave
<1> USE DEF JoinedCanLeave, ActiveWorks
<1>1. Init => ActiveWorks /\ JoinedCanLeave
  BY DEF Init
<1>2. TypeOK /\ HandleIsTheWorker /\ ActiveWorks /\ JoinedCanLeave /\ [Next]_vars
        => ActiveWorks' /\ JoinedCanLeave'
  <2> SUFFICES ASSUME TypeOK, HandleIsTheWorker, ActiveWorks, JoinedCanLeave, [Next]_vars
               PROVE  ActiveWorks' /\ JoinedCanLeave'
    OBVIOUS
  <2> USE ThreadAssumption DEF ThreadAssumption, TypeOK
  <2>1. ASSUME NEW c \in Controllers, CallStart(c) \/ CallStop(c)
        PROVE  ActiveWorks' /\ JoinedCanLeave'
    BY <2>1 DEF CallStart, CallStop
  <2>2. ASSUME NEW c \in Controllers, ThreadStart(c)
        PROVE  ActiveWorks' /\ JoinedCanLeave'
    BY <2>2 DEF ThreadStart, Spawn
  <2>3. ASSUME NEW c \in Controllers, SemWait(c) \/ ThreadStop(c)
        PROVE  ActiveWorks' /\ JoinedCanLeave'
    BY <2>3 DEF SemWait, ThreadStop
  <2>4. ASSUME NEW c \in Controllers, Join(c)
        PROVE  ActiveWorks' /\ JoinedCanLeave'
    BY <2>4 DEF Join
  <2>5. ASSUME NEW w \in Spawns, RunStep(w)
        PROVE  ActiveWorks' /\ JoinedCanLeave'
    <3>1. process = "running" /\ handle = w
      BY <2>5 DEF RunStep, Entry, Post, Loop, Leave, HandleIsTheWorker, Alive
    <3>2. CASE Entry(w)
      BY <3>1, <3>2 DEF Entry
    <3>3. CASE Post(w)
      BY <3>1, <3>3 DEF Post
    <3>4. CASE Leave(w)
      BY <3>1, <3>4 DEF Leave
    <3>5. CASE Loop(w)
      BY <3>5 DEF Loop, vars
    <3>6. QED
      BY <2>5, <3>2, <3>3, <3>4, <3>5 DEF RunStep
  <2>6. CASE Destroy
    BY <2>6 DEF Destroy
  <2>7. CASE Over \/ UNCHANGED vars
    BY <2>7 DEF Over, vars
  <2>8. QED
    BY <2>1, <2>2, <2>3, <2>4, <2>5, <2>6, <2>7 DEF Next, CallStep
<1>3. QED
  BY <1>1, <1>2, TypeCorrect, HandleInvariant, PTL DEF Spec

(* A finite set with one element more, or one less.                        *)
LEMMA OneMoreOrLess ==
  ASSUME NEW S, IsFiniteSet(S), NEW e
  PROVE  /\ Cardinality(S) \in Nat
         /\ IsFiniteSet(S \cup {e}) /\ IsFiniteSet(S \ {e})
         /\ e \notin S => Cardinality(S \cup {e}) = Cardinality(S) + 1
         /\ e \in S => Cardinality(S \ {e}) = Cardinality(S) - 1
BY FS_CardinalityType, FS_AddElement, FS_RemoveElement

(* No start() waits in vain, and no token is left but by one that gave up. *)
THEOREM TokensBalance == Spec => []TokenBalance
<1>1. Init => TokenBalance
  <2> SUFFICES ASSUME Init PROVE TokenBalance
    OBVIOUS
  <2>1. Waiting = {} /\ WillPost = {} /\ count = 0 /\ gaveUp = 0
    BY DEF Init, Waiting, WillPost
  <2>2. Cardinality({}) = 0
    BY FS_EmptySet
  <2>3. QED
    BY <2>1, <2>2 DEF TokenBalance
<1>2. TypeOK /\ TokenBalance /\ [Next]_vars => TokenBalance'
  <2> SUFFICES ASSUME TypeOK, TokenBalance, [Next]_vars PROVE TokenBalance'
    OBVIOUS
  <2>1. IsFiniteSet(Waiting) /\ IsFiniteSet(WillPost)
    <3>1. MaxSpawns \in Nat /\ IsFiniteSet(Controllers)
      BY ThreadAssumption DEF ThreadAssumption
    <3>2. IsFiniteSet(1..MaxSpawns)
      BY <3>1, FS_Interval
    <3>3. Waiting \in SUBSET Controllers /\ WillPost \in SUBSET (1..MaxSpawns)
      BY DEF Waiting, WillPost
    <3>4. QED
      BY <3>1, <3>2, <3>3, FS_Subset
  <2> DEFINE m == Cardinality(Waiting)  n == Cardinality(WillPost)
  <2>2. /\ m \in Nat /\ n \in Nat /\ count \in Nat /\ gaveUp \in Nat
        /\ process = "running" => count + n = m + gaveUp
    BY <2>1, FS_CardinalityType DEF TokenBalance, TypeOK
  <2>3. CASE UNCHANGED <<Waiting, WillPost, count, gaveUp, process>>
    BY <2>3 DEF TokenBalance
  <2> USE DEF TypeOK
  <2>4. ASSUME NEW c \in Controllers, CallStart(c) \/ CallStop(c) \/ ThreadStop(c) \/ Join(c)
        PROVE  TokenBalance'
    <3>1. UNCHANGED <<Waiting, WillPost, count, gaveUp, process>>
      BY <2>4 DEF CallStart, CallStop, ThreadStop, Join, Waiting, WillPost
    <3>2. QED
      BY <2>3, <3>1
  <2>5. ASSUME NEW c \in Controllers, ThreadStart(c) PROVE TokenBalance'
    <3>1. CASE Goto(c, "idle") /\ UNCHANGED <<worker, process>>
      <4>1. UNCHANGED <<Waiting, WillPost, count, gaveUp, process>>
        BY <2>5, <3>1 DEF ThreadStart, Waiting, WillPost
      <4>2. QED
        BY <2>3, <4>1
    <3>2. CASE Spawn(c)
      <4>1. PICK w \in Spawns : /\ worker[w] = "unborn" /\ Reach(w, "entry")
                                /\ Goto(c, "wait") \/ process' = "aborted"
        BY <3>2 DEF Spawn
      <4>2. WillPost' = WillPost \cup {w} /\ w \notin WillPost
        BY <4>1 DEF WillPost
      <4>3. Cardinality(WillPost') = n + 1
        BY <2>1, <4>2, OneMoreOrLess
      <4>4. count' = count /\ gaveUp' = gaveUp /\ process = "running"
        BY <2>5 DEF ThreadStart
      <4>5. CASE process' = "aborted"
        BY <4>5 DEF TokenBalance
      <4>6. CASE Goto(c, "wait")
        <5>1. Waiting' = Waiting \cup {c} /\ c \notin Waiting
          BY <2>5, <4>6 DEF ThreadStart, Waiting, WillPost
        <5>2. Cardinality(Waiting') = m + 1
          BY <2>1, <5>1, OneMoreOrLess
        <5>3. QED
          BY <2>2, <4>3, <4>4, <5>2 DEF TokenBalance
      <4>7. QED
        BY <4>1, <4>5, <4>6
    <3>3. QED
      BY <2>5, <3>1, <3>2 DEF ThreadStart
  <2>6. ASSUME NEW c \in Controllers, SemWait(c) PROVE TokenBalance'
    <3>1. Waiting' = Waiting \ {c} /\ c \in Waiting /\ WillPost' = WillPost
      BY <2>6 DEF SemWait, Waiting, WillPost
    <3>2. Cardinality(Waiting') = m - 1
      BY <2>1, <3>1, OneMoreOrLess
    <3>3. /\ process = "running"
          /\ \/ count' = count - 1 /\ gaveUp' = gaveUp
             \/ count' = count /\ gaveUp' = gaveUp + 1
      BY <2>6 DEF SemWait
    <3>4. QED
      BY <2>2, <3>1, <3>2, <3>3 DEF TokenBalance
  <2>7. ASSUME NEW w \in Spawns, RunStep(w) PROVE TokenBalance'
    <3>1. CASE Entry(w) \/ Leave(w) \/ Loop(w)
      <4>1. UNCHANGED <<Waiting, WillPost, count, gaveUp, process>>
        BY <3>1 DEF Entry, Leave, Loop, vars, Waiting, WillPost
      <4>2. QED
        BY <2>3, <4>1
    <3>2. CASE Post(w)
      <4>1. /\ WillPost' = WillPost \ {w} /\ w \in WillPost /\ Waiting' = Waiting
            /\ count' = count + 1 /\ gaveUp' = gaveUp /\ process = "running"
        BY <3>2 DEF Post, Waiting, WillPost
      <4>2. Cardinality(WillPost') = n - 1
        BY <2>1, <4>1, OneMoreOrLess
      <4>3. QED
        BY <2>2, <4>1, <4>2 DEF TokenBalance
    <3>3. QED
      BY <2>7, <3>1, <3>2 DEF RunStep
  <2>8. CASE Destroy
    BY <2>8 DEF Destroy, TokenBalance
  <2>9. CASE Over \/ UNCHANGED vars
    <3>1. UNCHANGED <<Waiting, WillPost, count, gaveUp, process>>
      BY <2>9 DEF Over, vars, Waiting, WillPost
    <3>2. QED
      BY <2>3, <3>1
  <2>10. QED
    BY <2>4, <2>5, <2>6, <2>7, <2>8, <2>9 DEF Next, CallStep
<1>3. QED
  BY <1>1, <1>2, TypeCorrect, PTL DEF Spec

(* Whom stop() joins can leave, and what start() waits for is posted.      *)
THEOREM NobodyWaitsInVain == Spec => []AwaitedComes
BY WhoIsJoinedCanLeave, TokensBalance, PTL DEF AwaitedComes

---------------------------------------------------------------------------
(* The strengthening of StopMeansStopped: when nobody is in join(), a live *)
(* worker without _active has not begun.                                   *)
IdleMeansNotBegun ==
  process = "running" /\ mutex = NULL /\ ~active => \A w \in Alive : worker[w] = "entry"

(* It holds whoever calls start() and stop(): only join() waits for a      *)
(* worker that has begun and must leave.                                   *)
LEMMA IdleInvariant == Spec => []IdleMeansNotBegun
<1>1. Init => IdleMeansNotBegun
  BY DEF Init, IdleMeansNotBegun, Alive
<1>2. TypeOK /\ HandleIsTheWorker /\ JoinedCanLeave /\ IdleMeansNotBegun /\ [Next]_vars
        => IdleMeansNotBegun'
  <2> SUFFICES ASSUME TypeOK, HandleIsTheWorker, JoinedCanLeave, IdleMeansNotBegun,
                      [Next]_vars
               PROVE  IdleMeansNotBegun'
    OBVIOUS
  <2> USE ThreadAssumption DEF ThreadAssumption, TypeOK, IdleMeansNotBegun, Alive
  <2>1. ASSUME NEW c \in Controllers, CallStart(c) \/ CallStop(c)
        PROVE  IdleMeansNotBegun'
    BY <2>1 DEF CallStart, CallStop
  <2>2. ASSUME NEW c \in Controllers, ThreadStart(c) PROVE IdleMeansNotBegun'
    BY <2>2 DEF ThreadStart, Spawn
  <2>3. ASSUME NEW c \in Controllers, SemWait(c) \/ ThreadStop(c)
        PROVE  IdleMeansNotBegun'
    BY <2>3 DEF SemWait, ThreadStop
  <2>4. ASSUME NEW c \in Controllers, Join(c) PROVE IdleMeansNotBegun'
    BY <2>4 DEF Join, HandleIsTheWorker
  <2>5. ASSUME NEW w \in Spawns, RunStep(w) PROVE IdleMeansNotBegun'
    BY <2>5 DEF RunStep, Entry, Post, Loop, Leave, vars
  <2>6. CASE Destroy
    BY <2>6 DEF Destroy
  <2>7. CASE Over \/ UNCHANGED vars
    BY <2>7 DEF Over, vars
  <2>8. QED
    BY <2>1, <2>2, <2>3, <2>4, <2>5, <2>6, <2>7 DEF Next, CallStep
<1>3. QED
  BY <1>1, <1>2, TypeCorrect, HandleInvariant, WhoIsJoinedCanLeave, PTL DEF Spec

(* A stop() that returns leaves no worker that has begun, whoever calls    *)
(* start() and stop() at the time, and whichever of them gave up.          *)
THEOREM StopLeavesNoneRunning == Spec => StopMeansStopped
<1>1. TypeOK /\ HandleIsTheWorker /\ IdleMeansNotBegun /\ [Next]_vars => [Stopped]_vars
  <2> SUFFICES ASSUME TypeOK, HandleIsTheWorker, IdleMeansNotBegun, [Next]_vars,
                      NEW c \in Controllers,
                      pc[c] \in {"stop", "join"}, pc'[c] = "idle",
                      NEW w \in Alive'
               PROVE  worker'[w] = "entry"
    BY DEF Stopped
  <2> USE DEF TypeOK
  <2>1. CASE ThreadStop(c)
    BY <2>1 DEF ThreadStop, IdleMeansNotBegun, Alive
  <2>2. CASE Join(c)
    BY <2>2 DEF Join, HandleIsTheWorker, Alive
  <2>3. ASSUME ~ThreadStop(c), ~Join(c) PROVE FALSE
    <3>1. pc' # pc
      OBVIOUS
    <3>2. ASSUME NEW d \in Controllers, d # c,
                 CallStart(d) \/ CallStop(d) \/ CallStep(d)
          PROVE  FALSE
      BY <3>2 DEF CallStart, CallStop, CallStep, ThreadStart, Spawn, SemWait, ThreadStop, Join
    <3>3. CASE CallStart(c) \/ CallStop(c) \/ ThreadStart(c) \/ SemWait(c)
      BY <3>3 DEF CallStart, CallStop, ThreadStart, SemWait
    <3>4. ASSUME NEW v \in Spawns, RunStep(v) PROVE FALSE
      BY <3>1, <3>4 DEF RunStep, Entry, Post, Loop, Leave, vars
    <3>5. CASE Destroy \/ Over \/ UNCHANGED vars
      BY <3>1, <3>5 DEF Destroy, Over, vars
    <3>6. QED
      BY <2>3, <3>2, <3>3, <3>4, <3>5 DEF Next, CallStep
  <2>4. QED
    BY <2>1, <2>2, <2>3
<1>2. QED
  BY <1>1, TypeCorrect, HandleInvariant, IdleInvariant, PTL DEF Spec, StopMeansStopped

---------------------------------------------------------------------------
(* One controlling thread, and a semaphore that is waited for as long as   *)
(* it takes.  Between calls the logger is at rest or serves; inside        *)
(* start() and stop() the place of the worker tells the token's.           *)
Quiet == handle = 0 /\ ~active /\ count = 0

Serving == handle # 0 /\ worker[handle] = "loop" /\ active /\ count = 0

ComingUp ==
  /\ handle # 0
  /\ \/ worker[handle] = "entry" /\ ~active /\ count = 0
     \/ worker[handle] = "prologue" /\ active /\ count = 0
     \/ worker[handle] = "loop" /\ active /\ count = 1

GoingDown ==
  /\ handle # 0 /\ worker[handle] \in {"loop", "exited"}
  /\ ~active /\ count = 0

AloneInv(c) ==
  /\ process # "aborted"
  /\ process = "running" =>
       \/ pc[c] \in {"idle", "start", "stop"} /\ (Quiet \/ Serving)
       \/ pc[c] = "wait" /\ ComingUp
       \/ pc[c] = "join" /\ GoingDown

(* AloneInv is inductive for a controlling thread that has no rival.       *)
LEMMA AloneInvariant ==
  ASSUME NEW c, Controllers = {c}, ~Timeouts
  PROVE  Spec => []AloneInv(c)
<1> USE DEF AloneInv, Quiet, Serving, ComingUp, GoingDown
<1>1. Init => AloneInv(c)
  BY DEF Init
<1>2. TypeOK /\ HandleIsTheWorker /\ AloneInv(c) /\ [Next]_vars => AloneInv(c)'
  <2> SUFFICES ASSUME TypeOK, HandleIsTheWorker, AloneInv(c), [Next]_vars
               PROVE  AloneInv(c)'
    OBVIOUS
  <2> USE ThreadAssumption DEF ThreadAssumption, TypeOK
  <2>1. CASE CallStart(c) \/ CallStop(c)
    BY <2>1 DEF CallStart, CallStop
  <2>2. CASE ThreadStart(c)
    BY <2>2 DEF ThreadStart, Spawn
  <2>3. CASE SemWait(c)
    BY <2>3 DEF SemWait
  <2>4. CASE ThreadStop(c)
    BY <2>4 DEF ThreadStop
  <2>5. CASE Join(c)
    BY <2>5 DEF Join
  <2>6. ASSUME NEW w \in Spawns, RunStep(w) PROVE AloneInv(c)'
    <3>1. process = "running" /\ handle = w
      BY <2>6 DEF RunStep, Entry, Post, Loop, Leave, HandleIsTheWorker, Alive
    <3>2. CASE Entry(w)
      BY <3>1, <3>2 DEF Entry
    <3>3. CASE Post(w)
      BY <3>1, <3>3 DEF Post
    <3>4. CASE Loop(w)
      BY <3>4 DEF Loop, vars
    <3>5. CASE Leave(w)
      BY <3>1, <3>5 DEF Leave
    <3>6. QED
      BY <2>6, <3>2, <3>3, <3>4, <3>5 DEF RunStep
  <2>7. CASE Destroy
    BY <2>7 DEF Destroy
  <2>8. CASE Over \/ UNCHANGED vars
    BY <2>8 DEF Over, vars
  <2>9. QED
    BY <2>1, <2>2, <2>3, <2>4, <2>5, <2>6, <2>7, <2>8 DEF Next, CallStep
<1>3. QED
  BY <1>1, <1>2, TypeCorrect, HandleInvariant, PTL DEF Spec

(* One controlling thread never runs into std::terminate.                  *)
THEOREM AloneNeverAborts ==
  ASSUME NEW c, Controllers = {c}, ~Timeouts
  PROVE  Spec => []NeverAborts
<1>1. AloneInv(c) => NeverAborts
  BY DEF AloneInv, NeverAborts
<1>2. Spec => []AloneInv(c)
  BY AloneInvariant
<1>3. QED
  BY <1>1, <1>2, PTL

(* For one controlling thread a start() that returns 0 has left the worker *)
(* in its loop: no token of an earlier start() is taken for this one's.    *)
THEOREM AloneStartedIsReady ==
  ASSUME NEW c, Controllers = {c}, ~Timeouts
  PROVE  Spec => StartedIsReady
<1>1. TypeOK /\ AloneInv(c) /\ [Next]_vars => [Ready]_vars
  <2> SUFFICES ASSUME TypeOK, AloneInv(c), [Next]_vars,
                      pc[c] = "wait", pc'[c] = "idle", result'[c] = 0
               PROVE  active' /\ worker'[handle'] = "loop"
    BY DEF Ready
  <2>1. CASE SemWait(c)
    BY <2>1 DEF SemWait, AloneInv, ComingUp, TypeOK
  <2>2. CASE ~SemWait(c)
    BY <2>2 DEF Next, CallStep, CallStart, CallStop, ThreadStart, ThreadStop, Join,
                RunStep, Entry, Post, Loop, Leave, Destroy, Over, vars
  <2>3. QED
    BY <2>1, <2>2
<1>2. Spec => []AloneInv(c)
  BY AloneInvariant
<1>3. QED
  BY <1>1, <1>2, TypeCorrect, PTL DEF Spec, StartedIsReady
===========================================================================
