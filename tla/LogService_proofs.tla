------------------------- MODULE LogService_proofs -------------------------
(***************************************************************************)
(* LogQueue implements LogService, for any number of producers, buffers,   *)
(* calls and starts.  Each step of the queue is one of the service, or     *)
(* moves nothing that the service knows.                                   *)
(***************************************************************************)
EXTENDS LogQueue_proofs

---------------------------------------------------------------------------
(* Sequences                                                               *)

\* What the buffers of a sequence hold.
Holds(s, r) == [i \in DOMAIN s |-> r[s[i]]]
Maps(B, R) == [B -> R]

(* What buffers hold is a sequence, and follows its ends.                  *)
LEMMA HoldsSeq ==
  ASSUME NEW B, NEW R, NEW s \in Seq(B), NEW r \in Maps(B, R)
  PROVE  /\ Holds(s, r) \in Seq(R)
         /\ DOMAIN Holds(s, r) = 1..Len(s)
         /\ Holds(s, r) = <<>> <=> s = <<>>
<1> r \in [B -> R]
  BY DEF Maps
<1>1. Len(s) \in Nat /\ DOMAIN s = 1..Len(s) /\ \A i \in 1..Len(s) : s[i] \in B
  BY LenProperties, ElementOfSeq
<1>2. Holds(s, r) \in [1..Len(s) -> R]
  BY <1>1 DEF Holds
<1>3. Holds(s, r) \in Seq(R) /\ Len(Holds(s, r)) = Len(s)
  BY <1>1, <1>2, IsASeq, LenProperties
<1>4. QED
  BY <1>1, <1>2, <1>3, EmptySeq, LenProperties

LEMMA HoldsAppend ==
  ASSUME NEW B, NEW R, NEW s \in Seq(B), NEW b \in B, NEW r \in Maps(B, R),
         NEW v, v = r[b]
  PROVE  Holds(Append(s, b), r) = Append(Holds(s, r), v)
<1> r \in [B -> R] /\ r[b] \in R
  BY DEF Maps
<1>1. /\ Len(s) \in Nat /\ DOMAIN s = 1..Len(s)
      /\ Append(s, b) \in Seq(B) /\ DOMAIN Append(s, b) = 1..(Len(s) + 1)
      /\ \A i \in 1..Len(s) : Append(s, b)[i] = s[i]
      /\ Append(s, b)[Len(s) + 1] = b
  BY AppendProperties, LenProperties
<1>2. Holds(s, r) \in Seq(R) /\ Len(Holds(s, r)) = Len(s)
  BY <1>1, HoldsSeq, LenProperties
<1>3. /\ Append(Holds(s, r), r[b]) \in Seq(R)
      /\ Len(Append(Holds(s, r), r[b])) = Len(s) + 1
      /\ \A i \in 1..Len(s) : Append(Holds(s, r), r[b])[i] = Holds(s, r)[i]
      /\ Append(Holds(s, r), r[b])[Len(s) + 1] = r[b]
  BY <1>2, AppendProperties
<1>4. Holds(Append(s, b), r) = Append(Holds(s, r), r[b])
  BY <1>1, <1>3, HoldsSeq, SeqEqual, LenProperties DEF Holds
<1>5. QED
  BY <1>4

LEMMA HoldsTail ==
  ASSUME NEW B, NEW R, NEW s \in Seq(B), s # <<>>, NEW r \in Maps(B, R)
  PROVE  /\ Holds(Tail(s), r) = Tail(Holds(s, r))
         /\ Head(Holds(s, r)) = r[Head(s)]
<1>1. /\ Len(s) \in Nat \ {0} /\ DOMAIN s = 1..Len(s) /\ Head(s) = s[1]
      /\ Tail(s) \in Seq(B) /\ DOMAIN Tail(s) = 1..(Len(s) - 1)
      /\ \A i \in 1..(Len(s) - 1) : Tail(s)[i] = s[i + 1]
  BY HeadTailProperties, LenProperties, EmptySeq
<1>2. /\ Holds(s, r) \in Seq(R) /\ Len(Holds(s, r)) = Len(s) /\ Holds(s, r) # <<>>
      /\ Holds(Tail(s), r) \in Seq(R) /\ Len(Holds(Tail(s), r)) = Len(s) - 1
  <2>1. ASSUME NEW u \in Seq(B)
        PROVE  Holds(u, r) \in Seq(R) /\ Len(Holds(u, r)) = Len(u)
    BY HoldsSeq, LenProperties
  <2>2. Len(Tail(s)) = Len(s) - 1
    BY <1>1, HeadTailProperties
  <2>3. QED
    BY <1>1, <2>1, <2>2, HoldsSeq
<1>3. /\ Tail(Holds(s, r)) \in Seq(R) /\ Len(Tail(Holds(s, r))) = Len(s) - 1
      /\ \A i \in 1..(Len(s) - 1) : Tail(Holds(s, r))[i] = Holds(s, r)[i + 1]
  BY <1>2, HeadTailProperties
<1>4. \A i \in 1..(Len(s) - 1) : Holds(Tail(s), r)[i] = Tail(Holds(s, r))[i]
  BY <1>1, <1>3 DEF Holds
<1>5. Holds(Tail(s), r) = Tail(Holds(s, r))
  BY <1>2, <1>3, <1>4, SeqEqual
<1>6. Head(Holds(s, r)) = r[Head(s)]
  BY <1>1, <1>2 DEF Holds
<1>7. QED
  BY <1>5, <1>6

(* Two sequences, of which one loses its head or the other grows.          *)
LEMMA JoinedAppend ==
  ASSUME NEW B, NEW c \in Seq(B), NEW l \in Seq(B), NEW b \in B
  PROVE  c \o Append(l, b) = Append(c \o l, b)
<1>1. <<b>> \in Seq(B)
  OBVIOUS
<1>2. Append(l, b) = l \o <<b>>
  BY AppendIsConcat
<1>3. c \o (l \o <<b>>) = (c \o l) \o <<b>>
  BY <1>1, ConcatAssociative
<1>4. c \o l \in Seq(B)
  BY ConcatProperties
<1>5. Append(c \o l, b) = (c \o l) \o <<b>>
  BY <1>4, AppendIsConcat
<1>6. QED
  BY <1>2, <1>3, <1>5

LEMMA JoinedTail ==
  ASSUME NEW B, NEW c \in Seq(B), NEW l \in Seq(B), c # <<>>
  PROVE  /\ c \o l # <<>>
         /\ Tail(c) \o l = Tail(c \o l)
         /\ Head(c \o l) = Head(c)
<1>1. /\ c \o l \in Seq(B) /\ Len(c \o l) = Len(c) + Len(l)
      /\ Len(c) \in Nat \ {0} /\ Len(l) \in Nat
      /\ \A i \in 1..(Len(c) + Len(l)) :
           (c \o l)[i] = IF i <= Len(c) THEN c[i] ELSE l[i - Len(c)]
  BY ConcatProperties, LenProperties, EmptySeq
<1>2. c \o l # <<>>
  BY <1>1, EmptySeq
<1>3. /\ Tail(c) \in Seq(B) /\ Len(Tail(c)) = Len(c) - 1
      /\ \A i \in 1..(Len(c) - 1) : Tail(c)[i] = c[i + 1]
  BY HeadTailProperties
<1>4. /\ Tail(c) \o l \in Seq(B) /\ Len(Tail(c) \o l) = Len(c) - 1 + Len(l)
      /\ \A i \in 1..(Len(c) - 1 + Len(l)) :
           (Tail(c) \o l)[i] = IF i <= Len(c) - 1 THEN Tail(c)[i] ELSE l[i - (Len(c) - 1)]
  BY <1>3, ConcatProperties
<1>5. /\ Tail(c \o l) \in Seq(B) /\ Len(Tail(c \o l)) = Len(c) + Len(l) - 1
      /\ \A i \in 1..(Len(c) + Len(l) - 1) : Tail(c \o l)[i] = (c \o l)[i + 1]
  BY <1>1, <1>2, HeadTailProperties
<1>6. \A i \in 1..(Len(c) + Len(l) - 1) : (Tail(c) \o l)[i] = Tail(c \o l)[i]
  <2>1. TAKE i \in 1..(Len(c) + Len(l) - 1)
  <2>2. i + 1 \in 1..(Len(c) + Len(l)) /\ i + 1 - Len(c) = i - (Len(c) - 1)
    BY <1>1
  <2>3. CASE i <= Len(c) - 1
    BY <1>1, <1>3, <1>4, <1>5, <2>2, <2>3
  <2>4. CASE ~(i <= Len(c) - 1)
    BY <1>1, <1>4, <1>5, <2>2, <2>4
  <2>5. QED
    BY <2>3, <2>4
<1>7. Tail(c) \o l = Tail(c \o l)
  BY <1>1, <1>4, <1>5, <1>6, SeqEqual
<1>8. Head(c \o l) = Head(c)
  BY <1>1, <1>2
<1>9. QED
  BY <1>2, <1>7, <1>8

---------------------------------------------------------------------------
(* Records                                                                 *)

InCall == Entering \cup {"check", "append"}

\* The buffers whose records the service knows.
Waited ==
  Range(cache) \cup Range(logs) \cup {b \in Buffers : pc[Worker] = "handle" /\ b = log[Worker]}

\* The worker looks at _logs only when _cache is empty, and leaves by way of
\* a look at _active that found it false.
WorkerAt ==
  /\ pc[Worker] \in {"swap", "quit", "quit_if_empty"} => cache = <<>>
  /\ pc[Worker] = "quit_if_empty" => ~active

\* A buffer to be appended has the record of this call of its thread.
Stamped ==
  \A t \in Threads : pc[t] \in {"check", "append"} => rec[log[t]] = <<t, calls[t]>>

\* The records known to the service are of calls that have got past append.
Past ==
  \A b \in Waited :
    /\ rec[b] \in Records
    /\ rec[b][2] <= calls[rec[b][1]]
    /\ pc[rec[b][1]] \in InCall => rec[b][2] < calls[rec[b][1]]

ServiceInv == WorkerAt /\ Stamped /\ Past

(* A record is a thread and the number of one of its calls.                *)
LEMMA RecordParts ==
  ASSUME NEW r \in Records
  PROVE  /\ r[1] \in Threads /\ r[2] \in 1..MaxCalls[r[1]] /\ r = <<r[1], r[2]>>
         /\ r # NoRecord
<1>1. PICK t \in Threads : r \in {t} \X (1..MaxCalls[t])
  BY DEF Records
<1>2. QED
  BY <1>1, QueueAssumption DEF NoRecord

\* Threads end calls, go on with one, or begin another.
CallsGoOn ==
  \A t \in Threads :
    \/ calls'[t] = calls[t] /\ (pc'[t] \in InCall => pc[t] \in InCall)
    \/ calls'[t] = calls[t] + 1

(* Whatever threads do with their calls, what was past remains so.         *)
LEMMA PastKept ==
  ASSUME TypeInv, Past, CallsGoOn, NEW b \in Waited, rec'[b] = rec[b]
  PROVE  /\ rec'[b] \in Records
         /\ rec'[b][2] <= calls'[rec'[b][1]]
         /\ pc'[rec'[b][1]] \in InCall => rec'[b][2] < calls'[rec'[b][1]]
<1>1. /\ rec[b] \in Records /\ rec[b][1] \in Threads /\ rec[b][2] \in Nat
      /\ rec[b][2] <= calls[rec[b][1]]
      /\ pc[rec[b][1]] \in InCall => rec[b][2] < calls[rec[b][1]]
  BY RecordParts, QueueAssumption DEF Past
<1>2. calls[rec[b][1]] \in Nat
  BY <1>1 DEF TypeInv, TypeOK
<1>3. QED
  BY <1>1, <1>2 DEF CallsGoOn

(* A step that gives the service no buffer, and changes no record it has.  *)
LEMMA PastQuiet ==
  ASSUME TypeInv, Past, CallsGoOn, Waited' \subseteq Waited,
         \A b \in Waited : rec'[b] = rec[b]
  PROVE  Past'
BY PastKept DEF Past

LEMMA InitService == Init => ServiceInv
<1> SUFFICES ASSUME Init PROVE ServiceInv
  OBVIOUS
<1>1. Waited = {}
  BY DEF Init, Waited, Range, Threads
<1>2. QED
  BY <1>1 DEF Init, ServiceInv, WorkerAt, Stamped, Past, Threads

LEMMA NextWorkerAt == TypeInv /\ WorkerAt /\ [Next]_vars => WorkerAt'
<1> SUFFICES ASSUME TypeInv, WorkerAt, [Next]_vars PROVE WorkerAt'
  OBVIOUS
<1> USE QueueAssumption
    DEF WorkerAt, TypeInv, TypeOK, CtlOK, Goto, Return, lifeVars, buffVars, callVars, Threads
<1>1. ASSUME NEW t \in Threads, PushStep(t) PROVE WorkerAt'
  <2>1. /\ UNCHANGED <<cache, active>>
        /\ \E l \in CallLabels \cup {ret[t]} : pc' = [pc EXCEPT ![t] = l]
    BY <1>1 DEF PushStep, Prepush, Throttle, Wake, Make, Check, Enlist, FreeCheck, PoolAdd,
                CallLabels
  <2>2. ret[t] \in {"idle", "prologue", "pop"} /\ Worker \in DOMAIN pc
    OBVIOUS
  <2>3. QED
    BY <2>1, <2>2 DEF CallLabels
<1>2. ASSUME NEW t \in Threads, NEW back, BeginPush(t, back) PROVE WorkerAt'
  BY <1>2 DEF BeginPush
<1>3. CASE Start \/ StopCall \/ Join \/ Finished \/ UNCHANGED vars
  BY <1>3 DEF Start, StopCall, Join, Finished, vars
<1>4. CASE WorkerEnter \/ WorkerHandle \/ WorkerReadActive \/ WorkerReadEmpty
  BY <1>4 DEF WorkerEnter, WorkerHandle, WorkerReadActive, WorkerReadEmpty
<1>5. CASE WorkerPrologue \/ WorkerUpdate
  BY <1>2, <1>5 DEF WorkerPrologue, WorkerUpdate
<1>6. CASE WorkerPop \/ WorkerSwap
  BY <1>6 DEF WorkerPop, WorkerSwap
<1>7. QED
  BY <1>1, <1>2, <1>3, <1>4, <1>5, <1>6 DEF Next, WorkerStep, ProducerPush

LEMMA NextStamped == TypeInv /\ OneOwner /\ Stamped /\ [Next]_vars => Stamped'
<1> SUFFICES ASSUME TypeInv, OneOwner, Stamped, [Next]_vars PROVE Stamped'
  OBVIOUS
<1> USE QueueAssumption
    DEF Stamped, TypeInv, TypeOK, LocalsOK, Holding, Goto, Return, lifeVars, buffVars, callVars,
        Threads
<1>1. ASSUME NEW t \in Threads, PushStep(t) PROVE Stamped'
  <2>1. CASE Make(t)
    <3>1. PICK b \in Buffers :
            /\ (pool # <<>> /\ b = Last(pool)) \/ b \in heap
            /\ log' = [log EXCEPT ![t] = b]
            /\ rec' = [rec EXCEPT ![b] = <<t, calls[t]>>]
      BY <2>1 DEF Make
    <3>2. b \notin Held
      <4>1. CASE pool # <<>> /\ b = Last(pool)
        <5>1. b \in Range(pool)
          BY <4>1, FrontRange DEF OneOwner
        <5>2. QED
          BY <5>1 DEF OneOwner
      <4>2. CASE b \in heap
        BY <4>2 DEF OneOwner
      <4>3. QED
        BY <3>1, <4>1, <4>2
    <3>3. \A u \in Threads : log[u] # b
      BY <3>2 DEF Held
    <3>4. QED
      BY <2>1, <3>1, <3>3 DEF Make
  <2>2. CASE Prepush(t) \/ Throttle(t) \/ Wake(t) \/ Check(t) \/ Enlist(t) \/ FreeCheck(t)
             \/ PoolAdd(t)
    BY <2>2, ZenonT(40) DEF Prepush, Throttle, Wake, Check, Enlist, FreeCheck, PoolAdd
  <2>3. QED
    BY <1>1, <2>1, <2>2 DEF PushStep
<1>2. ASSUME NEW t \in Threads, NEW back, BeginPush(t, back) PROVE Stamped'
  BY <1>2 DEF BeginPush
<1>3. CASE Start \/ StopCall \/ Join \/ Finished \/ UNCHANGED vars
  BY <1>3 DEF Start, StopCall, Join, Finished, vars
<1>4. CASE WorkerEnter \/ WorkerHandle \/ WorkerReadActive \/ WorkerReadEmpty
  BY <1>4 DEF WorkerEnter, WorkerHandle, WorkerReadActive, WorkerReadEmpty
<1>5. CASE WorkerPrologue \/ WorkerUpdate
  BY <1>2, <1>5 DEF WorkerPrologue, WorkerUpdate
<1>6. CASE WorkerPop \/ WorkerSwap
  BY <1>6 DEF WorkerPop, WorkerSwap
<1>7. QED
  BY <1>1, <1>2, <1>3, <1>4, <1>5, <1>6 DEF Next, WorkerStep, ProducerPush

(* A buffer that make() takes is none the service knows.                   *)
LEMMA MadeIsNew ==
  ASSUME TypeInv, OneOwner, NEW b \in Buffers,
         (pool # <<>> /\ b = Last(pool)) \/ b \in heap
  PROVE  b \notin Waited
<1>1. (b \in Range(pool) \/ b \in heap) /\ NULL \notin Buffers
  BY FrontRange, QueueAssumption DEF TypeInv, TypeOK, OneOwner
<1>2. b \notin Held /\ Worker \in Threads
  BY <1>1 DEF OneOwner, Threads
<1>3. b # log[Worker]
  BY <1>2 DEF Held
<1>4. QED
  BY <1>1, <1>3 DEF OneOwner, Waited

(* What a step of push() does that the service may notice: append.         *)
LEMMA PushQuiet ==
  ASSUME TypeInv, OneOwner, NEW t \in Threads, PushStep(t)
  PROVE  /\ CallsGoOn
         /\ UNCHANGED <<cache, active>>
         /\ logs' = IF pc[t] = "append" THEN Append(logs, log[t]) ELSE logs
         /\ \A b \in Waited : rec'[b] = rec[b]
         /\ pc[t] = "append" => rec' = rec /\ log[t] \in Buffers
         /\ pc[t] = "append" => pc' = [pc EXCEPT ![t] = ret[t]]
         /\ \A u \in Threads \ {t} : pc'[u] = pc[u] /\ log'[u] = log[u]
         /\ pc[t] \in CallLabels /\ pc'[t] \in CallLabels \cup {"idle", "prologue", "pop"}
<1> USE DEF TypeInv, TypeOK, LocalsOK, Holding, InCall, Entering, CallLabels, CallsGoOn,
            Goto, Return, lifeVars, buffVars, callVars
<1>1. CASE Prepush(t) \/ Throttle(t) \/ Wake(t) \/ Check(t)
  BY <1>1 DEF Prepush, Throttle, Wake, Check
<1>2. CASE Make(t)
  <2>1. PICK b \in Buffers :
          /\ (pool # <<>> /\ b = Last(pool)) \/ b \in heap
          /\ log' = [log EXCEPT ![t] = b]
          /\ rec' = [rec EXCEPT ![b] = <<t, calls[t]>>]
    BY <1>2 DEF Make
  <2>2. b \notin Waited
    BY <2>1, MadeIsNew
  <2>3. Waited \subseteq Buffers
    BY ElementOfSeq, LenProperties DEF Waited, Range
  <2>4. QED
    BY <1>2, <2>1, <2>2, <2>3 DEF Make
<1>3. CASE Enlist(t)
  BY <1>3 DEF Enlist
<1>4. CASE FreeCheck(t)
  BY <1>4 DEF FreeCheck
<1>5. CASE PoolAdd(t)
  BY <1>5 DEF PoolAdd
<1>6. QED
  BY <1>1, <1>2, <1>3, <1>4, <1>5 DEF PushStep

LEMMA PastPush ==
  ASSUME TypeInv, OneOwner, Stamped, Past, NEW t \in Threads, PushStep(t)
  PROVE  Past'
<1> Worker \in Threads /\ Worker \notin Producers /\ NULL \notin Threads
  BY QueueAssumption DEF Threads
<1>1. /\ CallsGoOn
      /\ UNCHANGED <<cache, active>>
      /\ logs' = IF pc[t] = "append" THEN Append(logs, log[t]) ELSE logs
      /\ \A b \in Waited : rec'[b] = rec[b]
      /\ pc[t] = "append" => rec' = rec /\ log[t] \in Buffers
      /\ pc[t] = "append" => pc' = [pc EXCEPT ![t] = ret[t]]
      /\ \A u \in Threads \ {t} : pc'[u] = pc[u] /\ log'[u] = log[u]
      /\ pc'[t] \in CallLabels \cup {"idle", "prologue", "pop"}
  BY PushQuiet
<1>2. {b \in Buffers : pc'[Worker] = "handle" /\ b = log'[Worker]}
        \subseteq {b \in Buffers : pc[Worker] = "handle" /\ b = log[Worker]}
  BY <1>1 DEF CallLabels
<1>3. CASE pc[t] # "append"
  <2>1. Waited' \subseteq Waited
    BY <1>1, <1>2, <1>3 DEF Waited
  <2>2. QED
    BY <1>1, <2>1, PastQuiet
<1>4. CASE pc[t] = "append"
  <2>1. Range(logs') = Range(logs) \cup {log[t]}
    BY <1>1, <1>4, AppendRange DEF TypeInv, TypeOK
  <2>2. Waited' \subseteq Waited \cup {log[t]}
    BY <1>1, <1>2, <2>1 DEF Waited
  <2>3. /\ rec'[log[t]] = <<t, calls[t]>> /\ rec'[log[t]] \in Records
    <3>1. rec[log[t]] = <<t, calls[t]>> /\ rec[log[t]] \in Records \cup {NoRecord}
      BY <1>1, <1>4 DEF Stamped, TypeInv, TypeOK
    <3>2. <<t, calls[t]>> # NoRecord
      BY DEF NoRecord
    <3>3. QED
      BY <1>1, <1>4, <3>1, <3>2
  <2>4. /\ calls[t] \in Nat /\ calls'[t] \in Nat /\ calls[t] <= calls'[t]
        /\ pc'[t] \notin InCall
    <3>1. pc'[t] = ret[t] /\ ret[t] \in {"idle", "prologue", "pop"}
      BY <1>1, <1>4 DEF TypeInv, TypeOK
    <3>2. calls[t] \in Nat /\ (calls'[t] = calls[t] \/ calls'[t] = calls[t] + 1)
      BY <1>1 DEF TypeInv, TypeOK, CallsGoOn
    <3>3. QED
      BY <3>1, <3>2 DEF InCall, Entering
  <2>5. ASSUME NEW b \in Waited'
        PROVE  /\ rec'[b] \in Records
               /\ rec'[b][2] <= calls'[rec'[b][1]]
               /\ pc'[rec'[b][1]] \in InCall => rec'[b][2] < calls'[rec'[b][1]]
    <3>1. CASE b = log[t]
      BY <2>3, <2>4, <3>1
    <3>2. CASE b # log[t]
      BY <1>1, <2>2, <2>5, <3>2, PastKept
    <3>3. QED
      BY <3>1, <3>2
  <2>6. QED
    BY <2>5 DEF Past
<1>5. QED
  BY <1>3, <1>4

LEMMA NextPast == TypeInv /\ OneOwner /\ Stamped /\ Past /\ [Next]_vars => Past'
<1> SUFFICES ASSUME TypeInv, OneOwner, Stamped, Past, [Next]_vars PROVE Past'
  OBVIOUS
<1> USE QueueAssumption
    DEF TypeInv, TypeOK, CtlOK, InCall, Entering, CallsGoOn, Goto, Return, lifeVars, buffVars,
        callVars, Threads
<1>1. ASSUME NEW t \in Threads, PushStep(t) PROVE Past'
  BY <1>1, PastPush
<1>2. ASSUME NEW t \in Threads, NEW back, BeginPush(t, back) PROVE Past'
  <2>1. CallsGoOn
    BY <1>2 DEF BeginPush
  <2>2. Waited' \subseteq Waited /\ rec' = rec
    BY <1>2 DEF BeginPush, Waited
  <2>3. QED
    BY <2>1, <2>2, PastQuiet
<1>3. CASE Start \/ StopCall \/ Join \/ Finished \/ UNCHANGED vars
  <2>1. CallsGoOn
    BY <1>3 DEF Start, StopCall, Join, Finished, vars
  <2>2. Waited' \subseteq Waited /\ rec' = rec
    BY <1>3 DEF Start, StopCall, Join, Finished, vars, Waited
  <2>3. QED
    BY <2>1, <2>2, PastQuiet
<1>4. CASE WorkerEnter \/ WorkerHandle \/ WorkerReadActive \/ WorkerReadEmpty
  <2>1. CallsGoOn
    BY <1>4 DEF WorkerEnter, WorkerHandle, WorkerReadActive, WorkerReadEmpty
  <2>2. Waited' \subseteq Waited /\ rec' = rec
    BY <1>4 DEF WorkerEnter, WorkerHandle, WorkerReadActive, WorkerReadEmpty, Waited
  <2>3. QED
    BY <2>1, <2>2, PastQuiet
<1>5. CASE WorkerPrologue \/ WorkerUpdate
  <2>1. CASE pc' = [pc EXCEPT ![Worker] = "pop"] /\ UNCHANGED <<lifeVars, buffVars, callVars, log>>
    <3>1. CallsGoOn /\ Waited' \subseteq Waited /\ rec' = rec
      BY <2>1 DEF Waited
    <3>2. QED
      BY <3>1, PastQuiet
  <2>2. QED
    BY <1>2, <1>5, <2>1 DEF WorkerPrologue, WorkerUpdate
<1>6. CASE WorkerPop
  <2>1. CallsGoOn /\ rec' = rec
    BY <1>6 DEF WorkerPop
  <2>2. Waited' \subseteq Waited
    <3>1. CASE cache # <<>>
      <4>1. Range(cache') = Range(cache) \ {Head(cache)} /\ Head(cache) \in Range(cache)
        BY <1>6, <3>1, TailRange DEF WorkerPop, OneOwner
      <4>2. QED
        BY <1>6, <3>1, <4>1 DEF WorkerPop, Waited
    <3>2. CASE cache = <<>>
      BY <1>6, <3>2 DEF WorkerPop, Waited
    <3>3. QED
      BY <3>1, <3>2
  <2>3. QED
    BY <2>1, <2>2, PastQuiet
<1>7. CASE WorkerSwap
  <2>1. CallsGoOn /\ rec' = rec
    BY <1>7 DEF WorkerSwap
  <2>2. Waited' \subseteq Waited
    BY <1>7 DEF WorkerSwap, Waited
  <2>3. QED
    BY <2>1, <2>2, PastQuiet
<1>8. QED
  BY <1>1, <1>2, <1>3, <1>4, <1>5, <1>6, <1>7 DEF Next, WorkerStep, ProducerPush

LEMMA NextService == TypeInv /\ OneOwner /\ ServiceInv /\ [Next]_vars => ServiceInv'
BY NextWorkerAt, NextStamped, NextPast DEF ServiceInv

(* The owners and the records, at every instant.                           *)
LEMMA ServiceInvariant == Spec => [](TypeInv /\ OneOwner /\ ServiceInv)
BY TypeInvariant, EachBufferHasOneOwner, InitService, NextService, PTL DEF Spec

---------------------------------------------------------------------------
(* The steps of the service                                                *)

Queue == Holds(Waiting, rec)
Current == IF pc[Worker] = "handle" THEN rec[log[Worker]] ELSE NoRecord

Quiet == UNCHANGED <<Queue, Current, Phase>>

Accepts(r) ==
  /\ r \in Records /\ (\A i \in DOMAIN Queue : Queue[i] # r) /\ r # Current
  /\ Queue' = Append(Queue, r)
  /\ UNCHANGED <<Current, Phase>>

Takes ==
  /\ Phase # "down" /\ Current = NoRecord /\ Queue # <<>>
  /\ Current' = Head(Queue) /\ Queue' = Tail(Queue)
  /\ UNCHANGED Phase

Finishes ==
  /\ Current # NoRecord /\ Current' = NoRecord
  /\ UNCHANGED <<Queue, Phase>>

ComesUp == Phase = "down" /\ Phase' = "up" /\ UNCHANGED <<Queue, Current>>
IsAsked == Phase = "up" /\ Phase' = "draining" /\ UNCHANGED <<Queue, Current>>
Quits ==
  /\ Phase = "draining" /\ Queue = <<>> /\ Current = NoRecord
  /\ Phase' = "down" /\ UNCHANGED <<Queue, Current>>

ServiceStep ==
  \/ \E r \in Records : Accepts(r)
  \/ Takes \/ Finishes \/ ComesUp \/ IsAsked \/ Quits \/ Quiet

(* These are the steps of LogService under the mapping.                    *)
LEMMA ServiceStepIs == ServiceStep => [Service!Next]_(Service!vars)
BY DEF ServiceStep, Accepts, Takes, Finishes, ComesUp, IsAsked, Quits, Quiet, Queue, Current, Holds,
       Service!Next, Service!Accept, Service!Take, Service!Finish, Service!ComeUp,
       Service!AskToStop, Service!Quit, Service!vars, Service!Range

(* What waits in the two queues.                                           *)
LEMMA WaitingIs ==
  ASSUME TypeInv
  PROVE  /\ Waiting \in Seq(Buffers)
         /\ DOMAIN Waiting = 1..Len(Waiting)
         /\ \A i \in DOMAIN Waiting : Waiting[i] \in Waited /\ Waiting[i] \in Buffers
<1>1. /\ cache \in Seq(Buffers) /\ logs \in Seq(Buffers)
      /\ Len(cache) \in Nat /\ Len(logs) \in Nat
      /\ DOMAIN cache = 1..Len(cache) /\ DOMAIN logs = 1..Len(logs)
  BY LenProperties DEF TypeInv, TypeOK
<1>2. /\ Waiting \in Seq(Buffers) /\ Len(Waiting) = Len(cache) + Len(logs)
      /\ \A i \in 1..(Len(cache) + Len(logs)) :
           Waiting[i] = IF i <= Len(cache) THEN cache[i] ELSE logs[i - Len(cache)]
  BY <1>1, ConcatProperties DEF Waiting
<1>3. DOMAIN Waiting = 1..Len(Waiting)
  BY <1>2, LenProperties
<1>4. ASSUME NEW i \in DOMAIN Waiting
      PROVE  Waiting[i] \in Waited /\ Waiting[i] \in Buffers
  <2>1. Waiting[i] \in Buffers
    BY <1>2, <1>3, ElementOfSeq
  <2>2. CASE i <= Len(cache)
    BY <1>1, <1>2, <1>3, <2>1, <2>2 DEF Waited, Range
  <2>3. CASE ~(i <= Len(cache))
    <3>1. i - Len(cache) \in DOMAIN logs /\ Waiting[i] = logs[i - Len(cache)]
      BY <1>1, <1>2, <1>3, <2>3
    <3>2. QED
      BY <2>1, <3>1 DEF Waited, Range
  <2>4. QED
    BY <2>2, <2>3
<1>5. QED
  BY <1>2, <1>3, <1>4

(* A step that moves nothing and changes no record of the service.         *)
LEMMA QueueStays ==
  ASSUME TypeInv, Waiting' = Waiting, \A b \in Waited : rec'[b] = rec[b]
  PROVE  Queue' = Queue
BY WaitingIs DEF Queue, Holds

(* The ends of what waits, and of what the service sees of it.             *)
LEMMA QueueGrows ==
  ASSUME TypeInv, NEW b \in Buffers
  PROVE  Holds(Append(Waiting, b), rec) = Append(Queue, rec[b])
<1>1. rec \in Maps(Buffers, Records \cup {NoRecord})
  BY DEF TypeInv, TypeOK, Maps
<1>2. Waiting \in Seq(Buffers)
  BY WaitingIs
<1>3. Holds(Append(Waiting, b), rec) = Append(Holds(Waiting, rec), rec[b])
  <2> SUFFICES ASSUME NEW v, v = rec[b]
               PROVE  Holds(Append(Waiting, b), rec) = Append(Holds(Waiting, rec), v)
    OBVIOUS
  <2>1. QED
    BY <1>1, <1>2, HoldsAppend
<1>4. QED
  BY <1>3 DEF Queue

LEMMA QueueShrinks ==
  ASSUME TypeInv, Waiting # <<>>
  PROVE  /\ Queue # <<>>
         /\ Holds(Tail(Waiting), rec) = Tail(Queue)
         /\ Head(Queue) = rec[Head(Waiting)]
<1>1. rec \in Maps(Buffers, Records \cup {NoRecord})
  BY DEF TypeInv, TypeOK, Maps
<1>2. Waiting \in Seq(Buffers)
  BY WaitingIs
<1>3. /\ Holds(Waiting, rec) # <<>>
      /\ Holds(Tail(Waiting), rec) = Tail(Holds(Waiting, rec))
      /\ Head(Holds(Waiting, rec)) = rec[Head(Waiting)]
  <2>1. Holds(Waiting, rec) # <<>>
    BY <1>1, <1>2, HoldsSeq
  <2>2. Holds(Tail(Waiting), rec) = Tail(Holds(Waiting, rec))
    BY <1>1, <1>2, HoldsTail
  <2>3. Head(Holds(Waiting, rec)) = rec[Head(Waiting)]
    BY <1>1, <1>2, HoldsTail
  <2>4. QED
    BY <2>1, <2>2, <2>3
<1>4. QED
  BY <1>3 DEF Queue

LEMMA PushServes ==
  ASSUME TypeInv, OneOwner, ServiceInv, NEW t \in Threads, PushStep(t)
  PROVE  ServiceStep
<1> Worker \in Threads /\ NULL \notin Threads /\ NULL \notin Buffers
  BY QueueAssumption DEF Threads
<1>1. /\ UNCHANGED <<cache, active>>
      /\ logs' = IF pc[t] = "append" THEN Append(logs, log[t]) ELSE logs
      /\ \A b \in Waited : rec'[b] = rec[b]
      /\ pc[t] = "append" => rec' = rec /\ log[t] \in Buffers
      /\ \A u \in Threads \ {t} : pc'[u] = pc[u] /\ log'[u] = log[u]
      /\ pc[t] \in CallLabels /\ pc'[t] \in CallLabels \cup {"idle", "prologue", "pop"}
  BY PushQuiet
<1>2. Current' = Current
  <2>1. CASE pc[Worker] = "handle"
    <3>1. pc'[Worker] = "handle" /\ log'[Worker] = log[Worker]
      BY <1>1, <2>1 DEF CallLabels
    <3>2. log[Worker] \in Waited
      BY <2>1 DEF Waited, TypeInv, TypeOK, LocalsOK, Holding
    <3>3. QED
      BY <1>1, <2>1, <3>1, <3>2 DEF Current
  <2>2. CASE pc[Worker] # "handle"
    <3>1. pc'[Worker] # "handle"
      BY <1>1, <2>2 DEF CallLabels
    <3>2. QED
      BY <2>2, <3>1 DEF Current
  <2>3. QED
    BY <2>1, <2>2
<1>3. Phase' = Phase
  BY <1>1 DEF Phase, CallLabels
<1>4. CASE pc[t] # "append"
  <2>1. Waiting' = Waiting
    BY <1>1, <1>4 DEF Waiting
  <2>2. QED
    BY <1>1, <1>2, <1>3, <2>1, QueueStays DEF ServiceStep, Quiet
<1>5. CASE pc[t] = "append"
  <2> DEFINE r == rec[log[t]]
  <2>1. r = <<t, calls[t]>> /\ r \in Records
    <3>1. r = <<t, calls[t]>> /\ r \in Records \cup {NoRecord}
      BY <1>1, <1>5 DEF ServiceInv, Stamped, TypeInv, TypeOK
    <3>2. <<t, calls[t]>> # NoRecord
      BY DEF NoRecord
    <3>3. QED
      BY <3>1, <3>2
  <2>2. ASSUME NEW b \in Waited PROVE rec[b] # r
    <3>1. calls[t] \in Nat /\ pc[t] \in InCall
      BY <1>5 DEF TypeInv, TypeOK, InCall
    <3>2. rec[b][1] = t => rec[b][2] # calls[t]
      <4>1. rec[b] \in Records /\ (pc[rec[b][1]] \in InCall => rec[b][2] < calls[rec[b][1]])
        BY DEF ServiceInv, Past
      <4>2. rec[b][2] \in Nat
        BY <4>1, RecordParts, QueueAssumption
      <4>3. QED
        BY <3>1, <4>1, <4>2
    <3>3. QED
      BY <2>1, <3>2
  <2>3. \A i \in DOMAIN Queue : Queue[i] # r
    BY <2>2, WaitingIs DEF Queue, Holds
  <2>4. r # Current
    <3>1. CASE pc[Worker] = "handle"
      <4>1. log[Worker] \in Waited
        BY <3>1 DEF Waited, TypeInv, TypeOK, LocalsOK, Holding
      <4>2. QED
        BY <2>2, <3>1, <4>1 DEF Current
    <3>2. CASE pc[Worker] # "handle"
      BY <2>1, <3>2, RecordParts DEF Current
    <3>3. QED
      BY <3>1, <3>2
  <2>5. Waiting' = Append(Waiting, log[t])
    BY <1>1, <1>5, JoinedAppend DEF Waiting, TypeInv, TypeOK
  <2>6. Queue' = Append(Queue, r)
    BY <1>1, <1>5, <2>5, QueueGrows DEF Queue
  <2>7. QED
    BY <1>2, <1>3, <2>1, <2>3, <2>4, <2>6 DEF ServiceStep, Accepts
<1>6. QED
  BY <1>4, <1>5

(* The other steps.                                                        *)
LEMMA NextServes ==
  ASSUME TypeInv, OneOwner, ServiceInv, [Next]_vars
  PROVE  ServiceStep
<1> Worker \in Threads /\ NULL \notin Threads /\ NULL \notin Buffers
  BY QueueAssumption DEF Threads
<1> USE DEF Goto, lifeVars, buffVars, callVars
<1>1. ASSUME NEW t \in Threads, PushStep(t) PROVE ServiceStep
  BY <1>1, PushServes
<1>2. ASSUME UNCHANGED <<cache, logs, rec>>
      PROVE  Queue' = Queue
  BY <1>2, QueueStays DEF Waiting
<1>3. ASSUME NEW t \in Threads, NEW back, BeginPush(t, back), pc[t] # "handle",
             t = Worker => pc[t] \notin {"none", "entry", "exited"}
      PROVE  ServiceStep
  <2>1. pc \in [Threads -> CallLabels \cup WorkerLabels \cup {"idle"}]
    BY DEF TypeInv, TypeOK
  <2>2. UNCHANGED <<Current, Phase>>
    BY <1>3, <2>1 DEF BeginPush, Current, Phase
  <2>3. QED
    BY <1>2, <1>3, <2>2 DEF BeginPush, ServiceStep, Quiet
<1>4. ASSUME NEW p \in Producers, ProducerPush(p) PROVE ServiceStep
  BY <1>3, <1>4, QueueAssumption DEF ProducerPush, Threads
<1>5. pc \in [Threads -> CallLabels \cup WorkerLabels \cup {"idle"}]
  BY DEF TypeInv, TypeOK
<1>6. CASE Start
  <2>1. pc[Worker] = "none"
    BY <1>6 DEF Start, TypeInv, CtlOK
  <2>2. UNCHANGED <<Current, Phase>>
    BY <1>5, <1>6, <2>1 DEF Start, Current, Phase
  <2>3. QED
    BY <1>2, <1>6, <2>2 DEF Start, ServiceStep, Quiet
<1>7. CASE StopCall
  <2>1. Current' = Current /\ Queue' = Queue
    BY <1>2, <1>7 DEF StopCall, Current
  <2>2. CASE Phase = "down"
    <3>1. Phase' = Phase
      BY <1>7, <2>2 DEF StopCall, Phase
    <3>2. QED
      BY <2>1, <3>1 DEF ServiceStep, Quiet
  <2>3. CASE Phase # "down"
    <3>1. Phase = "up" /\ Phase' = "draining"
      BY <1>7, <2>3 DEF StopCall, Phase
    <3>2. QED
      BY <2>1, <3>1 DEF ServiceStep, IsAsked
  <2>4. QED
    BY <2>2, <2>3
<1>8. CASE Join
  <2>1. UNCHANGED <<Current, Phase>>
    BY <1>5, <1>8 DEF Join, Current, Phase
  <2>2. QED
    BY <1>2, <1>8, <2>1 DEF Join, ServiceStep, Quiet
<1>9. CASE WorkerEnter
  <2>1. Current' = Current /\ Phase = "down" /\ Phase' = "up"
    BY <1>5, <1>9 DEF WorkerEnter, Current, Phase
  <2>2. QED
    BY <1>2, <1>9, <2>1 DEF WorkerEnter, ServiceStep, ComesUp
<1>10. CASE WorkerPrologue \/ WorkerUpdate
  <2>1. CASE pc' = [pc EXCEPT ![Worker] = "pop"] /\ UNCHANGED <<lifeVars, buffVars, callVars, log>>
    <3>1. UNCHANGED <<Current, Phase>>
      BY <1>5, <1>10, <2>1 DEF WorkerPrologue, WorkerUpdate, Current, Phase
    <3>2. QED
      BY <1>2, <2>1, <3>1 DEF ServiceStep, Quiet
  <2>2. QED
    BY <1>3, <1>10, <2>1 DEF WorkerPrologue, WorkerUpdate
<1>11. CASE WorkerPop
  <2>1. /\ pc[Worker] = "pop" /\ Phase' = Phase
        /\ UNCHANGED <<logs, rec>>
    BY <1>5, <1>11 DEF WorkerPop, Phase
  <2>2. CASE cache # <<>>
    <3>1. /\ cache \in Seq(Buffers) /\ logs \in Seq(Buffers)
          /\ rec \in [Buffers -> Records \cup {NoRecord}] /\ log \in [Threads -> Buffers \cup {NULL}]
      BY DEF TypeInv, TypeOK
    <3>2. /\ cache' = Tail(cache) /\ log'[Worker] = Head(cache) /\ pc'[Worker] = "handle"
      BY <1>5, <1>11, <2>2, <3>1 DEF WorkerPop
    <3>3. Waiting # <<>> /\ Waiting' = Tail(Waiting) /\ Head(Waiting) = Head(cache)
      BY <2>1, <2>2, <3>1, <3>2, JoinedTail DEF Waiting
    <3>4. /\ Queue # <<>> /\ Queue' = Tail(Queue) /\ Head(Queue) = rec[Head(Waiting)]
      BY <2>1, <3>3, QueueShrinks DEF Queue
    <3>5. Current = NoRecord /\ Current' = rec[Head(cache)]
      BY <2>1, <3>2 DEF Current
    <3>6. Phase # "down"
      BY <2>1 DEF Phase
    <3>7. QED
      BY <2>1, <3>3, <3>4, <3>5, <3>6 DEF ServiceStep, Takes
  <2>3. CASE cache = <<>>
    <3>1. Current' = Current
      BY <1>5, <1>11, <2>1, <2>3 DEF WorkerPop, Current
    <3>2. cache' = cache
      BY <1>11, <2>3 DEF WorkerPop
    <3>3. QED
      BY <1>2, <2>1, <3>1, <3>2 DEF ServiceStep, Quiet
  <2>4. QED
    BY <2>2, <2>3
<1>12. CASE WorkerSwap
  <2>1. cache = <<>> /\ cache' = logs /\ logs' = <<>> /\ logs \in Seq(Buffers) /\ rec' = rec
    BY <1>12 DEF WorkerSwap, ServiceInv, WorkerAt, TypeInv, TypeOK
  <2>2. Waiting' = Waiting
    BY <2>1, ConcatEmptySeq DEF Waiting
  <2>3. UNCHANGED <<Current, Phase>>
    BY <1>5, <1>12 DEF WorkerSwap, Current, Phase
  <2>4. QED
    BY <2>1, <2>2, <2>3, QueueStays DEF ServiceStep, Quiet
<1>13. CASE WorkerHandle
  <2>1. pc[Worker] = "handle" /\ pc'[Worker] = "free" /\ UNCHANGED <<cache, logs, rec, active>>
    BY <1>5, <1>13 DEF WorkerHandle
  <2>2. log[Worker] \in Waited
    BY <2>1 DEF Waited, TypeInv, TypeOK, LocalsOK, Holding
  <2>3. Current # NoRecord /\ Current' = NoRecord
    BY <2>1, <2>2, RecordParts DEF Current, ServiceInv, Past
  <2>4. Phase' = Phase
    BY <2>1 DEF Phase
  <2>5. QED
    BY <1>2, <2>1, <2>3, <2>4 DEF ServiceStep, Finishes
<1>14. CASE WorkerReadActive
  <2>1. UNCHANGED <<Current, Phase>>
    BY <1>5, <1>14 DEF WorkerReadActive, Current, Phase
  <2>2. QED
    BY <1>2, <1>14, <2>1 DEF WorkerReadActive, ServiceStep, Quiet
<1>15. CASE WorkerReadEmpty
  <2>1. /\ pc[Worker] = "quit_if_empty" /\ cache = <<>> /\ ~active
        /\ UNCHANGED <<cache, logs, rec, active>>
        /\ pc' = [pc EXCEPT ![Worker] = IF logs = <<>> THEN "exited" ELSE "update"]
    BY <1>15 DEF WorkerReadEmpty, ServiceInv, WorkerAt
  <2>2. Current = NoRecord /\ Current' = NoRecord /\ Queue' = Queue
    BY <1>2, <1>5, <2>1 DEF Current
  <2>3. Phase = "draining"
    BY <2>1 DEF Phase
  <2>4. CASE logs = <<>>
    <3>1. Waiting = <<>>
      BY <2>1, <2>4, EmptySeq, ConcatEmptySeq DEF Waiting
    <3>2. Queue = <<>>
      <4>1. rec \in Maps(Buffers, Records \cup {NoRecord})
        BY DEF TypeInv, TypeOK, Maps
      <4>2. Holds(<<>>, rec) = <<>>
        BY <4>1, HoldsSeq, EmptySeq
      <4>3. QED
        BY <3>1, <4>2 DEF Queue
    <3>3. Phase' = "down"
      BY <1>5, <2>1, <2>4 DEF Phase
    <3>4. QED
      BY <2>2, <2>3, <3>2, <3>3 DEF ServiceStep, Quits
  <2>5. CASE logs # <<>>
    <3>1. Phase' = "draining"
      BY <1>5, <2>1, <2>5 DEF Phase
    <3>2. QED
      BY <2>2, <2>3, <3>1 DEF ServiceStep, Quiet
  <2>6. QED
    BY <2>4, <2>5
<1>16. CASE Finished \/ UNCHANGED vars
  <2>1. UNCHANGED vars
    BY <1>16 DEF Finished
  <2>2. UNCHANGED <<Current, Phase>>
    BY <2>1 DEF vars, Current, Phase
  <2>3. QED
    BY <1>2, <2>1, <2>2 DEF vars, ServiceStep, Quiet
<1>17. QED
  BY <1>1, <1>4, <1>6, <1>7, <1>8, <1>9, <1>10, <1>11, <1>12, <1>13, <1>14, <1>15, <1>16
     DEF Next, WorkerStep, Threads

(* Nothing waits, nobody is there.                                         *)
LEMMA InitServes == Init => Service!Init
<1> SUFFICES ASSUME Init PROVE Service!Init
  OBVIOUS
<1>1. pc[Worker] = "none" /\ Waiting = <<>>
  BY EmptySeq, ConcatEmptySeq DEF Init, Waiting, Threads
<1>2. [i \in DOMAIN Waiting |-> rec[Waiting[i]]] = <<>>
  BY <1>1
<1>3. QED
  BY <1>1, <1>2 DEF Service!Init, Phase

(* The double queue, its unlocked reads and the life of the worker         *)
(* implement one FIFO whose worker goes away only when nothing waits.      *)
THEOREM QueueImplementsService == Spec => ImplementsService
<1>1. TypeInv /\ OneOwner /\ ServiceInv /\ [Next]_vars => [Service!Next]_(Service!vars)
  BY NextServes, ServiceStepIs
<1>2. QED
  BY <1>1, InitServes, ServiceInvariant, PTL DEF Spec, ImplementsService, Service!Spec
===========================================================================
