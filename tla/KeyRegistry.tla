---------------------------- MODULE KeyRegistry ----------------------------
(***************************************************************************)
(* The registry _keys: config, configFromString and update load it from a  *)
(* configuration, push() finds its key there (and enters a key it does not *)
(* know), the setters change it, the worker finds the key of each record.  *)
(*                                                                         *)
(* Several of these use the iterator of a find() after _keys_mtx was given *)
(* back, and the setters never take it: they see the map half copied, and  *)
(* an entry before it has its values.  An iterator is the key together     *)
(* with `gen', the number of times the map was cleared: it dangles when    *)
(* gen has moved on or the entry is gone.  A read through a dangling       *)
(* iterator gives any value.  A write goes to a freed node, which may be   *)
(* part of another entry by then; `undefined' says that there was one.     *)
(*                                                                         *)
(* An entry keeps enable, level and fromfile; the other fields are set by  *)
(* the same steps and read by none of them.  Levels above DEBUG are one.   *)
(* A find() that meets the rebalancing of an insertion is left out.        *)
(***************************************************************************)
EXTENDS Integers, FiniteSets

CONSTANTS
  Apps,         (* threads of the application                              *)
  Worker,       (* the thread that runs log4x::run()                       *)
  Keys, Main,   (* logger keys, and "main"                                 *)
  NULL,         (* no entry, no iterator, no mutex holder, ...             *)
  Contents,     (* texts a configuration can have                          *)
  Missing,      (* the configuration file cannot be opened                 *)
  Sum,          (* the byte sum of each text, 0 of the empty one           *)
  Parsed,       (* the entries each text gives, NULL if it is empty        *)
  Reloaders,    (* threads that load a configuration while others run      *)
  FileLineKeys, (* keys that setfileLine is called with                    *)
  MaxCalls,     (* bound: calls each application thread makes              *)
  MaxLoads,     (* bound: calls of config and configFromString             *)
  MaxClears     (* bound: cleared so often, the map is not updated again   *)

Trace == 0
Debug == 1
High == 2
Levels == Trace..High

Threads == Apps \cup {Worker}
Entries == [enable : BOOLEAN, level : Levels, fromfile : BOOLEAN]

ASSUME RegistryAssumption ==
  /\ Worker \notin Apps /\ Reloaders \subseteq Threads
  /\ Main \in Keys /\ FileLineKeys \subseteq Keys
  /\ NULL \notin Threads \cup Keys \cup Contents \cup Entries /\ NULL \notin Keys \X Nat
  /\ Missing \notin Contents \cup {NULL}
  /\ Sum \in [Contents -> Nat]
  /\ Parsed \in [Contents -> [Keys -> Entries \cup {NULL}] \cup {NULL}]
  /\ \A c \in Contents : Sum[c] = 0 <=> Parsed[c] = NULL
  /\ MaxCalls \in Nat /\ MaxLoads \in Nat /\ MaxClears \in Nat

VARIABLES
  keys,         (* _keys: the entry of each key, or NULL                   *)
  gen,          (* how often _keys was cleared                             *)
  keysMtx,      (* the thread that holds _keys_mtx between two steps       *)
  checksum,     (* _checksum                                               *)
  path,         (* whether _path is set                                    *)
  file,         (* the text of the configuration file, or Missing          *)
  active,       (* Thread::_active                                         *)
  pending,      (* keys of the records that wait for the worker            *)
  asked,        (* what setlevel last did to each key, or NULL: the level, *)
                (* the gen of its iterator, whether the entry was not ready*)
  undefined,    (* a dangling iterator was written through                 *)
  calls,        (* calls each application thread has begun                 *)
  loads,        (* calls of config and configFromString                    *)
  pc, ret,      (* per thread: its place, and where push or parse returns  *)
  it,           (* per thread: its iterator, <<key, gen>>                  *)
  msg,          (* per thread: the record it pushes, <<key, level>>        *)
  want,         (* per thread: what its setter sets, <<key, field, value>> *)
  src           (* per thread: the text it loads                           *)

mapVars == <<keys, gen, keysMtx>>
confVars == <<checksum, path, file>>
ghosts == <<asked, undefined>>
workVars == <<active, pending, ghosts>>
locals == <<it, msg, want, src>>
counts == <<calls, loads>>
vars == <<mapVars, confVars, workVars, counts, pc, ret, locals>>

NoEntries == [k \in Keys |-> NULL]
\* log4x_value_t(), and with enable set, as push() enters an unknown key.
BlankEntry == [enable |-> FALSE, level |-> Debug, fromfile |-> FALSE]
DefaultEntry == [enable |-> TRUE, level |-> Debug, fromfile |-> FALSE]
MainEntry == [enable |-> TRUE, level |-> Trace, fromfile |-> FALSE]

Goto(t, label) == pc' = [pc EXCEPT ![t] = label]
Free == keysMtx = NULL
Valid(i) == i # NULL /\ i[2] = gen /\ keys[i[1]] # NULL

Init ==
  /\ keys = NoEntries
  /\ gen = 0
  /\ keysMtx = NULL
  /\ checksum = 0
  /\ path = FALSE
  /\ file \in Contents \cup {Missing}
  /\ active = FALSE
  /\ pending = {}
  /\ asked = [k \in Keys |-> NULL]
  /\ undefined = FALSE
  /\ calls = [t \in Apps |-> 0]
  /\ loads = 0
  /\ pc = [t \in Threads |-> IF t = Worker THEN "none" ELSE "idle"]
  /\ ret = [t \in Threads |-> "idle"]
  /\ it = [t \in Threads |-> NULL]
  /\ msg = [t \in Threads |-> NULL]
  /\ want = [t \in Threads |-> NULL]
  /\ src = [t \in Threads |-> NULL]

LoadLabels == {"load", "clear", "assign", "main_ensure", "main_reset", "main_enter"}
Loading(t) == pc[t] \in LoadLabels

\* An application thread begins a call of the interface.  A thread that is
\* no reloader configures the logger before there is another to disturb.
Undisturbed == \A u \in Apps : Loading(u) => u \in Reloaders

Call(t) ==
  /\ pc[t] = "idle"
  /\ Undisturbed
  /\ calls[t] < MaxCalls
  /\ calls' = [calls EXCEPT ![t] = @ + 1]

---------------------------------------------------------------------------
(* push()                                                                  *)

\* The thread goes to push a record, and on to `back' afterwards.
Log(t, k, l, back) ==
  /\ msg' = [msg EXCEPT ![t] = <<k, l>>]
  /\ ret' = [ret EXCEPT ![t] = back]
  /\ Goto(t, "prepush")

\* push() returns to where the thread called it.
PushReturns(t) ==
  /\ Goto(t, ret[t])
  /\ ret' = [ret EXCEPT ![t] = "idle"]
  /\ msg' = [msg EXCEPT ![t] = NULL]

CallPush(t) ==
  /\ Call(t)
  /\ \E k \in Keys, l \in Levels : Log(t, k, l, "idle")
  /\ UNCHANGED <<mapVars, confVars, workVars, loads, it, want, src>>

\* Slip: the key is entered although it is known.
PrepushOverwrites(t) ==
  /\ pc[t] = "prepush"
  /\ \/ ~active /\ PushReturns(t) /\ UNCHANGED keys
     \/ /\ active /\ Free
        /\ keys' = [keys EXCEPT ![msg[t][1]] = DefaultEntry]
        /\ Goto(t, "push_find")
        /\ UNCHANGED <<ret, msg>>
  /\ UNCHANGED <<gen, keysMtx, confVars, workVars, counts, it, want, src>>

\* Without _active nothing is read; a record below the level goes no further.
Prepush(t) ==
  /\ pc[t] = "prepush"
  /\ LET k == msg[t][1] IN
     \/ ~active /\ PushReturns(t)
     \/ /\ active /\ Free /\ keys[k] # NULL
        /\ IF msg[t][2] >= keys[k].level
           THEN Goto(t, "push_find") /\ UNCHANGED <<ret, msg>>
           ELSE PushReturns(t)
  /\ UNCHANGED <<mapVars, confVars, workVars, counts, it, want, src>>

\* A key that is unknown: _keys[key] has an entry, which is not assigned yet.
PrepushNew(t) ==
  /\ pc[t] = "prepush"
  /\ active /\ Free /\ keys[msg[t][1]] = NULL
  /\ keys' = [keys EXCEPT ![msg[t][1]] = BlankEntry]
  /\ keysMtx' = t
  /\ Goto(t, "enter")
  /\ UNCHANGED <<gen, confVars, workVars, counts, ret, locals>>

Enter(t) ==
  /\ pc[t] = "enter"
  /\ keys' = [keys EXCEPT ![msg[t][1]] = DefaultEntry]
  /\ keysMtx' = NULL
  /\ Goto(t, "push_find")
  /\ UNCHANGED <<gen, confVars, workVars, counts, ret, locals>>

PushFind(t) ==
  /\ pc[t] = "push_find"
  /\ Free
  /\ LET k == msg[t][1] IN
     IF keys[k] = NULL
     THEN PushReturns(t) /\ UNCHANGED it
     ELSE it' = [it EXCEPT ![t] = <<k, gen>>] /\ Goto(t, "push_use") /\ UNCHANGED <<ret, msg>>
  /\ UNCHANGED <<mapVars, confVars, workVars, counts, want, src>>

\* enable, level and fileline are read through the iterator, unlocked.
PushUse(t) ==
  /\ pc[t] = "push_use"
  /\ \E accepted \in BOOLEAN :
       /\ Valid(it[t]) =>
            LET e == keys[it[t][1]]
            IN  accepted = (active /\ e.enable /\ msg[t][2] >= e.level)
       /\ pending' = IF accepted THEN pending \cup {msg[t][1]} ELSE pending
  /\ it' = [it EXCEPT ![t] = NULL]
  /\ PushReturns(t)
  /\ UNCHANGED <<mapVars, confVars, active, ghosts, counts, want, src>>

---------------------------------------------------------------------------
(* The setters (and isff), none of which locks, and setfileLine            *)

\* Slip: a level out of range is taken as it is given.
SettingsOutOfRange ==
  [key : Keys, field : {"level"}, value : (Trace - 1)..(High + 1)]
  \cup [key : Keys, field : {"enable"}, value : BOOLEAN]
  \cup [key : Keys, field : {"other"}, value : {NULL}]

\* The field a setter sets, and the values it may be given.
Settings ==
  [key : Keys, field : {"level"}, value : Levels]
  \cup [key : Keys, field : {"enable"}, value : BOOLEAN]
  \cup [key : Keys, field : {"other"}, value : {NULL}]

\* setlevel, setlimit and setReserve log a warning for a value out of range,
\* and go on with a bound of the range.
CallSetter(t) ==
  /\ Call(t)
  /\ \E s \in Settings :
       /\ want' = [want EXCEPT ![t] = s]
       /\ \/ Goto(t, "find") /\ UNCHANGED <<msg, ret>>
          \/ /\ s.field = "other" \/ (s.field = "level" /\ s.value \in {Trace, High})
             /\ Log(t, Main, High, "find")
  /\ UNCHANGED <<mapVars, confVars, workVars, loads, it, src>>

Find(t) ==
  /\ pc[t] = "find"
  /\ LET k == want[t].key IN
     \/ /\ keys[k] = NULL
        /\ Log(t, Main, High, "idle")
        /\ want' = [want EXCEPT ![t] = NULL]
        /\ UNCHANGED it
     \/ /\ keys[k] # NULL
        /\ it' = [it EXCEPT ![t] = <<k, gen>>]
        /\ Goto(t, "write")
        /\ UNCHANGED <<msg, ret, want>>
  /\ UNCHANGED <<mapVars, confVars, workVars, counts, src>>

\* The entries with the setting s made to the entry of k.
Changed(k, s) ==
  CASE s.field = "level"  -> [keys EXCEPT ![k].level = s.value]
    [] s.field = "enable" -> [keys EXCEPT ![k].enable = s.value]
    [] s.field = "other"  -> keys

\* The entry of k is one that a thread has inserted and not assigned yet.
Entering(k) ==
  \E t \in Threads : (pc[t] = "enter" /\ msg[t][1] = k) \/ (pc[t] = "main_enter" /\ k = Main)

\* The setter returns; setlevel has left its level with the key.
SetterReturns(t) ==
  /\ asked' = IF want[t].field = "level"
              THEN [asked EXCEPT ![want[t].key] =
                      [level |-> want[t].value, gen |-> it[t][2], entering |-> Entering(want[t].key)]]
              ELSE asked
  /\ it' = [it EXCEPT ![t] = NULL]
  /\ want' = [want EXCEPT ![t] = NULL]
  /\ Goto(t, "idle")
  /\ UNCHANGED <<gen, keysMtx, confVars, active, pending, counts, ret, msg, src>>

\* Slip: the value is set by operator[], which enters a key that is gone.
WriteByKey(t) ==
  /\ pc[t] = "write"
  /\ LET s == want[t]
         e == IF keys[s.key] = NULL THEN DefaultEntry ELSE keys[s.key] IN
     keys' = CASE s.field = "level"  -> [keys EXCEPT ![s.key] = [e EXCEPT !.level = s.value]]
               [] s.field = "enable" -> [keys EXCEPT ![s.key] = [e EXCEPT !.enable = s.value]]
               [] s.field = "other"  -> [keys EXCEPT ![s.key] = e]
  /\ UNCHANGED undefined
  /\ SetterReturns(t)

\* Through a dangling iterator, the setting may show in any entry, or in none.
Write(t) ==
  /\ pc[t] = "write"
  /\ IF Valid(it[t])
     THEN keys' = Changed(want[t].key, want[t]) /\ UNCHANGED undefined
     ELSE /\ keys' \in {keys} \cup {Changed(k, want[t]) : k \in {k \in Keys : keys[k] # NULL}}
          /\ undefined' = TRUE
  /\ SetterReturns(t)

\* setfileLine finds and writes under the lock, and logs under it as well.
CallSetFileLine(t) ==
  /\ Call(t)
  /\ \E k \in FileLineKeys :
       want' = [want EXCEPT ![t] = [key |-> k, field |-> "other", value |-> NULL]]
  /\ Goto(t, "fileline")
  /\ UNCHANGED <<mapVars, confVars, workVars, loads, ret, it, msg, src>>

FileLine(t) ==
  /\ pc[t] = "fileline"
  /\ Free
  /\ \/ /\ keys[want[t].key] # NULL
        /\ Goto(t, "idle")
        /\ UNCHANGED <<keysMtx, msg, ret>>
     \/ /\ keys[want[t].key] = NULL
        /\ keysMtx' = t
        /\ Log(t, Main, High, "unlock")
  /\ want' = [want EXCEPT ![t] = NULL]
  /\ UNCHANGED <<keys, gen, confVars, workVars, counts, it, src>>

Unlock(t) ==
  /\ pc[t] = "unlock"
  /\ keysMtx' = NULL
  /\ Goto(t, "idle")
  /\ UNCHANGED <<keys, gen, confVars, workVars, counts, ret, locals>>

---------------------------------------------------------------------------
(* Loading a configuration: config, configFromString, parse                *)

\* A thread that is no reloader calls config and configFromString before
\* start(), while nobody else uses the logger.
CallLoad(t) ==
  /\ Call(t)
  /\ t \in Reloaders \/ (~active /\ \A u \in Apps \ {t} : pc[u] = "idle")
  /\ loads < MaxLoads
  /\ loads' = loads + 1

\* A second config() is refused, as is one whose file cannot be opened.
CallConfig(t) ==
  /\ CallLoad(t)
  /\ path' = TRUE
  /\ \/ /\ path \/ file = Missing
        /\ Goto(t, "main_reset")
        /\ UNCHANGED <<src, ret>>
     \/ /\ ~path /\ file # Missing
        /\ src' = [src EXCEPT ![t] = file]
        /\ ret' = [ret EXCEPT ![t] = "main_ensure"]
        /\ Goto(t, "load")
  /\ UNCHANGED <<mapVars, checksum, file, workVars, it, msg, want>>

CallConfigFromString(t) ==
  /\ CallLoad(t)
  /\ \E c \in Contents : src' = [src EXCEPT ![t] = c]
  /\ Goto(t, "load")
  /\ UNCHANGED <<mapVars, confVars, workVars, ret, it, msg, want>>

\* parse() returns to config, configFromString or update.
LoadReturns(t, label) ==
  /\ Goto(t, label)
  /\ ret' = [ret EXCEPT ![t] = "idle"]
  /\ src' = [src EXCEPT ![t] = NULL]

\* Slip: _checksum is assigned before it is compared.
LoadComparesLate(t) ==
  /\ pc[t] = "load"
  /\ checksum' = Sum[src[t]]
  /\ LoadReturns(t, ret[t])
  /\ UNCHANGED <<mapVars, path, file, workVars, counts, it, msg, want>>

\* An equal sum is taken for an equal text; the new sum is kept even when
\* the text turns out to be empty.
Load(t) ==
  /\ pc[t] = "load"
  /\ LET c == src[t] IN
     /\ checksum' = Sum[c]
     /\ \/ Sum[c] = checksum /\ LoadReturns(t, ret[t])
        \/ /\ Sum[c] # checksum /\ Parsed[c] = NULL
           /\ LoadReturns(t, IF ret[t] = "main_ensure" THEN "main_reset" ELSE ret[t])
        \/ /\ Sum[c] # checksum /\ Parsed[c] # NULL
           /\ Goto(t, "clear")
           /\ UNCHANGED <<ret, src>>
  /\ UNCHANGED <<mapVars, path, file, workVars, counts, it, msg, want>>

\* Slip: each of the two statements locks for itself.
ClearAlone(t) ==
  /\ pc[t] = "clear"
  /\ Free
  /\ keys' = NoEntries
  /\ gen' = gen + 1
  /\ Goto(t, "assign")
  /\ UNCHANGED <<keysMtx, confVars, workVars, counts, ret, locals>>

Clear(t) ==
  /\ pc[t] = "clear"
  /\ Free
  /\ keysMtx' = t
  /\ keys' = NoEntries
  /\ gen' = gen + 1
  /\ Goto(t, "assign")
  /\ UNCHANGED <<confVars, workVars, counts, ret, locals>>

\* The assignment copies one entry after the other.
Copied(t) == \A k \in Keys : Parsed[src[t]][k] # NULL => keys[k] # NULL

Copy(t) ==
  /\ pc[t] = "assign"
  /\ \E k \in Keys :
       /\ keys[k] = NULL /\ Parsed[src[t]][k] # NULL
       /\ keys' = [keys EXCEPT ![k] = Parsed[src[t]][k]]
  /\ UNCHANGED <<gen, keysMtx, confVars, workVars, counts, pc, ret, locals>>

\* Slip: the mutex is not given back.
AssignKeepsLock(t) ==
  /\ pc[t] = "assign"
  /\ Copied(t)
  /\ LoadReturns(t, ret[t])
  /\ UNCHANGED <<mapVars, confVars, workVars, counts, it, msg, want>>

Assign(t) ==
  /\ pc[t] = "assign"
  /\ Copied(t)
  /\ keysMtx' = NULL
  /\ LoadReturns(t, ret[t])
  /\ UNCHANGED <<keys, gen, confVars, workVars, counts, it, msg, want>>

\* config ends by adding "main": if it failed, or if the text has none.  It
\* replaces what setlevel asked for.
EnsureMain(t) ==
  /\ pc[t] \in {"main_ensure", "main_reset"}
  /\ Free
  /\ \/ /\ keys[Main] = NULL
        /\ keys' = [keys EXCEPT ![Main] = BlankEntry]
        /\ keysMtx' = t
        /\ Goto(t, "main_enter")
        /\ UNCHANGED asked
     \/ /\ keys[Main] # NULL /\ pc[t] = "main_reset"
        /\ keys' = [keys EXCEPT ![Main] = MainEntry]
        /\ asked' = [asked EXCEPT ![Main] = NULL]
        /\ Goto(t, "idle")
        /\ UNCHANGED keysMtx
     \/ /\ keys[Main] # NULL /\ pc[t] = "main_ensure"
        /\ Goto(t, "idle")
        /\ UNCHANGED <<keys, keysMtx, asked>>
  /\ UNCHANGED <<gen, confVars, active, pending, undefined, counts, ret, locals>>

EnterMain(t) ==
  /\ pc[t] = "main_enter"
  /\ keys' = [keys EXCEPT ![Main] = MainEntry]
  /\ keysMtx' = NULL
  /\ Goto(t, "idle")
  /\ UNCHANGED <<gen, confVars, workVars, counts, ret, locals>>

---------------------------------------------------------------------------
(* The worker, and what happens around it                                  *)

\* The worker comes up and logs its banner and a line for each enabled key,
\* all to "main"; one push stands for them.
Start ==
  /\ ~active
  /\ Undisturbed
  /\ active' = TRUE
  /\ Log(Worker, Main, High, "loop")
  /\ UNCHANGED <<mapVars, confVars, pending, ghosts, counts, it, want, src>>

\* The worker takes a record and finds its key; more may wait for that key.
HandleFind ==
  /\ pc[Worker] = "loop"
  /\ Free
  /\ \E k \in pending :
       /\ pending' \in {pending, pending \ {k}}
       /\ IF keys[k] = NULL
          THEN UNCHANGED <<it, pc>>
          ELSE it' = [it EXCEPT ![Worker] = <<k, gen>>] /\ Goto(Worker, "handle")
  /\ UNCHANGED <<mapVars, confVars, active, ghosts, counts, ret, msg, want, src>>

\* The entry, its file included, is used through the iterator, unlocked.
Handle ==
  /\ pc[Worker] = "handle"
  /\ undefined' = (undefined \/ ~Valid(it[Worker]))
  /\ it' = [it EXCEPT ![Worker] = NULL]
  /\ Goto(Worker, "loop")
  /\ UNCHANGED <<mapVars, confVars, active, pending, asked, counts, ret, msg, want, src>>

\* The worker reads the file again, if there is one.
Reread ==
  /\ Worker \in Reloaders /\ path /\ gen < MaxClears
  /\ \/ /\ file = Missing
        /\ Log(Worker, Main, High, "loop")
        /\ UNCHANGED src
     \/ /\ file # Missing
        /\ src' = [src EXCEPT ![Worker] = file]
        /\ ret' = [ret EXCEPT ![Worker] = "loop"]
        /\ Goto(Worker, "load")
        /\ UNCHANGED msg
  /\ UNCHANGED <<mapVars, confVars, workVars, counts, it, want>>

\* Slip: the time is looked at for every record.
UpdatePerRecord == pc[Worker] \in {"loop", "handle"} /\ Reread

Update == pc[Worker] = "loop" /\ Reread

\* Somebody edits, removes or restores the configuration file, while there
\* is still one to read it.
EditFile ==
  /\ path => Reloaders # {}
  /\ file' \in (Contents \cup {Missing}) \ {file}
  /\ UNCHANGED <<mapVars, checksum, path, workVars, counts, pc, ret, locals>>

\* No call is under way, and the worker sleeps or is not there.
Rest ==
  /\ \A t \in Apps : pc[t] = "idle"
  /\ pc[Worker] \in {"none", "loop"}
  /\ UNCHANGED vars

PushStep(t) == Prepush(t) \/ PrepushNew(t) \/ Enter(t) \/ PushFind(t) \/ PushUse(t)
LoadStep(t) == Load(t) \/ Clear(t) \/ Copy(t) \/ Assign(t)
AppCall(t) ==
  \/ CallPush(t) \/ CallSetter(t) \/ CallSetFileLine(t)
  \/ CallConfig(t) \/ CallConfigFromString(t)
AppStep(t) ==
  \/ PushStep(t) \/ LoadStep(t) \/ EnsureMain(t) \/ EnterMain(t)
  \/ Find(t) \/ Write(t) \/ FileLine(t) \/ Unlock(t)
WorkerStep ==
  \/ HandleFind \/ Handle \/ Update
  \/ PushStep(Worker) \/ LoadStep(Worker)

Next ==
  \/ \E t \in Apps : AppCall(t) \/ AppStep(t)
  \/ Start \/ WorkerStep
  \/ EditFile
  \/ Rest

Spec == Init /\ [][Next]_vars

(* A thread inside a call, and a worker inside its loop, keep running.     *)
Fairness ==
  /\ \A t \in Apps : WF_vars(AppStep(t))
  /\ WF_vars(WorkerStep)

FairSpec == Spec /\ Fairness
===========================================================================
