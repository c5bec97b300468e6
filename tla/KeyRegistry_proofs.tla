------------------------ MODULE KeyRegistry_proofs ------------------------
(***************************************************************************)
(* Proofs about KeyRegistry, for any threads, keys and texts.  What holds  *)
(* whoever reloads comes first (TypeInv, LoadInv, CopyInv, LevelInv), then *)
(* what holds if only the worker does (ConfigAlone, WorkerIteratorIsGood,  *)
(* SumInForce), then what needs that there is one load at all (MainInv).   *)
(***************************************************************************)
EXTENDS KeyRegistryProps, TLAPS

PushLabels == {"prepush", "enter", "push_find", "push_use"}

\* What a thread at a given place has in its locals.
LocalsOf(t) ==
  /\ pc[t] \in PushLabels => msg[t] \in Keys \X Levels
  /\ pc[t] \in {"find", "write", "fileline"} \/ ret[t] = "find" => want[t] \in Settings
  /\ pc[t] = "push_use" => it[t] \in Keys \X Nat /\ it[t][1] = msg[t][1]
  /\ pc[t] = "write" => it[t] \in Keys \X Nat /\ it[t][1] = want[t].key
  /\ pc[t] = "handle" => it[t] \in Keys \X Nat
  /\ pc[t] \notin {"push_use", "write", "handle"} => it[t] = NULL
  /\ pc[t] \in {"load", "clear", "assign"} => src[t] \in Contents
  /\ pc[t] \in {"clear", "assign"} => Parsed[src[t]] # NULL
  /\ ret[t] \in {"idle", "find", "unlock", "loop", "main_ensure"}
  /\ ret[t] \in {"find", "unlock"} => pc[t] \in PushLabels
  /\ ret[t] = "main_ensure" => pc[t] \in {"load", "clear", "assign"}

Locals ==
  /\ \A t \in Threads : LocalsOf(t)
  /\ ~active => pc[Worker] = "none"

TypeInv == TypeOK /\ Locals

USE RegistryAssumption DEF Trace, Debug, High

(* The constants the steps are built from.                                 *)
LEMMA EntryTypes ==
  /\ BlankEntry \in Entries /\ DefaultEntry \in Entries /\ MainEntry \in Entries
  /\ NULL \notin Entries /\ BlankEntry.fromfile = FALSE
  /\ Levels = 0..2
BY DEF BlankEntry, DefaultEntry, MainEntry, Entries, Levels

(* A setting made to an entry alters the one field of that entry.          *)
LEMMA ChangedEffect ==
  ASSUME TypeOK, NEW k \in Keys, keys[k] # NULL, NEW s \in Settings,
         NEW new, new = Changed(k, s)
  PROVE  /\ new \in [Keys -> Entries \cup {NULL}] /\ new[k] \in Entries
         /\ new = [keys EXCEPT ![k] = new[k]]
         /\ <<keys[k], new[k]>> \in OneSetting
         /\ s.field = "level" => new[k].level = s.value
         /\ s.field # "level" => new[k].level = keys[k].level
<1>1. keys \in [Keys -> Entries \cup {NULL}] /\ keys[k] \in Entries
  BY DEF TypeOK
<1>2. CASE s.field = "level"
  <2>1. s.value \in Levels /\ new = [keys EXCEPT ![k].level = s.value]
    BY <1>2 DEF Settings, Changed
  <2>2. new[k] = [keys[k] EXCEPT !.level = s.value] /\ new = [keys EXCEPT ![k] = new[k]]
    BY <1>1, <2>1
  <2>3. new[k] \in Entries /\ new[k].level = s.value
    BY <1>1, <2>1, <2>2 DEF Entries
  <2>4. new[k].fromfile = keys[k].fromfile /\ new[k].enable = keys[k].enable
    BY <1>1, <2>2 DEF Entries
  <2>5. QED
    BY <1>1, <1>2, <2>2, <2>3, <2>4 DEF OneSetting
<1>3. CASE s.field = "enable"
  <2>1. s.value \in BOOLEAN /\ new = [keys EXCEPT ![k].enable = s.value]
    BY <1>3 DEF Settings, Changed
  <2>2. new[k] = [keys[k] EXCEPT !.enable = s.value] /\ new = [keys EXCEPT ![k] = new[k]]
    BY <1>1, <2>1
  <2>3. new[k] \in Entries
    BY <1>1, <2>1, <2>2 DEF Entries
  <2>4. new[k].fromfile = keys[k].fromfile /\ new[k].level = keys[k].level
    BY <1>1, <2>2 DEF Entries
  <2>5. <<keys[k], new[k]>> \in OneSetting
    BY <1>1, <2>3, <2>4 DEF OneSetting
  <2>6. new \in [Keys -> Entries \cup {NULL}]
    BY <1>1, <2>2, <2>3
  <2>7. QED
    BY <1>3, <2>2, <2>3, <2>4, <2>5, <2>6
<1>4. CASE s.field = "other"
  BY <1>1, <1>4 DEF Changed, OneSetting
<1>5. QED
  BY <1>2, <1>3, <1>4 DEF Settings

(* What a setter does to the entries: it enters and removes none and       *)
(* leaves fromfile alone, and unless its iterator dangles it makes its     *)
(* setting to its entry.                                                   *)
LEMMA WriteEffect ==
  ASSUME TypeInv, NEW t \in Apps, Write(t)
  PROVE  /\ pc[t] = "write" /\ want[t] \in Settings /\ want[t].key \in Keys
         /\ it[t] \in Keys \X Nat /\ it[t][1] = want[t].key
         /\ keys' \in [Keys -> Entries \cup {NULL}]
         /\ \A k \in Keys : keys'[k] = NULL <=> keys[k] = NULL
         /\ \A k \in Keys : keys[k] # NULL => keys'[k].fromfile = keys[k].fromfile
         /\ ~undefined' => /\ Valid(it[t]) /\ keys[want[t].key] # NULL /\ ~undefined
                           /\ keys' = Changed(want[t].key, want[t])
         /\ ~undefined' =>
              /\ keys' = [keys EXCEPT ![want[t].key] = keys'[want[t].key]]
              /\ want[t].field = "level" => keys'[want[t].key].level = want[t].value
              /\ want[t].field # "level" => keys'[want[t].key].level = keys[want[t].key].level
<1>1. pc[t] = "write" /\ t \in Threads
  BY DEF Write, Threads
<1>2. /\ want[t] \in Settings /\ want[t].key \in Keys
      /\ it[t] \in Keys \X Nat /\ it[t][1] = want[t].key
  BY <1>1 DEF TypeInv, Locals, LocalsOf, Settings
<1>3. keys' = keys \/ \E k \in Keys : keys[k] # NULL /\ keys' = Changed(k, want[t])
  BY <1>2 DEF Write, Valid
<1>4. keys \in [Keys -> Entries \cup {NULL}]
  BY DEF TypeInv, TypeOK
<1>5. ASSUME NEW k \in Keys, keys[k] # NULL, keys' = Changed(k, want[t])
      PROVE  /\ keys' \in [Keys -> Entries \cup {NULL}]
             /\ \A j \in Keys : keys'[j] = NULL <=> keys[j] = NULL
             /\ \A j \in Keys : keys[j] # NULL => keys'[j].fromfile = keys[j].fromfile
  <2>1. /\ keys' \in [Keys -> Entries \cup {NULL}] /\ keys'[k] \in Entries
        /\ keys' = [keys EXCEPT ![k] = keys'[k]]
        /\ <<keys[k], keys'[k]>> \in OneSetting
    BY <1>2, <1>5, ChangedEffect DEF TypeInv
  <2>2. keys'[k].fromfile = keys[k].fromfile
    BY <2>1 DEF OneSetting
  <2>3. \A j \in Keys \ {k} : keys'[j] = keys[j]
    BY <1>4, <2>1
  <2>4. QED
    BY <1>5, <2>1, <2>2, <2>3, EntryTypes
<1>6. ~undefined' => /\ Valid(it[t]) /\ keys[want[t].key] # NULL /\ ~undefined
                     /\ keys' = Changed(want[t].key, want[t])
  BY <1>2 DEF Write, Valid
<1>7. ~undefined' =>
        /\ keys' = [keys EXCEPT ![want[t].key] = keys'[want[t].key]]
        /\ want[t].field = "level" => keys'[want[t].key].level = want[t].value
        /\ want[t].field # "level" => keys'[want[t].key].level = keys[want[t].key].level
  <2> DEFINE k == want[t].key
             s == want[t]
  <2> SUFFICES ASSUME ~undefined'
      PROVE  /\ keys' = [keys EXCEPT ![k] = keys'[k]]
             /\ s.field = "level" => keys'[k].level = s.value
             /\ s.field # "level" => keys'[k].level = keys[k].level
    OBVIOUS
  <2>1. TypeOK /\ k \in Keys /\ keys[k] # NULL /\ s \in Settings /\ keys' = Changed(k, s)
    BY <1>2, <1>6 DEF TypeInv
  <2> HIDE DEF k, s
  <2>2. QED
    BY <2>1, ChangedEffect
<1>8. QED
  BY <1>1, <1>2, <1>3, <1>4, <1>5, <1>6, <1>7

(* The types and locals are right before anything runs.                    *)
LEMMA InitTypes == Init => TypeInv
<1> SUFFICES ASSUME Init PROVE TypeInv
  OBVIOUS
<1> USE DEF Init
<1>1. TypeOK
  <2>1. pc \in [Threads -> Labels] /\ ret \in [Threads -> Labels]
    BY DEF Labels
  <2>2. /\ keys \in [Keys -> Entries \cup {NULL}]
        /\ asked \in [Keys -> [level : Levels, gen : Nat, entering : BOOLEAN] \cup {NULL}]
    BY DEF NoEntries
  <2>3. calls \in [Apps -> 0..MaxCalls] /\ loads \in 0..MaxLoads
    OBVIOUS
  <2>4. QED
    BY <2>1, <2>2, <2>3 DEF TypeOK
<1>2. Locals
  BY DEF Locals, LocalsOf, PushLabels, Threads
<1>3. QED
  BY <1>1, <1>2 DEF TypeInv

(* Every step keeps the types.                                             *)
LEMMA NextTypes == TypeInv /\ [Next]_vars => TypeOK'
<1> SUFFICES ASSUME TypeInv, [Next]_vars PROVE TypeOK'
  OBVIOUS
<1> USE EntryTypes DEF TypeInv, TypeOK
<1> USE DEF mapVars, confVars, workVars, ghosts, counts, locals, Goto, Call, Log, PushReturns,
            LoadReturns, Threads, Labels, LoadLabels
<1>1. ASSUME NEW t \in Apps, CallPush(t) PROVE TypeOK'
  BY <1>1 DEF CallPush
<1>2. ASSUME NEW t \in Apps, CallSetter(t) PROVE TypeOK'
  <2>1. /\ want' \in [Threads -> Settings \cup {NULL}] /\ calls' \in [Apps -> 0..MaxCalls]
        /\ pc' \in [Threads -> Labels] /\ ret' \in [Threads -> Labels]
        /\ msg' \in [Threads -> (Keys \X Levels) \cup {NULL}]
    BY <1>2 DEF CallSetter
  <2>2. QED
    BY <1>2, <2>1 DEF CallSetter
<1>3. ASSUME NEW t \in Apps, CallSetFileLine(t) PROVE TypeOK'
  BY <1>3 DEF CallSetFileLine, Settings
<1>4. ASSUME NEW t \in Apps, CallConfig(t) PROVE TypeOK'
  BY <1>4 DEF CallConfig, CallLoad
<1>5. ASSUME NEW t \in Apps, CallConfigFromString(t) PROVE TypeOK'
  BY <1>5 DEF CallConfigFromString, CallLoad
<1>6. ASSUME NEW t \in Threads, Prepush(t) PROVE TypeOK'
  BY <1>6 DEF Prepush
<1>7. ASSUME NEW t \in Threads, PrepushNew(t) PROVE TypeOK'
  BY <1>7 DEF PrepushNew, Locals, LocalsOf, PushLabels
<1>8. ASSUME NEW t \in Threads, Enter(t) PROVE TypeOK'
  BY <1>8 DEF Enter, Locals, LocalsOf, PushLabels
<1>9. ASSUME NEW t \in Threads, PushFind(t) PROVE TypeOK'
  BY <1>9, SMTT(30) DEF PushFind, Locals, LocalsOf, PushLabels
<1>10. ASSUME NEW t \in Threads, PushUse(t) PROVE TypeOK'
  BY <1>10 DEF PushUse, Locals, LocalsOf, PushLabels
<1>11. ASSUME NEW t \in Threads, Load(t) PROVE TypeOK'
  BY <1>11 DEF Load, Locals, LocalsOf
<1>12. ASSUME NEW t \in Threads, Clear(t) PROVE TypeOK'
  BY <1>12 DEF Clear, NoEntries
<1>13. ASSUME NEW t \in Threads, Copy(t) PROVE TypeOK'
  BY <1>13 DEF Copy, Locals, LocalsOf
<1>14. ASSUME NEW t \in Threads, Assign(t) PROVE TypeOK'
  BY <1>14 DEF Assign, Locals, LocalsOf
<1>15. ASSUME NEW t \in Apps, EnsureMain(t) PROVE TypeOK'
  BY <1>15 DEF EnsureMain
<1>16. ASSUME NEW t \in Apps, EnterMain(t) PROVE TypeOK'
  BY <1>16 DEF EnterMain
<1>17. ASSUME NEW t \in Apps, Find(t) PROVE TypeOK'
  BY <1>17, SMTT(30) DEF Find, Locals, LocalsOf, Settings
<1>18. ASSUME NEW t \in Apps, Write(t) PROVE TypeOK'
  <2>1. /\ want[t] \in Settings /\ want[t].key \in Keys /\ it[t] \in Keys \X Nat
        /\ keys' \in [Keys -> Entries \cup {NULL}]
    BY <1>18, WriteEffect
  <2>2. asked' \in [Keys -> [level : Levels, gen : Nat, entering : BOOLEAN] \cup {NULL}]
    <3>1. want[t].field = "level" => want[t].value \in Levels
      BY <2>1 DEF Settings
    <3>2. Entering(want[t].key) \in BOOLEAN
      BY DEF Entering
    <3>3. QED
      BY <1>18, <2>1, <3>1, <3>2 DEF Write, SetterReturns
  <2>3. QED
    BY <1>18, <2>1, <2>2 DEF Write, SetterReturns
<1>19. ASSUME NEW t \in Apps, FileLine(t) PROVE TypeOK'
  BY <1>19 DEF FileLine
<1>20. ASSUME NEW t \in Apps, Unlock(t) PROVE TypeOK'
  BY <1>20 DEF Unlock
<1>21. CASE Start
  BY <1>21 DEF Start
<1>22. CASE HandleFind
  BY <1>22 DEF HandleFind
<1>23. CASE Handle
  BY <1>23 DEF Handle
<1>24. CASE Update
  BY <1>24 DEF Update, Reread
<1>25. CASE EditFile
  BY <1>25 DEF EditFile
<1>26. CASE UNCHANGED vars
  BY <1>26 DEF vars
<1>27. QED
  BY <1>1, <1>2, <1>3, <1>4, <1>5, <1>6, <1>7, <1>8, <1>9, <1>10, <1>11, <1>12, <1>13,
     <1>14, <1>15, <1>16, <1>17, <1>18, <1>19, <1>20, <1>21, <1>22, <1>23, <1>24, <1>25,
     <1>26
     DEF Next, AppCall, AppStep, PushStep, LoadStep, WorkerStep, Rest

(* Every step leaves the thread with the locals that its place needs.      *)
LEMMA NextLocals == TypeInv /\ [Next]_vars => Locals'
<1> SUFFICES ASSUME TypeInv, [Next]_vars PROVE Locals'
  OBVIOUS
<1> USE EntryTypes DEF TypeInv, TypeOK, Locals, LocalsOf, PushLabels, LoadLabels
<1> USE DEF mapVars, confVars, workVars, ghosts, counts, locals, Goto, Call, Log, PushReturns,
            LoadReturns, Threads
<1>1. ASSUME NEW t \in Apps, CallPush(t) PROVE Locals'
  BY <1>1 DEF CallPush
<1>2. ASSUME NEW t \in Apps, CallSetter(t) PROVE Locals'
  BY <1>2 DEF CallSetter, Settings
<1>3. ASSUME NEW t \in Apps, CallSetFileLine(t) PROVE Locals'
  BY <1>3 DEF CallSetFileLine, Settings
<1>4. ASSUME NEW t \in Apps, CallConfig(t) PROVE Locals'
  BY <1>4 DEF CallConfig, CallLoad
<1>5. ASSUME NEW t \in Apps, CallConfigFromString(t) PROVE Locals'
  BY <1>5 DEF CallConfigFromString, CallLoad
<1>6. ASSUME NEW t \in Threads, Prepush(t) PROVE Locals'
  BY <1>6 DEF Prepush
<1>7. ASSUME NEW t \in Threads, PrepushNew(t) PROVE Locals'
  BY <1>7 DEF PrepushNew
<1>8. ASSUME NEW t \in Threads, Enter(t) PROVE Locals'
  BY <1>8 DEF Enter
<1>9. ASSUME NEW t \in Threads, PushFind(t) PROVE Locals'
  BY <1>9 DEF PushFind
<1>10. ASSUME NEW t \in Threads, PushUse(t) PROVE Locals'
  BY <1>10 DEF PushUse
<1>11. ASSUME NEW t \in Threads, Load(t) PROVE Locals'
  BY <1>11 DEF Load
<1>12. ASSUME NEW t \in Threads, Clear(t) PROVE Locals'
  BY <1>12 DEF Clear
<1>13. ASSUME NEW t \in Threads, Copy(t) PROVE Locals'
  BY <1>13 DEF Copy
<1>14. ASSUME NEW t \in Threads, Assign(t) PROVE Locals'
  BY <1>14 DEF Assign
<1>15. ASSUME NEW t \in Apps, EnsureMain(t) PROVE Locals'
  BY <1>15 DEF EnsureMain
<1>16. ASSUME NEW t \in Apps, EnterMain(t) PROVE Locals'
  BY <1>16 DEF EnterMain
<1>17. ASSUME NEW t \in Apps, Find(t) PROVE Locals'
  BY <1>17 DEF Find, Settings
<1>18. ASSUME NEW t \in Apps, Write(t) PROVE Locals'
  BY <1>18 DEF Write, SetterReturns
<1>19. ASSUME NEW t \in Apps, FileLine(t) PROVE Locals'
  BY <1>19 DEF FileLine
<1>20. ASSUME NEW t \in Apps, Unlock(t) PROVE Locals'
  BY <1>20 DEF Unlock
<1>21. CASE Start
  BY <1>21 DEF Start
<1>22. CASE HandleFind
  BY <1>22 DEF HandleFind
<1>23. CASE Handle
  BY <1>23 DEF Handle
<1>24. CASE Update
  BY <1>24 DEF Update, Reread
<1>25. CASE EditFile
  BY <1>25 DEF EditFile
<1>26. CASE UNCHANGED vars
  BY <1>26 DEF vars
<1>27. QED
  BY <1>1, <1>2, <1>3, <1>4, <1>5, <1>6, <1>7, <1>8, <1>9, <1>10, <1>11, <1>12, <1>13,
     <1>14, <1>15, <1>16, <1>17, <1>18, <1>19, <1>20, <1>21, <1>22, <1>23, <1>24, <1>25,
     <1>26
     DEF Next, AppCall, AppStep, PushStep, LoadStep, WorkerStep, Rest

(* Both parts of TypeInv.                                                  *)
LEMMA NextTypeInv == TypeInv /\ [Next]_vars => TypeInv'
BY NextTypes, NextLocals DEF TypeInv

(* Every variable of the registry, and every local of a thread, keeps its  *)
(* type, for any number of threads, whoever loads configurations.          *)
THEOREM TypeCorrect == Spec => []TypeOK
<1>1. TypeInv => TypeOK
  BY DEF TypeInv
<1>2. QED
  BY <1>1, InitTypes, NextTypeInv, PTL DEF Spec

---------------------------------------------------------------------------
(* The lock around clear() and the assignment                              *)

Held == {"assign", "enter", "main_enter", "unlock"}

HoldsMutex ==
  \A t \in Threads :
    /\ pc[t] \in Held \/ ret[t] = "unlock" => keysMtx = t
    /\ ~(pc[t] = "enter" /\ ret[t] = "unlock")

LoadedKeys ==
  gen > 0 /\ (\A t \in Threads : pc[t] # "assign") => \A k \in InAll : keys[k] # NULL

LoadInv == HoldsMutex /\ LoadedKeys

(* Nobody holds the lock, and nothing is loaded.                           *)
LEMMA InitLoad == Init => LoadInv
BY DEF Init, LoadInv, HoldsMutex, LoadedKeys, Held

(* _keys_mtx is given back only by the thread that holds it.               *)
LEMMA NextHolds == TypeInv /\ HoldsMutex /\ [Next]_vars => HoldsMutex'
<1> SUFFICES ASSUME TypeInv, HoldsMutex, [Next]_vars PROVE HoldsMutex'
  OBVIOUS
<1> USE DEF TypeInv, TypeOK, Locals, LocalsOf, HoldsMutex, Held, PushLabels, LoadLabels
<1> USE DEF mapVars, confVars, workVars, ghosts, counts, locals, Goto, Call, Log, PushReturns,
            LoadReturns, Threads, Free
<1>1. ASSUME NEW t \in Apps, CallPush(t) PROVE HoldsMutex'
  BY <1>1 DEF CallPush
<1>2. ASSUME NEW t \in Apps, CallSetter(t) PROVE HoldsMutex'
  BY <1>2 DEF CallSetter
<1>3. ASSUME NEW t \in Apps, CallSetFileLine(t) PROVE HoldsMutex'
  BY <1>3 DEF CallSetFileLine
<1>4. ASSUME NEW t \in Apps, CallConfig(t) PROVE HoldsMutex'
  BY <1>4 DEF CallConfig, CallLoad
<1>5. ASSUME NEW t \in Apps, CallConfigFromString(t) PROVE HoldsMutex'
  BY <1>5 DEF CallConfigFromString, CallLoad
<1>6. ASSUME NEW t \in Threads, Prepush(t) PROVE HoldsMutex'
  BY <1>6 DEF Prepush
<1>7. ASSUME NEW t \in Threads, PrepushNew(t) PROVE HoldsMutex'
  BY <1>7 DEF PrepushNew
<1>8. ASSUME NEW t \in Threads, Enter(t) PROVE HoldsMutex'
  BY <1>8 DEF Enter
<1>9. ASSUME NEW t \in Threads, PushFind(t) PROVE HoldsMutex'
  BY <1>9 DEF PushFind
<1>10. ASSUME NEW t \in Threads, PushUse(t) PROVE HoldsMutex'
  BY <1>10 DEF PushUse
<1>11. ASSUME NEW t \in Threads, Load(t) PROVE HoldsMutex'
  BY <1>11 DEF Load
<1>12. ASSUME NEW t \in Threads, Clear(t) PROVE HoldsMutex'
  BY <1>12 DEF Clear
<1>13. ASSUME NEW t \in Threads, Copy(t) PROVE HoldsMutex'
  BY <1>13 DEF Copy
<1>14. ASSUME NEW t \in Threads, Assign(t) PROVE HoldsMutex'
  BY <1>14 DEF Assign
<1>15. ASSUME NEW t \in Apps, EnsureMain(t) PROVE HoldsMutex'
  BY <1>15 DEF EnsureMain
<1>16. ASSUME NEW t \in Apps, EnterMain(t) PROVE HoldsMutex'
  BY <1>16 DEF EnterMain
<1>17. ASSUME NEW t \in Apps, Find(t) PROVE HoldsMutex'
  BY <1>17 DEF Find
<1>18. ASSUME NEW t \in Apps, Write(t) PROVE HoldsMutex'
  BY <1>18 DEF Write, SetterReturns
<1>19. ASSUME NEW t \in Apps, FileLine(t) PROVE HoldsMutex'
  BY <1>19 DEF FileLine
<1>20. ASSUME NEW t \in Apps, Unlock(t) PROVE HoldsMutex'
  BY <1>20 DEF Unlock
<1>21. CASE Start
  BY <1>21 DEF Start
<1>22. CASE HandleFind
  BY <1>22 DEF HandleFind
<1>23. CASE Handle
  BY <1>23 DEF Handle
<1>24. CASE Update
  BY <1>24 DEF Update, Reread
<1>25. CASE EditFile
  BY <1>25 DEF EditFile
<1>26. CASE UNCHANGED vars
  BY <1>26 DEF vars
<1>27. QED
  BY <1>1, <1>2, <1>3, <1>4, <1>5, <1>6, <1>7, <1>8, <1>9, <1>10, <1>11, <1>12, <1>13,
     <1>14, <1>15, <1>16, <1>17, <1>18, <1>19, <1>20, <1>21, <1>22, <1>23, <1>24, <1>25,
     <1>26
     DEF Next, AppCall, AppStep, PushStep, LoadStep, WorkerStep, Rest

(* Only a load removes keys, and it brings those of all configurations.    *)
LEMMA NextLoaded == TypeInv /\ LoadInv /\ [Next]_vars => LoadedKeys'
<1> SUFFICES ASSUME TypeInv, LoadInv, [Next]_vars PROVE LoadedKeys'
  OBVIOUS
<1> USE EntryTypes DEF TypeInv, TypeOK, Locals, LocalsOf, LoadInv, HoldsMutex, LoadedKeys, InAll,
            Held, PushLabels, LoadLabels
<1> USE DEF mapVars, confVars, workVars, ghosts, counts, locals, Goto, Call, Log, PushReturns,
            LoadReturns, Threads, Free
<1>1. ASSUME NEW t \in Apps, CallPush(t) PROVE LoadedKeys'
  BY <1>1 DEF CallPush
<1>2. ASSUME NEW t \in Apps, CallSetter(t) PROVE LoadedKeys'
  BY <1>2 DEF CallSetter
<1>3. ASSUME NEW t \in Apps, CallSetFileLine(t) PROVE LoadedKeys'
  BY <1>3 DEF CallSetFileLine
<1>4. ASSUME NEW t \in Apps, CallConfig(t) PROVE LoadedKeys'
  BY <1>4 DEF CallConfig, CallLoad
<1>5. ASSUME NEW t \in Apps, CallConfigFromString(t) PROVE LoadedKeys'
  BY <1>5 DEF CallConfigFromString, CallLoad
<1>6. ASSUME NEW t \in Threads, Prepush(t) PROVE LoadedKeys'
  BY <1>6 DEF Prepush
<1>7. ASSUME NEW t \in Threads, PrepushNew(t) PROVE LoadedKeys'
  BY <1>7 DEF PrepushNew
<1>8. ASSUME NEW t \in Threads, Enter(t) PROVE LoadedKeys'
  BY <1>8 DEF Enter
<1>9. ASSUME NEW t \in Threads, PushFind(t) PROVE LoadedKeys'
  BY <1>9 DEF PushFind
<1>10. ASSUME NEW t \in Threads, PushUse(t) PROVE LoadedKeys'
  BY <1>10 DEF PushUse
<1>11. ASSUME NEW t \in Threads, Load(t) PROVE LoadedKeys'
  BY <1>11 DEF Load
<1>12. ASSUME NEW t \in Threads, Clear(t) PROVE LoadedKeys'
  BY <1>12 DEF Clear
<1>13. ASSUME NEW t \in Threads, Copy(t) PROVE LoadedKeys'
  BY <1>13 DEF Copy
<1>14. ASSUME NEW t \in Threads, Assign(t) PROVE LoadedKeys'
  BY <1>14 DEF Assign, Copied
<1>15. ASSUME NEW t \in Apps, EnsureMain(t) PROVE LoadedKeys'
  BY <1>15 DEF EnsureMain
<1>16. ASSUME NEW t \in Apps, EnterMain(t) PROVE LoadedKeys'
  BY <1>16 DEF EnterMain
<1>17. ASSUME NEW t \in Apps, Find(t) PROVE LoadedKeys'
  BY <1>17 DEF Find
<1>18. ASSUME NEW t \in Apps, Write(t) PROVE LoadedKeys'
  <2>1. \A k \in Keys : keys'[k] = NULL <=> keys[k] = NULL
    BY <1>18, WriteEffect

  <2>2. QED
    BY <1>18, <2>1 DEF Write, SetterReturns
<1>19. ASSUME NEW t \in Apps, FileLine(t) PROVE LoadedKeys'
  BY <1>19 DEF FileLine
<1>20. ASSUME NEW t \in Apps, Unlock(t) PROVE LoadedKeys'
  BY <1>20 DEF Unlock
<1>21. CASE Start
  BY <1>21 DEF Start
<1>22. CASE HandleFind
  BY <1>22 DEF HandleFind
<1>23. CASE Handle
  BY <1>23 DEF Handle
<1>24. CASE Update
  BY <1>24 DEF Update, Reread
<1>25. CASE EditFile
  BY <1>25 DEF EditFile
<1>26. CASE UNCHANGED vars
  BY <1>26 DEF vars
<1>27. QED
  BY <1>1, <1>2, <1>3, <1>4, <1>5, <1>6, <1>7, <1>8, <1>9, <1>10, <1>11, <1>12, <1>13,
     <1>14, <1>15, <1>16, <1>17, <1>18, <1>19, <1>20, <1>21, <1>22, <1>23, <1>24, <1>25,
     <1>26
     DEF Next, AppCall, AppStep, PushStep, LoadStep, WorkerStep, Rest

(* Both parts of LoadInv.                                                  *)
LEMMA NextLoad == TypeInv /\ LoadInv /\ [Next]_vars => LoadInv'
BY NextHolds, NextLoaded DEF LoadInv

(* While _keys_mtx is free no load is between clear() and the assignment.  *)
LEMMA LoadInvWhole == TypeInv /\ LoadInv => NeverHalfLoaded
BY DEF LoadInv, HoldsMutex, LoadedKeys, NeverHalfLoaded, Held, Free, Threads

(* Whoever takes _keys_mtx finds every key that all configurations name,   *)
(* however many threads load configurations at the same time.              *)
THEOREM MapIsNeverHalfLoaded == Spec => []NeverHalfLoaded
<1>1. Spec => []TypeInv
  BY InitTypes, NextTypeInv, PTL DEF Spec
<1>2. QED
  BY <1>1, InitLoad, NextLoad, LoadInvWhole, PTL DEF Spec

---------------------------------------------------------------------------
(* One map, whoever reloads                                                *)

(* The strengthening of ImplementsMap: the map that is being copied has no *)
(* entries but those of the text.                                          *)
CopyInv ==
  \A t \in Threads :
    pc[t] = "assign" => \A k \in Keys : keys[k] # NULL => Parsed[src[t]][k] # NULL

(* Nothing is copied at first.                                             *)
LEMMA InitCopy == Init => CopyInv
BY DEF Init, CopyInv, Threads

(* Nobody enters a key while the map is copied, since that needs the lock. *)
LEMMA NextCopy ==
  ASSUME TypeInv, HoldsMutex, CopyInv, [Next]_vars PROVE CopyInv'
<1> USE DEF TypeInv, TypeOK, Locals, LocalsOf, HoldsMutex, CopyInv, Held, PushLabels, LoadLabels
<1> USE DEF mapVars, confVars, workVars, ghosts, counts, locals, Goto, Call, Log, PushReturns,
            LoadReturns, Threads, Free
<1>1. ASSUME NEW t \in Apps, CallPush(t) PROVE CopyInv'
  BY <1>1 DEF CallPush
<1>2. ASSUME NEW t \in Apps, CallSetter(t) PROVE CopyInv'
  BY <1>2 DEF CallSetter
<1>3. ASSUME NEW t \in Apps, CallSetFileLine(t) PROVE CopyInv'
  BY <1>3 DEF CallSetFileLine
<1>4. ASSUME NEW t \in Apps, CallConfig(t) PROVE CopyInv'
  BY <1>4 DEF CallConfig, CallLoad
<1>5. ASSUME NEW t \in Apps, CallConfigFromString(t) PROVE CopyInv'
  BY <1>5 DEF CallConfigFromString, CallLoad
<1>6. ASSUME NEW t \in Threads, Prepush(t) PROVE CopyInv'
  BY <1>6 DEF Prepush
<1>7. ASSUME NEW t \in Threads, PrepushNew(t) PROVE CopyInv'
  BY <1>7 DEF PrepushNew
<1>8. ASSUME NEW t \in Threads, Enter(t) PROVE CopyInv'
  BY <1>8 DEF Enter
<1>9. ASSUME NEW t \in Threads, PushFind(t) PROVE CopyInv'
  BY <1>9 DEF PushFind
<1>10. ASSUME NEW t \in Threads, PushUse(t) PROVE CopyInv'
  BY <1>10 DEF PushUse
<1>11. ASSUME NEW t \in Threads, Load(t) PROVE CopyInv'
  BY <1>11 DEF Load
<1>12. ASSUME NEW t \in Threads, Clear(t) PROVE CopyInv'
  BY <1>12 DEF Clear, NoEntries
<1>13. ASSUME NEW t \in Threads, Copy(t) PROVE CopyInv'
  BY <1>13 DEF Copy
<1>14. ASSUME NEW t \in Threads, Assign(t) PROVE CopyInv'
  BY <1>14 DEF Assign
<1>15. ASSUME NEW t \in Apps, EnsureMain(t) PROVE CopyInv'
  BY <1>15 DEF EnsureMain
<1>16. ASSUME NEW t \in Apps, EnterMain(t) PROVE CopyInv'
  BY <1>16 DEF EnterMain
<1>17. ASSUME NEW t \in Apps, Find(t) PROVE CopyInv'
  BY <1>17 DEF Find
<1>18. ASSUME NEW t \in Apps, Write(t) PROVE CopyInv'
  <2>1. \A k \in Keys : keys'[k] = NULL <=> keys[k] = NULL
    BY <1>18, WriteEffect

  <2>2. QED
    BY <1>18, <2>1 DEF Write, SetterReturns
<1>19. ASSUME NEW t \in Apps, FileLine(t) PROVE CopyInv'
  BY <1>19 DEF FileLine
<1>20. ASSUME NEW t \in Apps, Unlock(t) PROVE CopyInv'
  BY <1>20 DEF Unlock
<1>21. CASE Start
  BY <1>21 DEF Start
<1>22. CASE HandleFind
  BY <1>22 DEF HandleFind
<1>23. CASE Handle
  BY <1>23 DEF Handle
<1>24. CASE Update
  BY <1>24 DEF Update, Reread
<1>25. CASE EditFile
  BY <1>25 DEF EditFile
<1>26. CASE UNCHANGED vars
  BY <1>26 DEF vars
<1>27. QED
  BY <1>1, <1>2, <1>3, <1>4, <1>5, <1>6, <1>7, <1>8, <1>9, <1>10, <1>11, <1>12, <1>13,
     <1>14, <1>15, <1>16, <1>17, <1>18, <1>19, <1>20, <1>21, <1>22, <1>23, <1>24, <1>25,
     <1>26
     DEF Next, AppCall, AppStep, PushStep, LoadStep, WorkerStep, Rest

\* The steps of KeyMap under the mapping.
MapStep ==
  \/ \E c \in Contents : Parsed[c] # NULL /\ Settled' = Parsed[c]
  \/ \E k \in Keys : Settled[k] = NULL /\ Settled' = [Settled EXCEPT ![k] = DefaultEntry]
  \/ Settled' = [Settled EXCEPT ![Main] = MainEntry]
  \/ \E k \in Keys : /\ <<Settled[k], Settled'[k]>> \in OneSetting
                     /\ Settled' = [Settled EXCEPT ![k] = Settled'[k]]
  \/ UNCHANGED Settled

MapMoves == (MapStep /\ UNCHANGED undefined) \/ undefined' = TRUE

(* They are steps of KeyMap or stutter.                                    *)
LEMMA MapMovesIs == MapMoves => [Registry!Next]_<<Settled, undefined>>
BY DEF MapMoves, MapStep, Registry!Next, Registry!Replace, Registry!Enter, Registry!EnterMain,
       Registry!Set, Registry!Break

\* Where an entry of the map does not count as it is.
Mid == {"assign", "enter", "main_enter"}

SettledIs ==
  /\ (\A t \in Threads : pc[t] \notin Mid) => Settled = keys
  /\ \A t \in Threads : pc[t] \in Mid => ~Free /\ \A u \in Threads : pc[u] \in Mid => u = t
  /\ \A t \in Threads : pc[t] = "assign" => Settled = CopiedMap(t)
  /\ \A t \in Threads : pc[t] = "enter" => Settled = EnteredMap(t)
  /\ \A t \in Threads : pc[t] = "main_enter" => Settled = MainMap

(* There is only one holder of the lock, so Settled is what it is about.   *)
LEMMA SettledHere == HoldsMutex => SettledIs
<1> SUFFICES ASSUME HoldsMutex PROVE SettledIs
  OBVIOUS
<1>1. ASSUME NEW t \in Threads, pc[t] \in Mid
      PROVE  ~Free /\ \A u \in Threads : pc[u] \in Mid => u = t
  BY <1>1 DEF HoldsMutex, Held, Mid, Free, Threads
<1>2. ASSUME \A t \in Threads : pc[t] \notin Mid PROVE Settled = keys
  BY <1>2 DEF Settled, At, Mid
<1>3. ASSUME NEW t \in Threads, pc[t] = "assign" PROVE Settled = CopiedMap(t)
  <2>1. At("assign") = {t}
    BY <1>1, <1>3 DEF At, Mid
  <2>2. The("assign") = t
    BY <2>1 DEF The
  <2>3. QED
    BY <2>1, <2>2 DEF Settled
<1>4. ASSUME NEW t \in Threads, pc[t] = "enter" PROVE Settled = EnteredMap(t)
  <2>1. At("assign") = {} /\ At("enter") = {t}
    BY <1>1, <1>4 DEF At, Mid
  <2>2. The("enter") = t
    BY <2>1 DEF The
  <2>3. QED
    BY <2>1, <2>2 DEF Settled
<1>5. ASSUME NEW t \in Threads, pc[t] = "main_enter" PROVE Settled = MainMap
  <2>1. At("assign") = {} /\ At("enter") = {} /\ At("main_enter") # {}
    BY <1>1, <1>5 DEF At, Mid
  <2>2. QED
    BY <2>1 DEF Settled
<1>6. QED
  BY <1>1, <1>2, <1>3, <1>4, <1>5 DEF SettledIs

(* The same of the state after a step.                                     *)
LEMMA SettledThere == HoldsMutex' => SettledIs'
BY SettledHere, PTL

\* A step that leaves alone the entries and what is to become of them.
Calm ==
  /\ UNCHANGED <<keys, undefined>>
  /\ \A t \in Threads :
       /\ pc'[t] \in Mid \/ pc[t] \in Mid => pc'[t] = pc[t]
       /\ pc[t] = "assign" => src'[t] = src[t]
       /\ pc[t] = "enter" => msg'[t] = msg[t]

(* It leaves the map alone, too.                                           *)
LEMMA CalmMaps == ASSUME HoldsMutex, HoldsMutex', Calm PROVE MapMoves
<1>1. SettledIs /\ SettledIs'
  BY SettledHere, SettledThere
<1>2. CASE \A t \in Threads : pc[t] \notin Mid
  BY <1>1, <1>2 DEF Calm, SettledIs, MapMoves, MapStep
<1>3. ASSUME NEW t \in Threads, pc[t] \in Mid PROVE UNCHANGED Settled
  BY <1>1, <1>3 DEF Calm, SettledIs, Mid, CopiedMap, EnteredMap, MainMap
<1>4. QED
  BY <1>2, <1>3 DEF Calm, MapMoves, MapStep

(* What a setter does to the map: it alters an entry or nothing, also of a *)
(* map that is half copied, or it breaks the map.                          *)
LEMMA WriteMaps ==
  ASSUME TypeInv, HoldsMutex, HoldsMutex', NEW t \in Apps, Write(t)
  PROVE  MapMoves
<1> DEFINE k == want[t].key
<1>1. SUFFICES ASSUME ~undefined' PROVE MapStep /\ UNCHANGED undefined
  BY WriteEffect DEF MapMoves, Write
<1>2. /\ k \in Keys /\ keys[k] # NULL /\ want[t] \in Settings /\ ~undefined
      /\ keys' = Changed(k, want[t])
  BY <1>1, WriteEffect
<1>3. UNCHANGED undefined
  BY <1>1, <1>2 DEF Write
<1>4. /\ keys \in [Keys -> Entries \cup {NULL}]
      /\ keys' \in [Keys -> Entries \cup {NULL}] /\ keys'[k] \in Entries
      /\ keys' = [keys EXCEPT ![k] = keys'[k]]
      /\ <<keys[k], keys'[k]>> \in OneSetting
  <2>1. TypeOK
    BY DEF TypeInv
  <2>2. /\ keys' \in [Keys -> Entries \cup {NULL}] /\ keys'[k] \in Entries
        /\ keys' = [keys EXCEPT ![k] = keys'[k]]
        /\ <<keys[k], keys'[k]>> \in OneSetting
    BY <1>2, <2>1, ChangedEffect
  <2>3. QED
    BY <2>1, <2>2 DEF TypeOK
<1>5. /\ pc[t] = "write" /\ t \in Threads /\ pc' = [pc EXCEPT ![t] = "idle"]
      /\ src' = src /\ msg' = msg /\ pc \in [Threads -> Labels]
  BY DEF Write, SetterReturns, Goto, Threads, TypeInv, TypeOK
<1>6. SettledIs /\ SettledIs'
  BY SettledHere, SettledThere
<1>7. CASE \A u \in Threads : pc[u] \notin Mid
  <2>1. Settled = keys /\ Settled' = keys'
    BY <1>5, <1>6, <1>7 DEF SettledIs, Mid
  <2>2. QED
    BY <1>2, <1>3, <1>4, <2>1 DEF MapStep
<1>8. ASSUME NEW u \in Threads, pc[u] \in Mid PROVE MapStep
  <2>1. pc'[u] = pc[u]
    BY <1>5, <1>8 DEF Mid
  <2>2. CASE pc[u] = "assign"
    <3>1. Settled = CopiedMap(u) /\ Settled' = CopiedMap(u)'
      BY <1>6, <2>1, <2>2 DEF SettledIs
    <3>2. Settled[k] = keys[k] /\ Settled'[k] = keys'[k]
      BY <1>2, <1>4, <3>1, EntryTypes DEF CopiedMap
    <3>3. Settled' = [Settled EXCEPT ![k] = keys'[k]]
      BY <1>2, <1>4, <1>5, <3>1, EntryTypes DEF CopiedMap
    <3>4. QED
      BY <1>2, <1>4, <3>2, <3>3 DEF MapStep
  <2>3. CASE pc[u] = "enter"
    <3>1. Settled = EnteredMap(u) /\ Settled' = EnteredMap(u)'
      BY <1>6, <2>1, <2>3 DEF SettledIs
    <3>2. CASE k = msg[u][1]
      <4>1. [keys' EXCEPT ![k] = DefaultEntry] = [keys EXCEPT ![k] = DefaultEntry]
        BY <1>2, <1>4
      <4>2. Settled' = Settled
        BY <1>5, <3>1, <3>2, <4>1 DEF EnteredMap
      <4>3. QED
        BY <4>2 DEF MapStep
    <3>3. CASE k # msg[u][1]
      <4>1. Settled[k] = keys[k] /\ Settled'[k] = keys'[k]
        BY <1>2, <1>4, <1>5, <3>1, <3>3 DEF EnteredMap
      <4>2. Settled' = [Settled EXCEPT ![k] = keys'[k]]
        BY <1>2, <1>4, <1>5, <3>1, <3>3 DEF EnteredMap
      <4>3. QED
        BY <1>2, <1>4, <4>1, <4>2 DEF MapStep
    <3>4. QED
      BY <3>2, <3>3
  <2>4. CASE pc[u] = "main_enter"
    <3>1. Settled = MainMap /\ Settled' = MainMap'
      BY <1>6, <2>1, <2>4 DEF SettledIs
    <3>2. CASE k = Main
      <4>1. Settled' = Settled
        BY <1>4, <3>1, <3>2 DEF MainMap
      <4>2. QED
        BY <4>1 DEF MapStep
    <3>3. CASE k # Main
      <4>1. Settled[k] = keys[k] /\ Settled'[k] = keys'[k]
        BY <1>2, <1>4, <3>1, <3>3 DEF MainMap
      <4>2. Settled' = [Settled EXCEPT ![k] = keys'[k]]
        BY <1>2, <1>4, <3>1, <3>3 DEF MainMap
      <4>3. QED
        BY <1>2, <1>4, <4>1, <4>2 DEF MapStep
    <3>4. QED
      BY <3>2, <3>3
  <2>5. QED
    BY <1>8, <2>2, <2>3, <2>4 DEF Mid
<1>9. QED
  BY <1>3, <1>7, <1>8

(* Every step is one of KeyMap: the clear() of a load is where it takes    *)
(* effect, and inserting an entry is where it is entered; copying and      *)
(* assigning then change nothing.                                          *)
LEMMA NextMaps ==
  ASSUME TypeInv, HoldsMutex, HoldsMutex', CopyInv, [Next]_vars
  PROVE  MapMoves
<1> USE DEF mapVars, confVars, workVars, ghosts, counts, locals, Goto, Call, Log, PushReturns,
            LoadReturns, Threads
<1>0. /\ pc \in [Threads -> Labels] /\ src \in [Threads -> Contents \cup {NULL}]
      /\ keys \in [Keys -> Entries \cup {NULL}] /\ msg \in [Threads -> (Keys \X Levels) \cup {NULL}]
      /\ \A t \in Threads : ret[t] \in {"idle", "find", "unlock", "loop", "main_ensure"}
      /\ ~active => pc[Worker] = "none"
  BY DEF TypeInv, TypeOK, Locals, LocalsOf
<1>00. SettledIs /\ SettledIs'
  BY SettledHere, SettledThere
<1>1. ASSUME NEW t \in Apps, AppCall(t) PROVE Calm
  BY <1>0, <1>1 DEF AppCall, CallPush, CallSetter, CallSetFileLine, CallConfig,
                    CallConfigFromString, CallLoad, Calm, Mid
<1>2. ASSUME NEW t \in Threads, Prepush(t) \/ PushFind(t) \/ PushUse(t) PROVE Calm
  BY <1>0, <1>2 DEF Prepush, PushFind, PushUse, Calm, Mid
<1>3. ASSUME NEW t \in Threads, Load(t) PROVE Calm
  BY <1>0, <1>3 DEF Load, Calm, Mid
<1>4. ASSUME NEW t \in Apps, Find(t) \/ FileLine(t) \/ Unlock(t) PROVE Calm
  BY <1>0, <1>4 DEF Find, FileLine, Unlock, Calm, Mid
<1>5. CASE Start \/ HandleFind \/ Update \/ EditFile \/ UNCHANGED vars
  <2>1. Calm
    BY <1>0, <1>5 DEF Start, HandleFind, Update, Reread, EditFile, vars, Calm, Mid
  <2>2. QED
    BY <2>1, CalmMaps
<1>6. CASE Handle
  <2>1. undefined \in BOOLEAN /\ undefined' = (undefined \/ ~Valid(it[Worker]))
    BY <1>6 DEF Handle, TypeInv, TypeOK
  <2>2. ASSUME ~undefined' PROVE Calm
    BY <1>0, <1>6, <2>1, <2>2 DEF Handle, Calm, Mid
  <2>3. QED
    BY <2>1, <2>2, CalmMaps DEF MapMoves
<1>7. ASSUME NEW t \in Threads, PrepushNew(t) PROVE MapMoves
  <2> DEFINE k == msg[t][1]
  <2>1. /\ k \in Keys /\ Free /\ keys[k] = NULL /\ pc'[t] = "enter" /\ UNCHANGED <<msg, undefined>>
        /\ keys' = [keys EXCEPT ![k] = BlankEntry]
    BY <1>0, <1>7 DEF PrepushNew, TypeInv, Locals, LocalsOf, PushLabels
  <2>2. Settled = keys /\ Settled' = EnteredMap(t)'
    BY <1>00, <2>1 DEF SettledIs
  <2>3. Settled' = [Settled EXCEPT ![k] = DefaultEntry]
    BY <1>0, <2>1, <2>2 DEF EnteredMap
  <2>4. QED
    BY <2>1, <2>2, <2>3 DEF MapMoves, MapStep
<1>8. ASSUME NEW t \in Threads, Enter(t) PROVE MapMoves
  <2>1. /\ pc[t] = "enter" /\ keys' = EnteredMap(t) /\ UNCHANGED undefined
        /\ pc' = [pc EXCEPT ![t] = "push_find"]
    BY <1>8 DEF Enter, EnteredMap
  <2>2. Settled = keys' /\ \A u \in Threads : pc'[u] \notin Mid
    BY <1>0, <1>00, <2>1 DEF SettledIs, Mid
  <2>3. QED
    BY <1>00, <2>1, <2>2 DEF SettledIs, MapMoves, MapStep
<1>9. ASSUME NEW t \in Threads, Clear(t) PROVE MapMoves
  <2>1. /\ pc'[t] = "assign" /\ UNCHANGED <<src, undefined>> /\ keys' = NoEntries
        /\ src[t] \in Contents /\ Parsed[src[t]] # NULL
    BY <1>0, <1>9 DEF Clear, TypeInv, Locals, LocalsOf
  <2>2. Settled' = CopiedMap(t)'
    BY <1>00, <2>1 DEF SettledIs
  <2>3. Settled' = Parsed[src[t]]
    BY <2>1, <2>2 DEF CopiedMap, NoEntries
  <2>4. QED
    BY <2>1, <2>3 DEF MapMoves, MapStep
<1>10. ASSUME NEW t \in Threads, Copy(t) PROVE MapMoves
  <2>1. /\ pc[t] = "assign" /\ pc'[t] = "assign" /\ UNCHANGED <<src, undefined>>
        /\ src[t] \in Contents /\ Parsed[src[t]] # NULL
    BY <1>0, <1>10 DEF Copy, TypeInv, Locals, LocalsOf
  <2>2. PICK k \in Keys : /\ keys[k] = NULL /\ Parsed[src[t]][k] # NULL
                          /\ keys' = [keys EXCEPT ![k] = Parsed[src[t]][k]]
    BY <1>10 DEF Copy
  <2>3. Settled = CopiedMap(t) /\ Settled' = CopiedMap(t)'
    BY <1>00, <2>1 DEF SettledIs
  <2>4. CopiedMap(t)' = CopiedMap(t)
    BY <1>0, <2>1, <2>2 DEF CopiedMap
  <2>5. QED
    BY <2>1, <2>3, <2>4 DEF MapMoves, MapStep
<1>11. ASSUME NEW t \in Threads, Assign(t) PROVE MapMoves
  <2>1. /\ pc[t] = "assign" /\ UNCHANGED <<keys, undefined>> /\ Copied(t)
        /\ pc' = [pc EXCEPT ![t] = ret[t]]
    BY <1>11 DEF Assign
  <2>2. \A k \in Keys : keys[k] = NULL <=> Parsed[src[t]][k] = NULL
    BY <2>1 DEF CopyInv, Copied
  <2>3. Settled = CopiedMap(t)
    BY <1>00, <2>1 DEF SettledIs
  <2>4. CopiedMap(t) = keys
    BY <1>0, <2>2 DEF CopiedMap
  <2>5. \A u \in Threads : pc'[u] \notin Mid
    BY <1>0, <1>00, <2>1 DEF SettledIs, Mid
  <2>6. QED
    BY <1>00, <2>1, <2>3, <2>4, <2>5 DEF SettledIs, MapMoves, MapStep
<1>12. ASSUME NEW t \in Apps, EnsureMain(t) PROVE MapMoves
  <2>1. Free /\ pc[t] \in {"main_ensure", "main_reset"} /\ UNCHANGED undefined
    BY <1>12 DEF EnsureMain
  <2>2. Settled = keys /\ \A u \in Threads : pc[u] \notin Mid
    BY <1>00, <2>1 DEF SettledIs
  <2>3. CASE keys' = [keys EXCEPT ![Main] = BlankEntry] /\ pc'[t] = "main_enter"
    <3>1. Settled' = MainMap'
      BY <1>00, <2>3 DEF SettledIs
    <3>2. Settled' = [Settled EXCEPT ![Main] = MainEntry]
      BY <1>0, <2>2, <2>3, <3>1 DEF MainMap
    <3>3. QED
      BY <2>1, <3>2 DEF MapMoves, MapStep
  <2>4. CASE /\ keys' = [keys EXCEPT ![Main] = MainEntry] \/ keys' = keys
             /\ pc' = [pc EXCEPT ![t] = "idle"]
    <3>1. \A u \in Threads : pc'[u] \notin Mid
      BY <1>0, <2>2, <2>4 DEF Mid
    <3>2. Settled' = keys'
      BY <1>00, <3>1 DEF SettledIs
    <3>3. QED
      BY <2>1, <2>2, <2>4, <3>2 DEF MapMoves, MapStep
  <2>5. QED
    BY <1>0, <1>12, <2>3, <2>4 DEF EnsureMain
<1>13. ASSUME NEW t \in Apps, EnterMain(t) PROVE MapMoves
  <2>1. /\ pc[t] = "main_enter" /\ keys' = MainMap /\ UNCHANGED undefined
        /\ pc' = [pc EXCEPT ![t] = "idle"]
    BY <1>13 DEF EnterMain, MainMap
  <2>2. Settled = keys' /\ \A u \in Threads : pc'[u] \notin Mid
    BY <1>0, <1>00, <2>1 DEF SettledIs, Mid
  <2>3. QED
    BY <1>00, <2>1, <2>2 DEF SettledIs, MapMoves, MapStep
<1>14. QED
  BY <1>1, <1>2, <1>3, <1>4, <1>5, <1>6, <1>7, <1>8, <1>9, <1>10, <1>11, <1>12, <1>13,
     CalmMaps, WriteMaps
     DEF Next, AppStep, PushStep, LoadStep, WorkerStep, Rest

(* However many threads use and reload it, the registry is one map, until  *)
(* a setter or the worker goes through a dangling iterator: loads are      *)
(* atomic to whoever takes _keys_mtx, only they remove keys, a push enters *)
(* only new keys, and a setter alters one field of an entry that is there, *)
(* or of one that is just being copied.                                    *)
THEOREM RegistryImplementsMap == Spec => ImplementsMap
<1> DEFINE Inv == TypeInv /\ LoadInv /\ CopyInv
<1>1. Init => Inv /\ Registry!Init
  <2> SUFFICES ASSUME Init PROVE Inv /\ Registry!Init
    OBVIOUS
  <2>1. Inv
    BY InitTypes, InitLoad, InitCopy
  <2>2. Settled = keys
    BY <2>1, SettledHere DEF Init, SettledIs, LoadInv, Mid, Threads
  <2>3. QED
    BY <2>1, <2>2 DEF Init, NoEntries, Registry!Init
<1>2. Inv /\ [Next]_vars => Inv'
  BY NextTypeInv, NextLoad, NextCopy DEF LoadInv
<1>3. Inv /\ [Next]_vars => [Registry!Next]_<<Settled, undefined>>
  BY NextLoad, NextMaps, MapMovesIs DEF LoadInv
<1>4. QED
  BY <1>1, <1>2, <1>3, PTL DEF Spec, ImplementsMap, Registry!Spec

---------------------------------------------------------------------------
(* Levels, whoever reloads                                                 *)

AskedInTime ==
  /\ \A k \in Keys : asked[k] # NULL => asked[k].gen <= gen
  /\ \A t \in Threads : pc[t] = "write" => it[t][2] <= gen

AskedOf(k) == asked[k] # NULL /\ asked[k].gen = gen

LevelsKept ==
  ~undefined =>
    \A k \in Keys :
      AskedOf(k) => /\ keys[k] # NULL
                    /\ Entering(k) => asked[k].entering
                    /\ ~asked[k].entering => keys[k].level = asked[k].level

LevelInv == AskedInTime /\ LevelsKept

(* No level is asked for at first.                                         *)
LEMMA InitLevels == Init => LevelInv
BY DEF Init, LevelInv, AskedInTime, LevelsKept, AskedOf, Threads

(* A level is never asked for through an iterator of the future.           *)
LEMMA NextInTime ==
  ASSUME TypeInv, AskedInTime, [Next]_vars PROVE AskedInTime'
<1> USE DEF TypeInv, TypeOK, Locals, LocalsOf, AskedInTime, PushLabels
<1> USE DEF mapVars, confVars, workVars, ghosts, counts, locals, Goto, Call, Log, PushReturns,
            LoadReturns, Threads, Free
<1>1. ASSUME NEW t \in Apps, CallPush(t) PROVE AskedInTime'
  BY <1>1 DEF CallPush
<1>2. ASSUME NEW t \in Apps, CallSetter(t) PROVE AskedInTime'
  BY <1>2 DEF CallSetter
<1>3. ASSUME NEW t \in Apps, CallSetFileLine(t) PROVE AskedInTime'
  BY <1>3 DEF CallSetFileLine
<1>4. ASSUME NEW t \in Apps, CallConfig(t) PROVE AskedInTime'
  BY <1>4 DEF CallConfig, CallLoad
<1>5. ASSUME NEW t \in Apps, CallConfigFromString(t) PROVE AskedInTime'
  BY <1>5 DEF CallConfigFromString, CallLoad
<1>6. ASSUME NEW t \in Threads, Prepush(t) PROVE AskedInTime'
  BY <1>6 DEF Prepush
<1>7. ASSUME NEW t \in Threads, PrepushNew(t) PROVE AskedInTime'
  BY <1>7 DEF PrepushNew
<1>8. ASSUME NEW t \in Threads, Enter(t) PROVE AskedInTime'
  BY <1>8 DEF Enter
<1>9. ASSUME NEW t \in Threads, PushFind(t) PROVE AskedInTime'
  BY <1>9 DEF PushFind
<1>10. ASSUME NEW t \in Threads, PushUse(t) PROVE AskedInTime'
  BY <1>10 DEF PushUse
<1>11. ASSUME NEW t \in Threads, Load(t) PROVE AskedInTime'
  BY <1>11 DEF Load
<1>12. ASSUME NEW t \in Threads, Clear(t) PROVE AskedInTime'
  BY <1>12 DEF Clear
<1>13. ASSUME NEW t \in Threads, Copy(t) PROVE AskedInTime'
  BY <1>13 DEF Copy
<1>14. ASSUME NEW t \in Threads, Assign(t) PROVE AskedInTime'
  BY <1>14 DEF Assign
<1>15. ASSUME NEW t \in Apps, EnsureMain(t) PROVE AskedInTime'
  BY <1>15 DEF EnsureMain
<1>16. ASSUME NEW t \in Apps, EnterMain(t) PROVE AskedInTime'
  BY <1>16 DEF EnterMain
<1>17. ASSUME NEW t \in Apps, Find(t) PROVE AskedInTime'
  BY <1>17 DEF Find, Settings
<1>18. ASSUME NEW t \in Apps, Write(t) PROVE AskedInTime'
  <2>1. /\ pc[t] = "write" /\ want[t].key \in Keys /\ it[t][2] \in Nat /\ it[t][2] <= gen
        /\ t \in Threads
    BY <1>18, WriteEffect DEF Threads
  <2>2. /\ \A k \in Keys : asked'[k] = asked[k] \/ asked'[k].gen = it[t][2]
        /\ UNCHANGED gen
    BY <1>18, <2>1 DEF Write, SetterReturns
  <2>3. \A k \in Keys : asked'[k] # NULL => asked'[k].gen <= gen'
    BY <2>1, <2>2
  <2>4. \A u \in Threads : pc'[u] = "write" => pc[u] = "write" /\ it'[u] = it[u]
    BY <1>18 DEF Write, SetterReturns
  <2>5. QED
    BY <2>2, <2>3, <2>4
<1>19. ASSUME NEW t \in Apps, FileLine(t) PROVE AskedInTime'
  BY <1>19 DEF FileLine
<1>20. ASSUME NEW t \in Apps, Unlock(t) PROVE AskedInTime'
  BY <1>20 DEF Unlock
<1>21. CASE Start
  BY <1>21 DEF Start
<1>22. CASE HandleFind
  BY <1>22 DEF HandleFind
<1>23. CASE Handle
  BY <1>23 DEF Handle
<1>24. CASE Update
  BY <1>24 DEF Update, Reread
<1>25. CASE EditFile
  BY <1>25 DEF EditFile
<1>26. CASE UNCHANGED vars
  BY <1>26 DEF vars
<1>27. QED
  BY <1>1, <1>2, <1>3, <1>4, <1>5, <1>6, <1>7, <1>8, <1>9, <1>10, <1>11, <1>12, <1>13,
     <1>14, <1>15, <1>16, <1>17, <1>18, <1>19, <1>20, <1>21, <1>22, <1>23, <1>24, <1>25,
     <1>26
     DEF Next, AppCall, AppStep, PushStep, LoadStep, WorkerStep, Rest

(* A level that was set is changed by no step but another setlevel, a load *)
(* or the assignment to an entry that was not ready when it was set.       *)
LEMMA NextLevels ==
  ASSUME TypeInv, LevelInv, [Next]_vars PROVE LevelsKept'
<1> USE EntryTypes DEF TypeInv, TypeOK, Locals, LocalsOf, LevelInv, AskedInTime, LevelsKept,
            AskedOf, Entering, PushLabels
<1> USE DEF mapVars, confVars, workVars, ghosts, counts, locals, Goto, Call, Log, PushReturns,
            LoadReturns, Threads, Free
<1>1. ASSUME NEW t \in Apps, CallPush(t) PROVE LevelsKept'
  BY <1>1 DEF CallPush
<1>2. ASSUME NEW t \in Apps, CallSetter(t) PROVE LevelsKept'
  BY <1>2 DEF CallSetter
<1>3. ASSUME NEW t \in Apps, CallSetFileLine(t) PROVE LevelsKept'
  BY <1>3 DEF CallSetFileLine
<1>4. ASSUME NEW t \in Apps, CallConfig(t) PROVE LevelsKept'
  BY <1>4 DEF CallConfig, CallLoad
<1>5. ASSUME NEW t \in Apps, CallConfigFromString(t) PROVE LevelsKept'
  BY <1>5 DEF CallConfigFromString, CallLoad
<1>6. ASSUME NEW t \in Threads, Prepush(t) PROVE LevelsKept'
  BY <1>6 DEF Prepush
<1>7. ASSUME NEW t \in Threads, PrepushNew(t) PROVE LevelsKept'
  BY <1>7 DEF PrepushNew
<1>8. ASSUME NEW t \in Threads, Enter(t) PROVE LevelsKept'
  BY <1>8 DEF Enter
<1>9. ASSUME NEW t \in Threads, PushFind(t) PROVE LevelsKept'
  BY <1>9 DEF PushFind
<1>10. ASSUME NEW t \in Threads, PushUse(t) PROVE LevelsKept'
  BY <1>10 DEF PushUse
<1>11. ASSUME NEW t \in Threads, Load(t) PROVE LevelsKept'
  BY <1>11 DEF Load
<1>12. ASSUME NEW t \in Threads, Clear(t) PROVE LevelsKept'
  BY <1>12 DEF Clear
<1>13. ASSUME NEW t \in Threads, Copy(t) PROVE LevelsKept'
  BY <1>13 DEF Copy
<1>14. ASSUME NEW t \in Threads, Assign(t) PROVE LevelsKept'
  BY <1>14 DEF Assign
<1>15. ASSUME NEW t \in Apps, EnsureMain(t) PROVE LevelsKept'
  BY <1>15 DEF EnsureMain
<1>16. ASSUME NEW t \in Apps, EnterMain(t) PROVE LevelsKept'
  BY <1>16 DEF EnterMain
<1>17. ASSUME NEW t \in Apps, Find(t) PROVE LevelsKept'
  BY <1>17 DEF Find
<1>18. ASSUME NEW t \in Apps, Write(t) PROVE LevelsKept'
  <2> DEFINE s == want[t]
  <2>1. SUFFICES ASSUME ~undefined', NEW k \in Keys, AskedOf(k)'
                 PROVE  /\ keys'[k] # NULL
                        /\ Entering(k)' => asked'[k].entering
                        /\ ~asked'[k].entering => keys'[k].level = asked'[k].level
    OBVIOUS
  <2>2. /\ pc[t] = "write" /\ s \in Settings /\ s.key \in Keys
        /\ Valid(it[t]) /\ keys[s.key] # NULL /\ ~undefined
        /\ keys' = Changed(s.key, s)
        /\ keys'[k] = NULL <=> keys[k] = NULL
    BY <1>18, <2>1, WriteEffect
  <2>3. /\ s.field = "level" => keys'[s.key].level = s.value
        /\ s.field # "level" => keys'[s.key].level = keys[s.key].level
        /\ k # s.key => keys'[k] = keys[k]
    <3>1. /\ keys' = [keys EXCEPT ![s.key] = keys'[s.key]]
          /\ s.field = "level" => keys'[s.key].level = s.value
          /\ s.field # "level" => keys'[s.key].level = keys[s.key].level
      BY <1>18, <2>1, WriteEffect
    <3>2. k # s.key => keys'[k] = keys[k]
      BY <3>1
    <3>3. QED
      BY <3>1, <3>2
  <2>4. Entering(k)' <=> Entering(k)
    BY <1>18, <2>2 DEF Write, SetterReturns
  <2>5. CASE s.field = "level" /\ k = s.key
    <3>1. asked'[k] = [level |-> s.value, gen |-> it[t][2], entering |-> Entering(k)]
      BY <1>18, <2>5 DEF Write, SetterReturns
    <3>2. asked'[k].level = s.value /\ asked'[k].entering = Entering(k)
      BY <3>1
    <3>3. QED
      BY <2>2, <2>3, <2>4, <2>5, <3>2
  <2>6. CASE ~(s.field = "level" /\ k = s.key)
    <3>1. asked'[k] = asked[k] /\ gen' = gen
      BY <1>18, <2>2, <2>6 DEF Write, SetterReturns
    <3>2. AskedOf(k)
      BY <2>1, <3>1
    <3>3. QED
      BY <2>2, <2>3, <2>4, <2>6, <3>1, <3>2
  <2>7. QED
    BY <2>5, <2>6
<1>19. ASSUME NEW t \in Apps, FileLine(t) PROVE LevelsKept'
  BY <1>19 DEF FileLine
<1>20. ASSUME NEW t \in Apps, Unlock(t) PROVE LevelsKept'
  BY <1>20 DEF Unlock
<1>21. CASE Start
  BY <1>21 DEF Start
<1>22. CASE HandleFind
  BY <1>22 DEF HandleFind
<1>23. CASE Handle
  BY <1>23 DEF Handle
<1>24. CASE Update
  BY <1>24 DEF Update, Reread
<1>25. CASE EditFile
  BY <1>25 DEF EditFile
<1>26. CASE UNCHANGED vars
  BY <1>26 DEF vars
<1>27. QED
  BY <1>1, <1>2, <1>3, <1>4, <1>5, <1>6, <1>7, <1>8, <1>9, <1>10, <1>11, <1>12, <1>13,
     <1>14, <1>15, <1>16, <1>17, <1>18, <1>19, <1>20, <1>21, <1>22, <1>23, <1>24, <1>25,
     <1>26
     DEF Next, AppCall, AppStep, PushStep, LoadStep, WorkerStep, Rest

(* A level set by the program is the level of the key until the next load: *)
(* no push of the key, other setter or end of config() undoes it, unless   *)
(* the setter met an entry that was just being made.                       *)
THEOREM LevelsStand == Spec => []SetLevelStands
<1>1. Init => TypeInv /\ LevelInv
  BY InitTypes, InitLevels
<1>2. TypeInv /\ LevelInv /\ [Next]_vars => (TypeInv /\ LevelInv)'
  BY NextTypeInv, NextInTime, NextLevels DEF LevelInv
<1>3. LevelInv => SetLevelStands
  BY DEF LevelInv, LevelsKept, AskedOf, SetLevelStands, HasLevelAsked
<1>4. QED
  BY <1>1, <1>2, <1>3, PTL DEF Spec

---------------------------------------------------------------------------
(* Configuration before start(): nobody but the worker reloads             *)

ConfigAlone ==
  \A t \in Apps : Loading(t) => ~active /\ \A u \in Apps \ {t} : pc[u] = "idle"

(* Nobody loads a configuration at first.                                  *)
LEMMA InitAlone == Init => ConfigAlone
BY DEF Init, ConfigAlone, Loading, LoadLabels, Threads

(* A thread that loads one is alone: CallLoad and Undisturbed see to it.   *)
LEMMA NextAlone ==
  ASSUME Reloaders \subseteq {Worker}, TypeInv, ConfigAlone, [Next]_vars
  PROVE  ConfigAlone'
<1> USE DEF TypeInv, TypeOK, Locals, LocalsOf, ConfigAlone, PushLabels
<1> USE DEF mapVars, confVars, workVars, ghosts, counts, locals, Goto, Call, Log, PushReturns,
            LoadReturns, Threads, Free, Undisturbed, Loading, LoadLabels
<1>1. ASSUME NEW t \in Apps, CallPush(t) PROVE ConfigAlone'
  BY <1>1 DEF CallPush
<1>2. ASSUME NEW t \in Apps, CallSetter(t) PROVE ConfigAlone'
  BY <1>2 DEF CallSetter
<1>3. ASSUME NEW t \in Apps, CallSetFileLine(t) PROVE ConfigAlone'
  BY <1>3 DEF CallSetFileLine
<1>4. ASSUME NEW t \in Apps, CallConfig(t) PROVE ConfigAlone'
  BY <1>4 DEF CallConfig, CallLoad
<1>5. ASSUME NEW t \in Apps, CallConfigFromString(t) PROVE ConfigAlone'
  BY <1>5 DEF CallConfigFromString, CallLoad
<1>6. ASSUME NEW t \in Threads, Prepush(t) PROVE ConfigAlone'
  BY <1>6 DEF Prepush
<1>7. ASSUME NEW t \in Threads, PrepushNew(t) PROVE ConfigAlone'
  BY <1>7 DEF PrepushNew
<1>8. ASSUME NEW t \in Threads, Enter(t) PROVE ConfigAlone'
  BY <1>8 DEF Enter
<1>9. ASSUME NEW t \in Threads, PushFind(t) PROVE ConfigAlone'
  BY <1>9 DEF PushFind
<1>10. ASSUME NEW t \in Threads, PushUse(t) PROVE ConfigAlone'
  BY <1>10 DEF PushUse
<1>11. ASSUME NEW t \in Threads, Load(t) PROVE ConfigAlone'
  BY <1>11 DEF Load
<1>12. ASSUME NEW t \in Threads, Clear(t) PROVE ConfigAlone'
  BY <1>12 DEF Clear
<1>13. ASSUME NEW t \in Threads, Copy(t) PROVE ConfigAlone'
  BY <1>13 DEF Copy
<1>14. ASSUME NEW t \in Threads, Assign(t) PROVE ConfigAlone'
  BY <1>14 DEF Assign
<1>15. ASSUME NEW t \in Apps, EnsureMain(t) PROVE ConfigAlone'
  BY <1>15 DEF EnsureMain
<1>16. ASSUME NEW t \in Apps, EnterMain(t) PROVE ConfigAlone'
  BY <1>16 DEF EnterMain
<1>17. ASSUME NEW t \in Apps, Find(t) PROVE ConfigAlone'
  BY <1>17 DEF Find
<1>18. ASSUME NEW t \in Apps, Write(t) PROVE ConfigAlone'
  BY <1>18 DEF Write, SetterReturns
<1>19. ASSUME NEW t \in Apps, FileLine(t) PROVE ConfigAlone'
  BY <1>19 DEF FileLine
<1>20. ASSUME NEW t \in Apps, Unlock(t) PROVE ConfigAlone'
  BY <1>20 DEF Unlock
<1>21. CASE Start
  BY <1>21 DEF Start
<1>22. CASE HandleFind
  BY <1>22 DEF HandleFind
<1>23. CASE Handle
  BY <1>23 DEF Handle
<1>24. CASE Update
  BY <1>24 DEF Update, Reread
<1>25. CASE EditFile
  BY <1>25 DEF EditFile
<1>26. CASE UNCHANGED vars
  BY <1>26 DEF vars
<1>27. QED
  BY <1>1, <1>2, <1>3, <1>4, <1>5, <1>6, <1>7, <1>8, <1>9, <1>10, <1>11, <1>12, <1>13,
     <1>14, <1>15, <1>16, <1>17, <1>18, <1>19, <1>20, <1>21, <1>22, <1>23, <1>24, <1>25,
     <1>26
     DEF Next, AppCall, AppStep, PushStep, LoadStep, WorkerStep, Rest

(* No two threads load at the same time.                                   *)
LEMMA OneLoader ==
  ASSUME TypeInv, ConfigAlone,
         NEW t \in Threads, NEW u \in Threads, Loading(t), Loading(u)
  PROVE  t = u
BY DEF TypeInv, TypeOK, Locals, ConfigAlone, Loading, LoadLabels, Threads

---------------------------------------------------------------------------
(* The iterator of the worker                                              *)

(* Nothing takes away the entry of the record that the worker handles: no  *)
(* thread of the application loads any more, and the worker itself updates *)
(* between two records.                                                    *)
LEMMA NextWorkerIterator ==
  ASSUME Reloaders \subseteq {Worker}, TypeInv, ConfigAlone, WorkerIteratorIsGood, [Next]_vars
  PROVE  WorkerIteratorIsGood'
<1> USE EntryTypes DEF TypeInv, TypeOK, Locals, LocalsOf, ConfigAlone, WorkerIteratorIsGood, Valid,
            PushLabels
<1> USE DEF mapVars, confVars, workVars, ghosts, counts, locals, Goto, Call, Log, PushReturns,
            LoadReturns, Threads, Free, Undisturbed, Loading, LoadLabels
<1>1. ASSUME NEW t \in Apps, CallPush(t) PROVE WorkerIteratorIsGood'
  BY <1>1 DEF CallPush
<1>2. ASSUME NEW t \in Apps, CallSetter(t) PROVE WorkerIteratorIsGood'
  BY <1>2 DEF CallSetter
<1>3. ASSUME NEW t \in Apps, CallSetFileLine(t) PROVE WorkerIteratorIsGood'
  BY <1>3 DEF CallSetFileLine
<1>4. ASSUME NEW t \in Apps, CallConfig(t) PROVE WorkerIteratorIsGood'
  BY <1>4 DEF CallConfig, CallLoad
<1>5. ASSUME NEW t \in Apps, CallConfigFromString(t) PROVE WorkerIteratorIsGood'
  BY <1>5 DEF CallConfigFromString, CallLoad
<1>6. ASSUME NEW t \in Threads, Prepush(t) PROVE WorkerIteratorIsGood'
  BY <1>6 DEF Prepush
<1>7. ASSUME NEW t \in Threads, PrepushNew(t) PROVE WorkerIteratorIsGood'
  BY <1>7 DEF PrepushNew
<1>8. ASSUME NEW t \in Threads, Enter(t) PROVE WorkerIteratorIsGood'
  BY <1>8 DEF Enter
<1>9. ASSUME NEW t \in Threads, PushFind(t) PROVE WorkerIteratorIsGood'
  BY <1>9 DEF PushFind
<1>10. ASSUME NEW t \in Threads, PushUse(t) PROVE WorkerIteratorIsGood'
  BY <1>10 DEF PushUse
<1>11. ASSUME NEW t \in Threads, Load(t) PROVE WorkerIteratorIsGood'
  BY <1>11 DEF Load
<1>12. ASSUME NEW t \in Threads, Clear(t) PROVE WorkerIteratorIsGood'
  BY <1>12 DEF Clear
<1>13. ASSUME NEW t \in Threads, Copy(t) PROVE WorkerIteratorIsGood'
  BY <1>13 DEF Copy
<1>14. ASSUME NEW t \in Threads, Assign(t) PROVE WorkerIteratorIsGood'
  BY <1>14 DEF Assign
<1>15. ASSUME NEW t \in Apps, EnsureMain(t) PROVE WorkerIteratorIsGood'
  BY <1>15 DEF EnsureMain
<1>16. ASSUME NEW t \in Apps, EnterMain(t) PROVE WorkerIteratorIsGood'
  BY <1>16 DEF EnterMain
<1>17. ASSUME NEW t \in Apps, Find(t) PROVE WorkerIteratorIsGood'
  BY <1>17 DEF Find
<1>18. ASSUME NEW t \in Apps, Write(t) PROVE WorkerIteratorIsGood'
  <2>1. \A k \in Keys : keys'[k] = NULL <=> keys[k] = NULL
    BY <1>18, WriteEffect

  <2>2. it'[Worker] = it[Worker] /\ gen' = gen
    BY <1>18 DEF Write, SetterReturns
  <2>3. it[Worker] # NULL => it[Worker][1] \in Keys
    OBVIOUS
  <2>4. QED
    BY <2>1, <2>2, <2>3
<1>19. ASSUME NEW t \in Apps, FileLine(t) PROVE WorkerIteratorIsGood'
  BY <1>19 DEF FileLine
<1>20. ASSUME NEW t \in Apps, Unlock(t) PROVE WorkerIteratorIsGood'
  BY <1>20 DEF Unlock
<1>21. CASE Start
  BY <1>21 DEF Start
<1>22. CASE HandleFind
  BY <1>22 DEF HandleFind
<1>23. CASE Handle
  BY <1>23 DEF Handle
<1>24. CASE Update
  BY <1>24 DEF Update, Reread
<1>25. CASE EditFile
  BY <1>25 DEF EditFile
<1>26. CASE UNCHANGED vars
  BY <1>26 DEF vars
<1>27. QED
  BY <1>1, <1>2, <1>3, <1>4, <1>5, <1>6, <1>7, <1>8, <1>9, <1>10, <1>11, <1>12, <1>13,
     <1>14, <1>15, <1>16, <1>17, <1>18, <1>19, <1>20, <1>21, <1>22, <1>23, <1>24, <1>25,
     <1>26
     DEF Next, AppCall, AppStep, PushStep, LoadStep, WorkerStep, Rest

(* The worker writes a record with the entry of its key as it found it in  *)
(* the map, and no hot update comes between, however many threads log and  *)
(* set meanwhile; only the worker reloads.                                 *)
THEOREM WorkerIteratorStaysGood ==
  ASSUME Reloaders \subseteq {Worker}
  PROVE  Spec => []WorkerIteratorIsGood
<1> DEFINE Inv == TypeInv /\ ConfigAlone /\ WorkerIteratorIsGood
<1>1. Init => Inv
  BY InitTypes, InitAlone DEF Init, WorkerIteratorIsGood, Threads
<1>2. Inv /\ [Next]_vars => Inv'
  BY NextTypeInv, NextAlone, NextWorkerIterator
<1>3. QED
  BY <1>1, <1>2, PTL DEF Spec

---------------------------------------------------------------------------
(* The sum of the text in force                                            *)

Replacing(t) == pc[t] \in {"clear", "assign"}

\* An entry that push() is making is none of a file, and one that is copied
\* is marked as in the text.
Marks ==
  \A t \in Threads :
    /\ pc[t] = "enter" => keys[msg[t][1]] # NULL /\ ~keys[msg[t][1]].fromfile
    /\ pc[t] = "assign" =>
         \A k \in Keys : keys[k] # NULL =>
           Parsed[src[t]][k] # NULL /\ keys[k].fromfile = Parsed[src[t]][k].fromfile

InForce(c) == Parsed[c] # NULL /\ Sum[c] = checksum /\ FromFile(keys) = FromFile(Parsed[c])

SumInForce ==
  /\ \A t \in Threads : Replacing(t) => checksum = Sum[src[t]]
  /\ (\A t \in Threads : ~Replacing(t)) => checksum = 0 \/ \E c \in Contents : InForce(c)

(* The sum is that of no text, and there are no entries.                   *)
LEMMA InitSum == Init => Marks /\ SumInForce
BY DEF Init, Marks, SumInForce, Replacing, Threads

(* Only the holder of the lock touches its entries, but for the setters.   *)
LEMMA NextMarks ==
  ASSUME TypeInv, HoldsMutex, Marks, [Next]_vars
  PROVE  Marks'
<1> USE EntryTypes DEF TypeInv, TypeOK, Locals, LocalsOf, HoldsMutex, Held, Marks, PushLabels
<1> USE DEF mapVars, confVars, workVars, ghosts, counts, locals, Goto, Call, Log, PushReturns,
            LoadReturns, Threads, Free, Undisturbed, Loading, LoadLabels
<1>1. ASSUME NEW t \in Apps, CallPush(t) PROVE Marks'
  BY <1>1 DEF CallPush
<1>2. ASSUME NEW t \in Apps, CallSetter(t) PROVE Marks'
  BY <1>2 DEF CallSetter
<1>3. ASSUME NEW t \in Apps, CallSetFileLine(t) PROVE Marks'
  BY <1>3 DEF CallSetFileLine
<1>4. ASSUME NEW t \in Apps, CallConfig(t) PROVE Marks'
  BY <1>4 DEF CallConfig, CallLoad
<1>5. ASSUME NEW t \in Apps, CallConfigFromString(t) PROVE Marks'
  BY <1>5 DEF CallConfigFromString, CallLoad
<1>6. ASSUME NEW t \in Threads, Prepush(t) PROVE Marks'
  BY <1>6 DEF Prepush
<1>7. ASSUME NEW t \in Threads, PrepushNew(t) PROVE Marks'
  <2>1. \A u \in Threads : pc[u] \notin {"enter", "assign"}
    BY <1>7 DEF PrepushNew
  <2>2. /\ msg[t][1] \in Keys /\ keys' = [keys EXCEPT ![msg[t][1]] = BlankEntry]
        /\ pc' = [pc EXCEPT ![t] = "enter"] /\ UNCHANGED msg
    BY <1>7 DEF PrepushNew
  <2>3. keys'[msg[t][1]] # NULL /\ ~keys'[msg[t][1]].fromfile
    <3>1. keys'[msg[t][1]] = BlankEntry
      BY <2>2
    <3>2. BlankEntry # NULL
      OBVIOUS
    <3>3. QED
      BY <3>1, <3>2
  <2>4. QED
    BY <2>1, <2>2, <2>3
<1>8. ASSUME NEW t \in Threads, Enter(t) PROVE Marks'
  BY <1>8 DEF Enter
<1>9. ASSUME NEW t \in Threads, PushFind(t) PROVE Marks'
  BY <1>9 DEF PushFind
<1>10. ASSUME NEW t \in Threads, PushUse(t) PROVE Marks'
  BY <1>10 DEF PushUse
<1>11. ASSUME NEW t \in Threads, Load(t) PROVE Marks'
  BY <1>11 DEF Load
<1>12. ASSUME NEW t \in Threads, Clear(t) PROVE Marks'
  BY <1>12 DEF Clear, NoEntries
<1>13. ASSUME NEW t \in Threads, Copy(t) PROVE Marks'
  BY <1>13 DEF Copy
<1>14. ASSUME NEW t \in Threads, Assign(t) PROVE Marks'
  BY <1>14 DEF Assign
<1>15. ASSUME NEW t \in Apps, EnsureMain(t) PROVE Marks'
  BY <1>15 DEF EnsureMain
<1>16. ASSUME NEW t \in Apps, EnterMain(t) PROVE Marks'
  BY <1>16 DEF EnterMain
<1>17. ASSUME NEW t \in Apps, Find(t) PROVE Marks'
  BY <1>17 DEF Find
<1>18. ASSUME NEW t \in Apps, Write(t) PROVE Marks'
  <2>1. /\ \A k \in Keys : keys'[k] = NULL <=> keys[k] = NULL
        /\ \A k \in Keys : keys[k] # NULL => keys'[k].fromfile = keys[k].fromfile
        /\ pc[t] = "write"
    BY <1>18, WriteEffect
  <2>2. \A u \in Threads : /\ pc'[u] \in {"enter", "assign"} => pc'[u] = pc[u]
                           /\ msg'[u] = msg[u] /\ src'[u] = src[u]
    BY <1>18 DEF Write, SetterReturns
  <2>3. \A u \in Threads : pc[u] = "enter" => msg[u][1] \in Keys
    OBVIOUS
  <2>4. QED
    BY <2>1, <2>2, <2>3
<1>19. ASSUME NEW t \in Apps, FileLine(t) PROVE Marks'
  BY <1>19 DEF FileLine
<1>20. ASSUME NEW t \in Apps, Unlock(t) PROVE Marks'
  BY <1>20 DEF Unlock
<1>21. CASE Start
  BY <1>21 DEF Start
<1>22. CASE HandleFind
  BY <1>22 DEF HandleFind
<1>23. CASE Handle
  BY <1>23 DEF Handle
<1>24. CASE Update
  BY <1>24 DEF Update, Reread
<1>25. CASE EditFile
  BY <1>25 DEF EditFile
<1>26. CASE UNCHANGED vars
  BY <1>26 DEF vars
<1>27. QED
  BY <1>1, <1>2, <1>3, <1>4, <1>5, <1>6, <1>7, <1>8, <1>9, <1>10, <1>11, <1>12, <1>13,
     <1>14, <1>15, <1>16, <1>17, <1>18, <1>19, <1>20, <1>21, <1>22, <1>23, <1>24, <1>25,
     <1>26
     DEF Next, AppCall, AppStep, PushStep, LoadStep, WorkerStep, Rest

(* A step that neither loads nor takes or gives fromfile.                  *)
LEMMA SumKept ==
  ASSUME SumInForce, FromFile(keys') = FromFile(keys), checksum' = checksum,
         \A t \in Threads : (Replacing(t)' <=> Replacing(t)) /\ (Replacing(t) => src'[t] = src[t])
  PROVE  SumInForce'
BY DEF SumInForce, InForce

(* Between loads the sum is 0, after a text that gives nothing or none at  *)
(* all, or that of a text whose keys are in the map.                       *)
LEMMA NextSum ==
  ASSUME TypeInv, HoldsMutex, ConfigAlone, Marks, SumInForce, [Next]_vars
  PROVE  SumInForce'
<1> USE EntryTypes DEF TypeInv, TypeOK, Locals, LocalsOf, Replacing, PushLabels
<1> USE DEF mapVars, confVars, workVars, ghosts, counts, locals, Goto, Call, Log, PushReturns,
            LoadReturns, Threads, Free, Undisturbed, Loading, LoadLabels
<1>1. ASSUME NEW t \in Apps, CallPush(t) PROVE SumInForce'
  BY <1>1, SumKept DEF CallPush
<1>2. ASSUME NEW t \in Apps, CallSetter(t) PROVE SumInForce'
  BY <1>2, SumKept DEF CallSetter
<1>3. ASSUME NEW t \in Apps, CallSetFileLine(t) PROVE SumInForce'
  BY <1>3, SumKept DEF CallSetFileLine
<1>4. ASSUME NEW t \in Apps, CallConfig(t) PROVE SumInForce'
  BY <1>4, SumKept DEF CallConfig, CallLoad
<1>5. ASSUME NEW t \in Apps, CallConfigFromString(t) PROVE SumInForce'
  BY <1>5, SumKept DEF CallConfigFromString, CallLoad
<1>6. ASSUME NEW t \in Threads, Prepush(t) PROVE SumInForce'
  BY <1>6, SumKept DEF Prepush
<1>7. ASSUME NEW t \in Threads, PrepushNew(t) PROVE SumInForce'
  <2>1. FromFile(keys') = FromFile(keys)
    BY <1>7 DEF PrepushNew, FromFile, BlankEntry
  <2>2. QED
    BY <1>7, <2>1, SumKept DEF PrepushNew
<1>8. ASSUME NEW t \in Threads, Enter(t) PROVE SumInForce'
  <2>1. FromFile(keys') = FromFile(keys)
    BY <1>8 DEF Enter, FromFile, DefaultEntry, Marks
  <2>2. QED
    BY <1>8, <2>1, SumKept DEF Enter
<1>9. ASSUME NEW t \in Threads, PushFind(t) PROVE SumInForce'
  BY <1>9, SumKept DEF PushFind
<1>10. ASSUME NEW t \in Threads, PushUse(t) PROVE SumInForce'
  BY <1>10, SumKept DEF PushUse
<1>11. ASSUME NEW t \in Threads, Load(t) PROVE SumInForce'
  <2> DEFINE c == src[t]
  <2>1. /\ \A u \in Threads : ~Replacing(u)
        /\ c \in Contents /\ pc[t] = "load" /\ UNCHANGED keys /\ checksum' = Sum[c]
    BY <1>11, OneLoader DEF Load
  <2>2. CASE checksum = Sum[c]
    <3>1. UNCHANGED checksum /\ \A u \in Threads : ~Replacing(u)'
      BY <1>11, <2>1, <2>2 DEF Load
    <3>2. QED
      BY <2>1, <3>1 DEF SumInForce, InForce
  <2>3. CASE checksum # Sum[c] /\ Parsed[c] = NULL
    <3>1. checksum' = 0 /\ \A u \in Threads : ~Replacing(u)'
      BY <1>11, <2>1, <2>3 DEF Load
    <3>2. QED
      BY <3>1 DEF SumInForce
  <2>4. CASE checksum # Sum[c] /\ Parsed[c] # NULL
    <3>1. UNCHANGED src /\ pc' = [pc EXCEPT ![t] = "clear"]
      BY <1>11, <2>4 DEF Load
    <3>2. QED
      BY <2>1, <3>1 DEF SumInForce
  <2>5. QED
    BY <2>2, <2>3, <2>4
<1>12. ASSUME NEW t \in Threads, Clear(t) PROVE SumInForce'
  BY <1>12 DEF Clear, SumInForce
<1>13. ASSUME NEW t \in Threads, Copy(t) PROVE SumInForce'
  BY <1>13 DEF Copy, SumInForce
<1>14. ASSUME NEW t \in Threads, Assign(t) PROVE SumInForce'
  <2>0. PICK c \in Contents : c = src[t]
    BY <1>14 DEF Assign
  <2>1. /\ \A u \in Threads \ {t} : ~Replacing(u)
        /\ c \in Contents /\ Parsed[c] # NULL /\ checksum = Sum[c]
    BY <1>14, <2>0, OneLoader DEF Assign, SumInForce
  <2>2. FromFile(keys) = FromFile(Parsed[c])
    BY <1>14, <2>0 DEF Assign, Copied, Marks, FromFile
  <2>3. InForce(c)' /\ \A u \in Threads : ~Replacing(u)'
    BY <1>14, <2>1, <2>2 DEF Assign, InForce
  <2>4. QED
    BY <2>1, <2>3 DEF SumInForce
<1>15. ASSUME NEW t \in Apps, EnsureMain(t) PROVE SumInForce'
  <2>1. FromFile(keys') = FromFile(keys)
    BY <1>15 DEF EnsureMain, FromFile
  <2>2. QED
    BY <1>15, <2>1, SumKept DEF EnsureMain
<1>16. ASSUME NEW t \in Apps, EnterMain(t) PROVE SumInForce'
  <2>1. FromFile(keys') = FromFile(keys)
    BY <1>16 DEF EnterMain, FromFile
  <2>2. QED
    BY <1>16, <2>1, SumKept DEF EnterMain
<1>17. ASSUME NEW t \in Apps, Find(t) PROVE SumInForce'
  BY <1>17, SumKept DEF Find
<1>18. ASSUME NEW t \in Apps, Write(t) PROVE SumInForce'
  <2>1. FromFile(keys') = FromFile(keys)
    BY <1>18, WriteEffect DEF FromFile
  <2>2. QED
    BY <1>18, <2>1, SumKept DEF Write, SetterReturns
<1>19. ASSUME NEW t \in Apps, FileLine(t) PROVE SumInForce'
  BY <1>19, SumKept DEF FileLine
<1>20. ASSUME NEW t \in Apps, Unlock(t) PROVE SumInForce'
  BY <1>20, SumKept DEF Unlock
<1>21. CASE Start
  BY <1>21, SumKept DEF Start
<1>22. CASE HandleFind
  BY <1>22, SumKept DEF HandleFind
<1>23. CASE Handle
  BY <1>23, SumKept DEF Handle
<1>24. CASE Update
  BY <1>24, SumKept DEF Update, Reread
<1>25. CASE EditFile
  BY <1>25, SumKept DEF EditFile
<1>26. CASE UNCHANGED vars
  BY <1>26, SumKept DEF vars
<1>27. QED
  BY <1>1, <1>2, <1>3, <1>4, <1>5, <1>6, <1>7, <1>8, <1>9, <1>10, <1>11, <1>12, <1>13,
     <1>14, <1>15, <1>16, <1>17, <1>18, <1>19, <1>20, <1>21, <1>22, <1>23, <1>24, <1>25,
     <1>26
     DEF Next, AppCall, AppStep, PushStep, LoadStep, WorkerStep, Rest

(* A load that goes no further found the sum it had last time.             *)
LEMMA SkipsCompares ==
  ASSUME TypeInv, [Next]_vars, NEW r \in Threads, Skips(r)
  PROVE  checksum = Sum[src[r]]
<1> USE DEF TypeInv, TypeOK, Locals, LocalsOf, Skips, PushLabels
<1> USE DEF mapVars, confVars, workVars, ghosts, counts, locals, Goto, Call, Log, PushReturns,
            LoadReturns, Threads, Free, Undisturbed, Loading, LoadLabels
<1>1. ASSUME NEW t \in Apps, CallPush(t) PROVE checksum = Sum[src[r]]
  BY <1>1 DEF CallPush
<1>2. ASSUME NEW t \in Apps, CallSetter(t) PROVE checksum = Sum[src[r]]
  BY <1>2 DEF CallSetter
<1>3. ASSUME NEW t \in Apps, CallSetFileLine(t) PROVE checksum = Sum[src[r]]
  BY <1>3 DEF CallSetFileLine
<1>4. ASSUME NEW t \in Apps, CallConfig(t) PROVE checksum = Sum[src[r]]
  BY <1>4 DEF CallConfig, CallLoad
<1>5. ASSUME NEW t \in Apps, CallConfigFromString(t) PROVE checksum = Sum[src[r]]
  BY <1>5 DEF CallConfigFromString, CallLoad
<1>6. ASSUME NEW t \in Threads, Prepush(t) PROVE checksum = Sum[src[r]]
  BY <1>6 DEF Prepush
<1>7. ASSUME NEW t \in Threads, PrepushNew(t) PROVE checksum = Sum[src[r]]
  BY <1>7 DEF PrepushNew
<1>8. ASSUME NEW t \in Threads, Enter(t) PROVE checksum = Sum[src[r]]
  BY <1>8 DEF Enter
<1>9. ASSUME NEW t \in Threads, PushFind(t) PROVE checksum = Sum[src[r]]
  BY <1>9 DEF PushFind
<1>10. ASSUME NEW t \in Threads, PushUse(t) PROVE checksum = Sum[src[r]]
  BY <1>10 DEF PushUse
<1>11. ASSUME NEW t \in Threads, Load(t) PROVE checksum = Sum[src[r]]
  BY <1>11 DEF Load
<1>12. ASSUME NEW t \in Threads, Clear(t) PROVE checksum = Sum[src[r]]
  BY <1>12 DEF Clear
<1>13. ASSUME NEW t \in Threads, Copy(t) PROVE checksum = Sum[src[r]]
  BY <1>13 DEF Copy
<1>14. ASSUME NEW t \in Threads, Assign(t) PROVE checksum = Sum[src[r]]
  BY <1>14 DEF Assign
<1>15. ASSUME NEW t \in Apps, EnsureMain(t) PROVE checksum = Sum[src[r]]
  BY <1>15 DEF EnsureMain
<1>16. ASSUME NEW t \in Apps, EnterMain(t) PROVE checksum = Sum[src[r]]
  BY <1>16 DEF EnterMain
<1>17. ASSUME NEW t \in Apps, Find(t) PROVE checksum = Sum[src[r]]
  BY <1>17 DEF Find
<1>18. ASSUME NEW t \in Apps, Write(t) PROVE checksum = Sum[src[r]]
  BY <1>18 DEF Write, SetterReturns
<1>19. ASSUME NEW t \in Apps, FileLine(t) PROVE checksum = Sum[src[r]]
  BY <1>19 DEF FileLine
<1>20. ASSUME NEW t \in Apps, Unlock(t) PROVE checksum = Sum[src[r]]
  BY <1>20 DEF Unlock
<1>21. CASE Start
  BY <1>21 DEF Start
<1>22. CASE HandleFind
  BY <1>22 DEF HandleFind
<1>23. CASE Handle
  BY <1>23 DEF Handle
<1>24. CASE Update
  BY <1>24 DEF Update, Reread
<1>25. CASE EditFile
  BY <1>25 DEF EditFile
<1>26. CASE UNCHANGED vars
  BY <1>26 DEF vars
<1>27. QED
  BY <1>1, <1>2, <1>3, <1>4, <1>5, <1>6, <1>7, <1>8, <1>9, <1>10, <1>11, <1>12, <1>13,
     <1>14, <1>15, <1>16, <1>17, <1>18, <1>19, <1>20, <1>21, <1>22, <1>23, <1>24, <1>25,
     <1>26
     DEF Next, AppCall, AppStep, PushStep, LoadStep, WorkerStep, Rest

(* A load that goes no further read a text with the sum of the one in      *)
(* force; the sum of a text that gives something is not 0.                 *)
LEMMA SkipsInForce ==
  ASSUME TypeInv, ConfigAlone, SumInForce, [Next]_vars, NEW t \in Threads, Skips(t)
  PROVE  \E c \in Contents : /\ Parsed[c] # NULL /\ Sum[c] = Sum[src[t]]
                             /\ FromFile(keys) = FromFile(Parsed[c])
<1>1. \A u \in Threads : ~Replacing(u)
  BY OneLoader DEF Skips, Replacing, Loading, LoadLabels
<1>2. checksum = Sum[src[t]] /\ src[t] \in Contents /\ Parsed[src[t]] # NULL
  BY SkipsCompares DEF Skips, TypeInv, Locals, LocalsOf
<1>3. QED
  BY <1>1, <1>2 DEF SumInForce, InForce

(* A text is skipped as unchanged only if its bytes have the sum of the    *)
(* text in force, if only the worker reloads: _checksum is never that of a *)
(* text from before, or of one that was read and refused.  (That texts     *)
(* with the same sum need not be the same is another matter.)              *)
THEOREM OnlyTheSameSumIsSkipped ==
  ASSUME Reloaders \subseteq {Worker}
  PROVE  Spec => SkippedSumInForce
<1> DEFINE Inv == TypeInv /\ LoadInv /\ ConfigAlone /\ Marks /\ SumInForce
<1>1. Init => Inv
  BY InitTypes, InitLoad, InitAlone, InitSum
<1>2. Inv /\ [Next]_vars => Inv'
  BY NextTypeInv, NextLoad, NextAlone, NextMarks, NextSum DEF LoadInv
<1>3. Inv /\ [Next]_vars =>
        [\A t \in Threads :
           Skips(t) => \E c \in Contents : /\ Parsed[c] # NULL /\ Sum[c] = Sum[src[t]]
                                           /\ FromFile(keys) = FromFile(Parsed[c])]_vars
  BY SkipsInForce
<1>4. QED
  BY <1>1, <1>2, <1>3, PTL DEF Spec, SkippedSumInForce

---------------------------------------------------------------------------
(* One configuration, loaded before the logger starts                      *)

MainInv ==
  /\ pc[Worker] \notin LoadLabels
  /\ loads = 0 => ~path /\ \A t \in Apps : ~Loading(t)
  /\ path => \A t \in Apps : Loading(t) => Configuring(t)
  /\ path /\ (\A t \in Apps : ~Configuring(t)) => keys[Main] # NULL

(* Nothing is loaded at first.                                             *)
LEMMA InitMain == Init => MainInv
BY DEF Init, MainInv, Loading, LoadLabels, Threads

(* The one load, if it is config(), ends by adding "main".                 *)
LEMMA NextMain ==
  ASSUME Reloaders = {}, MaxLoads <= 1,
         TypeInv, ConfigAlone, MainInv, [Next]_vars
  PROVE  MainInv'
<1> USE EntryTypes DEF TypeInv, TypeOK, Locals, LocalsOf, ConfigAlone, MainInv,
            Configuring, PushLabels
<1> USE DEF mapVars, confVars, workVars, ghosts, counts, locals, Goto, Call, Log, PushReturns,
            LoadReturns, Threads, Free, Undisturbed, Loading, LoadLabels
<1>1. ASSUME NEW t \in Apps, CallPush(t) PROVE MainInv'
  BY <1>1 DEF CallPush
<1>2. ASSUME NEW t \in Apps, CallSetter(t) PROVE MainInv'
  BY <1>2 DEF CallSetter
<1>3. ASSUME NEW t \in Apps, CallSetFileLine(t) PROVE MainInv'
  BY <1>3 DEF CallSetFileLine
<1>4. ASSUME NEW t \in Apps, CallConfig(t) PROVE MainInv'
  BY <1>4 DEF CallConfig, CallLoad
<1>5. ASSUME NEW t \in Apps, CallConfigFromString(t) PROVE MainInv'
  BY <1>5 DEF CallConfigFromString, CallLoad
<1>6. ASSUME NEW t \in Threads, Prepush(t) PROVE MainInv'
  BY <1>6 DEF Prepush
<1>7. ASSUME NEW t \in Threads, PrepushNew(t) PROVE MainInv'
  BY <1>7 DEF PrepushNew
<1>8. ASSUME NEW t \in Threads, Enter(t) PROVE MainInv'
  BY <1>8 DEF Enter
<1>9. ASSUME NEW t \in Threads, PushFind(t) PROVE MainInv'
  BY <1>9 DEF PushFind
<1>10. ASSUME NEW t \in Threads, PushUse(t) PROVE MainInv'
  BY <1>10 DEF PushUse
<1>11. ASSUME NEW t \in Threads, Load(t) PROVE MainInv'
  BY <1>11 DEF Load
<1>12. ASSUME NEW t \in Threads, Clear(t) PROVE MainInv'
  BY <1>12 DEF Clear
<1>13. ASSUME NEW t \in Threads, Copy(t) PROVE MainInv'
  BY <1>13 DEF Copy
<1>14. ASSUME NEW t \in Threads, Assign(t) PROVE MainInv'
  BY <1>14 DEF Assign
<1>15. ASSUME NEW t \in Apps, EnsureMain(t) PROVE MainInv'
  BY <1>15 DEF EnsureMain
<1>16. ASSUME NEW t \in Apps, EnterMain(t) PROVE MainInv'
  BY <1>16 DEF EnterMain
<1>17. ASSUME NEW t \in Apps, Find(t) PROVE MainInv'
  BY <1>17 DEF Find
<1>18. ASSUME NEW t \in Apps, Write(t) PROVE MainInv'
  <2>1. keys'[Main] = NULL <=> keys[Main] = NULL
    BY <1>18, WriteEffect
  <2>2. QED
    BY <1>18, <2>1 DEF Write, SetterReturns
<1>19. ASSUME NEW t \in Apps, FileLine(t) PROVE MainInv'
  BY <1>19 DEF FileLine
<1>20. ASSUME NEW t \in Apps, Unlock(t) PROVE MainInv'
  BY <1>20 DEF Unlock
<1>21. CASE Start
  BY <1>21 DEF Start
<1>22. CASE HandleFind
  BY <1>22 DEF HandleFind
<1>23. CASE Handle
  BY <1>23 DEF Handle
<1>24. CASE Update
  BY <1>24 DEF Update, Reread
<1>25. CASE EditFile
  BY <1>25 DEF EditFile
<1>26. CASE UNCHANGED vars
  BY <1>26 DEF vars
<1>27. QED
  BY <1>1, <1>2, <1>3, <1>4, <1>5, <1>6, <1>7, <1>8, <1>9, <1>10, <1>11, <1>12, <1>13,
     <1>14, <1>15, <1>16, <1>17, <1>18, <1>19, <1>20, <1>21, <1>22, <1>23, <1>24, <1>25,
     <1>26
     DEF Next, AppCall, AppStep, PushStep, LoadStep, WorkerStep, Rest

(* After the one config() there always is an entry of "main", by whatever  *)
(* path config() came to its end and whatever the text was.                *)
THEOREM MainStaysKnown ==
  ASSUME Reloaders = {}, MaxLoads <= 1
  PROVE  Spec => []MainIsKnown
<1> DEFINE Inv == TypeInv /\ ConfigAlone /\ MainInv
<1>1. Init => Inv
  BY InitTypes, InitAlone, InitMain
<1>2. Inv /\ [Next]_vars => Inv'
  BY NextTypeInv, NextAlone, NextMain
<1>3. Inv => MainIsKnown
  BY DEF MainInv, MainIsKnown
<1>4. QED
  BY <1>1, <1>2, <1>3, PTL DEF Spec
===========================================================================
