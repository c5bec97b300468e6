-------------------------- MODULE KeyRegistryProps --------------------------
(***************************************************************************)
(* The properties of KeyRegistry.  Which of them hold depends on who loads *)
(* a configuration while other threads use the logger.                     *)
(***************************************************************************)
EXTENDS KeyRegistry

(* Every variable and every local holds a value of its type.               *)
Labels == LoadLabels \cup
  {"none", "idle", "prepush", "enter", "push_find", "push_use", "find", "write",
   "fileline", "unlock", "loop", "handle"}

TypeOK ==
  /\ keys \in [Keys -> Entries \cup {NULL}]
  /\ gen \in Nat
  /\ keysMtx \in Threads \cup {NULL}
  /\ checksum \in Nat
  /\ path \in BOOLEAN
  /\ file \in Contents \cup {Missing}
  /\ active \in BOOLEAN
  /\ pending \subseteq Keys
  /\ asked \in [Keys -> [level : Levels, gen : Nat, entering : BOOLEAN] \cup {NULL}]
  /\ undefined \in BOOLEAN
  /\ calls \in [Apps -> 0..MaxCalls]
  /\ loads \in 0..MaxLoads
  /\ pc \in [Threads -> Labels]
  /\ ret \in [Threads -> Labels]
  /\ it \in [Threads -> (Keys \X Nat) \cup {NULL}]
  /\ msg \in [Threads -> (Keys \X Levels) \cup {NULL}]
  /\ want \in [Threads -> Settings \cup {NULL}]
  /\ src \in [Threads -> Contents \cup {NULL}]

---------------------------------------------------------------------------
(* No iterator of the map is used after the entry it points to was erased: *)
(* push(), the setters and the worker keep theirs beyond _keys_mtx.        *)
NoStaleIterator == \A t \in Threads : it[t] # NULL => Valid(it[t])

(* The worker's own iterator never is: between finding the key of a record *)
(* and being done with it, the worker does not update.                     *)
WorkerIteratorIsGood == it[Worker] # NULL => Valid(it[Worker])

(* Once config() has returned, the logger knows the key "main".            *)
Configuring(t) ==
  \/ pc[t] \in {"main_ensure", "main_reset", "main_enter"}
  \/ pc[t] \in {"load", "clear", "assign"} /\ ret[t] = "main_ensure"

MainIsKnown ==
  path /\ Free /\ (\A t \in Apps : ~Configuring(t)) => keys[Main] # NULL

(* The key has the level that setlevel() was last called with.             *)
HasLevelAsked(k) == keys[k] # NULL /\ keys[k].level = asked[k].level

(* A level given by setlevel() stands, whatever is pushed meanwhile, until *)
(* a configuration is loaded; unless push() was just entering the key.     *)
SetLevelStands ==
  ~undefined =>
    \A k \in Keys :
      asked[k] # NULL /\ asked[k].gen = gen /\ ~asked[k].entering => HasLevelAsked(k)

---------------------------------------------------------------------------
(* A thread that takes _keys_mtx finds every key that all configurations   *)
(* name: it never sees the map between clear() and the assignment.         *)
InAll ==
  {k \in Keys : \A c \in Contents : Parsed[c] # NULL => Parsed[c][k] # NULL}

NeverHalfLoaded == gen > 0 /\ Free => \A k \in InAll : keys[k] # NULL

(* The keys a configuration has given (but for "main", which config may    *)
(* replace).                                                               *)
FromFile(es) == {k \in Keys \ {Main} : es[k] # NULL /\ es[k].fromfile}

Skips(t) == pc[t] = "load" /\ pc'[t] \notin {"load", "clear"} /\ Parsed[src[t]] # NULL

(* A text that parses is skipped as unchanged only when it is the one in   *)
(* force: the keys marked fromfile are those it names.                     *)
SkippedIsInForce ==
  [][\A t \in Threads : Skips(t) => FromFile(keys) = FromFile(Parsed[src[t]])]_vars

(* What really holds: the text in force is one with the same sum of bytes. *)
(* It is not one that was refused as empty since, nor one of before that.  *)
SkippedSumInForce ==
  [][\A t \in Threads :
       Skips(t) => \E c \in Contents : /\ Parsed[c] # NULL /\ Sum[c] = Sum[src[t]]
                                       /\ FromFile(keys) = FromFile(Parsed[c])]_vars

---------------------------------------------------------------------------
(* However many threads use and reload the registry, it behaves like the   *)
(* one map of KeyMap, as long as no setter meets an entry that a load took *)
(* away: a load takes effect as a whole when clear() is called, a push     *)
(* enters a key only if it is new and then with the values it should have, *)
(* and a setter alters the one field of its key or nothing, also of a map  *)
(* that is half copied.                                                    *)
At(label) == {t \in Threads : pc[t] = label}
The(label) == CHOOSE t \in At(label) : TRUE

\* Where a map is being copied, or an entry is inserted and not assigned, it
\* counts as done; an entry that is copied already counts as it is.
CopiedMap(t) == [k \in Keys |-> IF keys[k] = NULL THEN Parsed[src[t]][k] ELSE keys[k]]
EnteredMap(t) == [keys EXCEPT ![msg[t][1]] = DefaultEntry]
MainMap == [keys EXCEPT ![Main] = MainEntry]

Settled ==
  IF At("assign") # {} THEN CopiedMap(The("assign"))
  ELSE IF At("enter") # {} THEN EnteredMap(The("enter"))
  ELSE IF At("main_enter") # {} THEN MainMap
  ELSE keys

OneSetting ==
  {s \in Entries \X Entries :
     s[1].fromfile = s[2].fromfile /\ (s[1].level = s[2].level \/ s[1].enable = s[2].enable)}

Registry == INSTANCE KeyMap WITH
  Nothing     <- NULL,
  Texts       <- {Parsed[c] : c \in {c \in Contents : Parsed[c] # NULL}},
  Default     <- DefaultEntry,
  MainDefault <- MainEntry,
  Alters      <- OneSetting,
  map         <- Settled,
  broken      <- undefined

ImplementsMap == Registry!Spec

---------------------------------------------------------------------------
(* Every call of the interface returns: no thread waits for _keys_mtx that *)
(* it holds itself, and a load always gives the mutex back.                *)
CallsReturn == \A t \in Apps : pc[t] # "idle" ~> pc[t] = "idle"

(* What holds: each call returns, or a setfileLine() of an unknown key has *)
(* logged that with _keys_mtx locked and waits for the mutex it holds.  No *)
(* other call, no load and no record of the worker keeps the mutex.        *)
LocksItself(t) == active /\ keysMtx = t /\ pc[t] = "prepush"

OthersReturn ==
  \A t \in Apps : pc[t] # "idle" ~> pc[t] = "idle" \/ \E u \in Apps : LocksItself(u)
===========================================================================
