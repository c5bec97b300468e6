# log4x in TLA+

log4x is a small asynchronous logger: threads of an application format records
into buffers and queue them, one worker thread takes them from the queue and
writes them to the screen and to one file per key. Keys ("main" and others)
have levels, files and limits, read from an ini file that the worker reloads
when it changes. The code is `src/log4x.cpp` with `src/thread.*`,
`src/semaphore.*`, `src/file.h` and `src/stream.h`.

## 1. Inventory

| part | state | operations | what makes it correct |
|---|---|---|---|
| buffer path (`prepush`, `make`, `push`, `pop`, `free`) | `_pool`, `_logs`, `_cache`, their mutexes | a thread takes a buffer, fills it, queues it; the worker swaps the queues, pops, handles, frees | a buffer has one owner; one FIFO; nothing accepted is lost; the pool stays small; `push` returns |
| worker loop (`run`) | `fflags`, `lastupd` | log a banner, post the semaphore, drain, flush, leave or reload, sleep 50 ms | leaves only when asked and when the queue is empty; `stop` returns |
| life of the worker (`Thread`, `start`, `stop`, destructor) | `_active`, `_t`, `_mutex` | `start`, `stop`, `entry` | one worker; no `std::terminate`; `start` means ready, `stop` means gone |
| `Semaphore` | `_count` | `post`, `wait` with a time-out | a token is taken once, by the `start` that it is for |
| key registry (`config`, `configFromString`, `update`, setters, `isff`) | `_keys`, `_keys_mtx`, `_path`, `_checksum` | load, reload, enter an unknown key, set a field, find | who takes the lock never sees it half loaded; no iterator is used after its entry is gone; settings stand; an edited file is loaded |
| parser (`parse`, `split`, `trim`) | the current key, the entries so far | text to entries, line by line | an entry is what the last line says that sets each field, whatever the order of sections |
| log files (`open`, `File`, the writing and the sweep of `run`) | `fhandle`, `ftime`, `flen`, `findex`, `history`, `fflags`, the files | open, roll by day and by size, remove old files, write, flush, close | a file is of one day and keeps its limit; the open file is not removed; what is stored stays; what is written gets stored |
| record text (`make`'s header, `push`'s suffix, `Stream`) | buffer and length | write strings, characters, numbers, containers | nothing is written beyond the buffer; a record ends in CR LF NUL; integers are whole |
| screen output, process and directory helpers | none | calls of the operating system | - |

The parts meet in shared state: application threads and the worker share the
queue, the pool and the registry; the worker runs `prepush`, `make` and `push`
itself (its banner, its errors), so every hazard of the producers is its own.
`start` and `stop` talk to the worker through `_active`, the semaphore and
`join`. The hard behaviours are the interleavings around the locks: much is read
without one (`_active`, `_logs.empty()`, `_pool.size()`, the whole map in the
setters), iterators outlive `_keys_mtx`, `prepush` sleeps with `_logs_mtx` held,
`stop` joins with `_mutex` held, `start` gives up after three seconds, and the
worker replaces the registry while others use it. Nothing is persisted that a
restart of the process reads back, and there is no network. `PROJECT.json` lists
the hazards at their lines.

## 2. Modules

| module | models |
|---|---|
| `LogService` | what the logger promises, without buffers, locks or double queue: one FIFO, a record in hand, a phase (down, up, draining) |
| `LogQueue` | the buffer path and the worker loop |
| `LogQueueProps` | their properties and the refinement of `LogService` |
| `LogQueue_proofs` | TLAPS proofs about `LogQueue` |
| `LogService_proofs` | the proof that `LogQueue` implements `LogService` |
| `WorkerThread` | `Thread`, `Semaphore`, `log4x::start`, `stop`, destructor, and the properties |
| `WorkerThread_proofs` | TLAPS proofs about `WorkerThread` |
| `KeyRegistry`, `KeyRegistryProps` | the registry and the threads that use it, and the properties |
| `KeyMap` | what the registry promises: one map, replaced, extended or altered in one step at a time |
| `KeyRegistry_proofs` | TLAPS proofs about `KeyRegistry`, and that it implements `KeyMap` |
| `FileRoll`, `FileRollProps` | the files of one key: `open`, the writing and the sweep of `run`, with the clock, setters, loads and faults; and the properties |
| `LogStore` | what the files of a key promise: one is open, records wait in its buffer and get to disk in order |
| `FileRoll_proofs` | TLAPS proofs about `FileRoll` |
| `LogStore_proofs` | the proof that `FileRoll` implements `LogStore` |
| `LogRecord`, `LogRecordProps` | the text of one record in its buffer, and the properties |
| `LogRecord_proofs` | TLAPS proofs about `LogRecord` |
| `ConfigText`, `ConfigTextProps` | the parser, and what a text means as a whole |
| `ConfigText_proofs` | TLAPS proofs about `ConfigText`: types, and that it reads what a text means |
| `MCLogQueue`, `MCWorkerThread`, `MCKeyRegistry`, `MCFileRoll`, `MCLogRecord`, `MCConfigText` | instances for TLC |

An operator whose comment begins with *Slip* is not part of a specification: it
is an action as a plausible mistake would have it, kept beside the right one and
named in `PROJECT.json` with the property that notices it.

### LogQueue and LogService

An action runs from one access of shared state to the next. `pc[t]` is the place
of thread `t` in `push()`; `ret[t]` is where `push` or `free` returns, which is
how the worker runs the same actions as a producer. `log[t]` is the local
pointer, `rec[b]` the record in buffer `b`, named by its thread and the number
of its call. `heap` holds the addresses that malloc can return, so a leak or a
double free is a buffer in no place or in two.

* `prepush` is `Prepush`, `Throttle` and `Wake`. `Throttle` keeps `logsMtx` while
  the thread sleeps, as the code does; `Rate` is the percentage that decides.
  The test after the sleep's `rand()` is redundant (the size cannot change under
  the lock) and is folded into it.
* `free` is `FreeCheck`, the unlocked test, and `PoolAdd`. The test races with
  another thread's `push_back`, which may be moving the vector: while a thread
  is at `pool_add` the heap branch is open whatever the size. The opposite
  misreading, a size below the limit while the pool is full, takes a vector that
  grows beyond its limit of 200, and the capacity then is 256: with fewer than
  56 threads it is never moved at such a size.
* `run` is the `Worker...` actions; `!_active && _logs.empty()` is two actions
  because it is two reads.
* The registry's verdict (unknown, disabled or filtered) is a free choice here.

The abstraction function puts `cache \o logs` for the queue, the worker's buffer
while it is being handled for `current`, and for the phase what the worker's
place and `_active` say. A producer may append after the worker has left: the
code allows it, `LogService!Accept` says so, and the record waits for the next
`start`.

`DrainingShrinks` is what the return of `stop` rests on. While `stop` waits, the
records queued and the threads past the second test of `_active` in `push`
together never become more, however often a full queue makes threads sleep in
`prepush` and however often the worker itself logs.

### WorkerThread

A critical section of `_mutex` is one action except for `stop`, which holds it
across `join`. `handle` is the thread `_t` can join; assigning to it, or
destroying it, while it is not 0 is `std::terminate`, after which the process is
over. `count` is the semaphore's counter; `SemWait` either takes a token or,
when `Timeouts` is set and there is none, gives up; `gaveUp` counts the waits
that did. `AwaitedComes` is the safety behind `CallsReturn`, in two parts: the
worker that `stop` joins has `entry` and its need of `_mutex` behind it
(`JoinedCanLeave`), and the tokens that are there or will be posted are one for
each `start` that waits and one for each that gave up (`TokenBalance`). So a token
comes for whoever waits; a `start` after one that gave up may find a token that
was meant for the other, and return before its own worker is ready. The code
allows that, and no property here forbids it.

`StopMeansStopped` is about any number of controllers: a `stop` that returns leaves
no worker that has begun. One may be left that has not, after a `start` that gave
up, since `_active` is false until the new thread sets it; the worker then comes up
after the `stop`. `NeverAborts` and `StartedIsReady` hold for one controller and no
time-out, and are theorems only.

### KeyRegistry

`keys` is the map, `gen` counts its clears, and an iterator is a key with the
`gen` of its `find`. `keysMtx` is a variable because some holders keep the mutex
between steps: a load, between `clear()` and the end of the copy; a push that
enters a key, and `config` that enters "main", between the insertion and the
assignment of `_keys[key] = val` (`PrepushNew` and `Enter`, `EnsureMain` and
`EnterMain`); and `setfileLine`, while it logs. Whoever takes the mutex waits for
them; the setters do not, and meet the map half copied or an entry with the
values of its constructor. `_keys = values` is entry by entry (`Copy`). The
library may as well build the new tree first and attach it as a whole; the steps
of `Copy` include what the setters see then, nothing until the last of them.

The setters share `Find` and `Write`: they differ in the field, and all but
`enable` and `setlevel` set (or, in `isff`, read) one that no modelled step tests.
A write through an iterator whose entry is gone is undefined in C++: it goes to a
freed node of the map, which may have been used again for an entry of any key.
So it may show in any entry that is there, or in none, and `undefined` remembers
that it happened. A read through one gives any value. `asked` remembers, for the
properties only, what `setlevel` last did to each key.

`Start` includes the worker's banner, since its `prepush` enters the key "main".
`pending` is the set of keys of queued records; the queue itself is `LogQueue`'s
business. What a text means (`Parsed`) and its checksum (`Sum`) are constants, and
texts may have the same sum. A thread outside `Reloaders` loads a configuration
before `start()`, while no other uses the logger, as the test program does; `stop`
is left out here, because it touches nothing of the registry. The counter of
clears is bounded in `Reread` (`MaxClears`), the calls in `Call` (`MaxCalls`) and
`CallLoad` (`MaxLoads`). `Rest` is the worker asleep with no call under way.

`KeyMap` is the registry as its users would like it: one map. The mapping
(`Settled`) shows a map that is being copied as copied, and an entry that is being
assigned as assigned: a load takes effect at `clear()`, a push that enters a key
when it inserts it. A setter that meets the map half way shows as an alteration
of the entry, before or after the step it met, or as none. Only loads remove keys,
a push enters only a key that is not there, with the values it should have, a
setter changes one field of an entry that is. Once something went through a
dangling iterator (`broken`), nothing is promised any more.

### FileRoll

Time counts seconds, in which `open` compares ages, and a record is the time it
was made. A file is named after the `Minute` of the record it is opened for: a
path is a directory, a minute and an index, and `MinuteLength` and `DayMinutes`
make minutes of seconds and days of minutes. A file is the sequence of its
records, each of length one, and `synced` says how many of the open file's have
left the buffer of its `FILE`: stdio may write them out at any write, and `flush`
and `close` write all. `open` is four actions: refused (the settings changed since
`run` looked), kept, opened anew, failed. `OpenFile` does in one action what `open`
does between reading the settings and returning; the setters, which take no lock,
come before or after it. Of the files it removes some may stay on disk, which
counts as a fault; `open` does not look at the result, and the history is cut all
the same. `run`'s write has three outcomes: all of it, nothing because no file is
open any more, or short, upon which `File::write` closes the file. `Sweep` and
`SweepClose` are the two tests of `enable` in the loop that flushes, because
`enable` may change between them. For a key that is disabled and enabled again
between the two tests the sweep does nothing in that turn; its flag stays and the
next turn flushes it.

`Set` is any setter, `Reset` a second `config()`, which overwrites the entry of
"main" and leaks its `FILE`, and `Update` the worker's reload, after which the
destructor of the old entry has closed the file. A load by an application thread
while the worker uses an entry is not repeated here: it invalidates iterators as
`KeyRegistry` shows.

`LogStore` has neither length nor index, history or flag. The mapping splits each
file at `synced`: what is before is stored, what is behind is the buffer. Closing
a file empties the buffer onto disk; only a mishap (a changed setting or a fault,
counted by `changes` and `faults`) may lose a buffer or drop a record in hand.
A file that disappears is named for an earlier minute than the one being opened.

`FileAssumption` supposes nothing about ages: files are kept for any number of
seconds, 0 being for ever. `Lag` is the longest time from the making of a record to
its writing. `OpenIsThere` and the store's `Older` are about ages that cover both
the minute of a name and the lag (`ReserveCoversMinute`); shorter ones, which
`setReserve` accepts from thirty seconds on, break them (section 3).

### LogRecord

A byte is a symbol: text, digit, last digit of a number, half a separator, CR,
LF, NUL, or whatever was there before. A writer of `Stream` is an operator from
the output so far to the next, each with its own test of the room that is left:
`PutString` fills the buffer to the last byte, `PutChar` leaves one, `PutDigits`
wants `Cache` (64) bytes and `PutGcvt` thirty. `cut` remembers that something was
left out. A container is written by `ContainerBegin`, its elements (any writes,
other containers among them), `ContainerElement`, `ContainerMore` after `Depth`
elements, and `ContainerEnd`, which steps back over the last separator; the
templates for vector, list, deque, queue and map are the same.

`IntegersWhole` is about the integers that a `Stream` writes and the doubles that
`gcvt` formats. It is not about numbers in a format: `vsnprintf` ends the text
where the buffer ends, in the middle of a number too (`log4x.cpp:999`), so they are
text to the model. Nor is it about doubles that `writeDouble` writes in two parts
(`stream.h:434-449`): it asks for thirty bytes and the parts for sixty-four each, so
12.75 may come out as "12.", and both parts are text as well.

### ConfigText

A text is a sequence of lines, a line a sequence of tokens: the characters that
`parse` looks for, blanks, the byte order mark, and words. Each action is what
one line does. `ConfigTextProps!LastLineWins` says the same of the whole text
without state: which lines set a field, and that the last of them counts. Levels
and defaults in it are those of the code; `ListedLevelsCount` and
`MonthdirDefaultsToFalse`, together `CommentsHold`, say what the comments of
`test/log.ini` promise instead.

## 3. Runs

| run | instance | shows |
|---|---|---|
| `queue_safety` | 2 producers, 2 calls each, the worker 1, 5 buffers, pool limit 1, queue limit 2, 2 starts | types, `OneOwner`, `PoolBound`, `DrainingShrinks`, and that `LogService` is implemented |
| `queue_live` | the same with 1 call each, 3 buffers, queue limit 1 | `AcceptedIsHandled`, `StopReturns`, `PushReturns` |
| `thread_shared` | 2 controllers, time-outs, 4 threads created | types, `OneWorker`, `AwaitedComes`, `StopMeansStopped`, `CallsReturn` |
| `registry_reload` | 2 threads with 1 call, a reloading worker, 3 keys, 3 texts of which two have the same sum, 1 load, 2 clears | types, `NeverHalfLoaded`, `WorkerIteratorIsGood`, `SetLevelStands`, `SkippedSumInForce`, `OthersReturn`, and that `KeyMap` is implemented |
| `files` | 1 directory, limits negative or 1, kept for ever or 2 seconds, 1 file reserved, minutes of 2 seconds, days of 2 minutes, records up to 1 second late; 3 records, 3 seconds, 2 changes, 1 fault | types, `DayPure`, `UnflushedIsFlagged`, `OpenIsThere`, `KeptWithinLimit`, `StoredStays`, `NoFileForgotten`, `WrittenIsStored`, and that `LogStore` is implemented |
| `record` | a buffer of 14, room of 5 for numbers and 4 for doubles, headers of 2 and 3, texts of 0 to 2 and 9 to 13, 4 values, 2 containers within each other | types, `WellFormed`, `IntegersWhole`, `CutIsFull`, `TextIsKept` |
| `config` | 14 lines, all texts of up to 4 of them | types, `LastLineWins` |

Why the bounds are enough: five buffers are one for each record that can be in
flight, so `malloc` never fails in the model (the code does not test it either);
with a pool limit of 1 two producers and the worker can all pass the size test
at once, which is where the bound is tight; a queue limit of 2 is exceeded by
the third record, so that both the chance of a sleep and (limit 1, three
records) the certain sleep happen; two starts let a record cross from one life
of the worker to the next. Three keys are one in all texts, one in some, and
"main"; the texts are a full one, a partial one with the same sum of bytes, and
an empty one that fails to parse, after which the other of the two is loaded.
Two clears are a text loaded and then replaced by the other. For the files,
three records are one to open a file, one to exceed a limit of one, and one to
open the next; three seconds from the last of a minute reach over the end of a
day of two minutes, with a record of the old day after one of the new; files are
removed within them, and the second opened exceeds the number reserved. Two
seconds are the shortest age that `ReserveCoversMinute` allows for these minutes
and this lag. Two changes disable a key and enable it again, one fault is met in
every place. A limit of 0, which rolls the file at each record, is left to the
theorem `FilesKeepTheLimit`, which is about any limit. The lengths of a record
are dense where the buffer ends and where the room for numbers does, for both
headers. Four lines are two sections, and two settings of the same field around
them. Producers, buffers and application threads are interchangeable, and the
safety runs use that as symmetry; runs with liveness do not. `record` and
`config` end when the record or the text does, and do not check deadlock;
`registry_reload` does not because `setfileLine` may block for ever (see
`registry_fileline`), and says so in `OthersReturn`.

Five runs end in a counterexample: what a comment, the test program or its
configuration says does not hold. The findings are in `PROJECT.json`:

| run | property | what happens |
|---|---|---|
| `thread_timeout` | `StartNeverAborts` | `start` times out before the new thread ran; the next `start` assigns to a joinable thread: `std::terminate` |
| `registry_fileline` | `CallsReturn` | `setfileLine` of an unknown key logs under `_keys_mtx`: it waits for itself |
| `registry_iterator` | `NoStaleIterator` | the hot update clears the map under iterators in use |
| `registry_sum` | `SkippedIsInForce` | a text with the same sum of bytes as the one in force is taken for unchanged |
| `config_ini` | `CommentsHold` | `test/log.ini` lists the level ALARM, which counts for nothing, and says that `monthdir` is off by default, which is on |

Each of the registry's three has a counterpart that the code keeps, in
`registry_reload`. Iterators do not stay good under a reload (`NoStaleIterator`), the
worker's own does if nobody else reloads (`WorkerIteratorIsGood`). A text skipped
need not be the one in force (`SkippedIsInForce`), its sum is
(`SkippedSumInForce`). A `setfileLine` of an unknown key does not return
(`CallsReturn`); while none does that, every other call returns (`OthersReturn`).

What the models show besides, with no property that forbids it:

* A level set by `setlevel` does not always stand. `_keys[key] = val`
  (`log4x.cpp:708`) inserts an entry and then assigns to it: a `setlevel` between the
  two finds the entry and returns 0, and the assignment puts back the default.
  `SetLevelStands` excepts a key that is just being entered (`entering`). The next
  load takes back every level that the program set (`log4x.cpp:365`), although the
  test program says `setlevel > fromfile` (`test/main.cpp:23`);
  `SetLevelStands` is about the levels set since the last load.
* A second `config` is refused with an error, and replaces the entry of "main" with
  its level, path and open file all the same (`log4x.cpp:315-322`). A hot update of
  a text that does not name "main" takes away the entry that `config` added.
* `open` compares ages in seconds (`log4x.cpp:1199`), and names files by the minute.
  With an age below `ReserveCoversMinute` a file opened again within its minute, or
  for a late record, stands in the history with the time it was first opened, and
  `open` may remove the file it has just opened. With `Reserves = {0, 1}` for
  `{0, 2}` in `FileRoll.cfg`, TLC finds `OpenIsThere` violated.
* A file is removed by the time it was *opened* (`log4x.cpp:1199`), so a file that
  stays open long, under its limit for a whole day, can be removed when it is
  closed with records in it that are younger than `reserve`; `StoredStays` says
  "opened", not "written".
* The `while` of the removal does not stop at `LOG4X_RESERVE_FILE_COUNT`: once
  there are more, all that are old enough go.
* A file whose removal fails leaves the history and is never removed
  (`log4x.cpp:1201-1202`), and so do those of an entry that a load replaces, or that
  are opened while `reserve` is 0; `NoFileForgotten` excludes all of these.
* The worker flushes only when it finds the queue empty; what a producer keeps
  ahead of stays in the buffer of the `FILE`, and a crash loses it.
* A text with settings and no section gives an empty map and the result 0, an
  empty text -1.

### Fairness

Weak fairness of the actions of a thread that is inside a call, of the worker
from its creation to its end, and of the `join` that waits for it: a running
thread is not preempted for ever. Nothing makes an application call `push`,
`start` or `stop`, the file change, or the worker reload. The mutexes are not
assumed fair; within the bounds each is contended for finitely often, so weak
fairness suffices. In the real system a producer could in principle be passed
over at a mutex by an endless stream of others; that is outside the runs.

## 4. Proofs

All theorems hold for every value of the constants allowed by the named
assumptions `QueueAssumption` (finitely many producers, the worker is not one,
a positive queue limit), `ThreadAssumption` (finitely many controllers),
`FileAssumption`, `RegistryAssumption`, `RecordAssumption` and `TextAssumption`, and
by the premises the theorem states.

* `LogQueue_proofs!TypeCorrect`. `TypeOK` alone is not inductive: that `push`
  appends a buffer needs that a thread at `append` holds one. `TypeInv` adds
  which places imply a buffer in hand (`LocalsOK`) and where the worker can be
  for each state of the controller (`CtlOK`).
* `EachBufferHasOneOwner`. `OneOwner` is inductive together with `TypeInv`: each
  action of `push`, the pop and the swap moves one buffer or one whole queue,
  and lemmas about `Front`, `Tail` and `Append` say what that does to the sets
  of elements.
* `PoolIsBounded`. A thread between the size test and the `push_back` must be
  counted as if its buffer were in the pool: `PoolInv` says that the pool and
  these threads together are at most `PoolMax` and the number of producers. The
  step that needs care is the test itself: it adds a thread to that number, but
  at that moment the pool is below its limit.
* `BacklogShrinks` (`DrainingShrinks`). That nobody gets past the test of
  `_active` while `stop` waits needs that nothing sets it again: only `entry`
  does, and `stop` found it set, so the worker is past `entry` (`StopInv`). A
  thread that appends leaves the set of those about to append, by one, as the
  queue grows by one.
* `WorkerThread_proofs!TypeCorrect`, `AtMostOneWorker`: whoever calls `start` and
  `stop`, while the process runs `_t` is the handle of every live worker
  (`HandleIsTheWorker`), so a `start` that finds it empty creates the only one.
* `StopLeavesNoneRunning` (`StopMeansStopped`): as long as nobody is in `join`, a
  live worker without `_active` has not begun (`IdleMeansNotBegun`), because only
  `stop` clears `_active`, and it keeps `_mutex` until that worker has left.
* `AloneNeverAborts`, `AloneStartedIsReady`: for one controlling thread and no
  time-out. `AloneInv` says which states of worker, `_active`, `_t` and semaphore go
  with each place of the controller. The premises are needed: `thread_timeout`
  shows one, and with two controllers a `start` may find the token of another.
* `NobodyWaitsInVain` (`AwaitedComes`), for any controllers, with time-outs.
  `JoinedCanLeave` needs that `_active` is set only by a worker that is past
  `entry` (`ActiveWorks`). `TokenBalance` is inductive: a `start` begins to wait in
  the step that creates a worker which will post, each post turns such a worker
  into a token, each wait that ends takes one token, or none and is counted in
  `gaveUp`; that is arithmetic on the sizes of two sets, hence the finite number of
  controllers.

* `FileRoll_proofs`: every safety and action property of `FileRollProps`, under
  `FileAssumption`; `OpenFileIsThere` also supposes `ReserveCoversMinute`. None is
  inductive. `FileInv` adds `EntryIsTrue` (the open file exists, its minute is that
  of `ftime`, its index `findex`, its length `flen`), `AgeOK` (no record is older
  than `Lag`), `HistoryOK` (a file was opened no earlier than the minute of its
  name), `DayOK` (the records of a file are of the day of its name) and `RightFile`
  (so is the record about to be written). `OpenFileIsThere` is the argument that
  meets them all: a file removed was opened more than `reserve` ago, so the last
  second of its minute is before any record (`RemovedAreOlder`, by the division in
  `Minutes`), so it is not the file of this record. `FilesKeepTheLimit` needs that
  rolling leads to another name: the index is one more than that of the open
  file. `NoFileIsForgotten` needs that the files removed are a prefix of the
  history (`Interval`), and that a path left out when the history is entered stands
  at its end (`EnteredInHistory`).

* `LogStore_proofs!FilesImplementStore`: every step of the files is one of the
  store. Lemmas about parts of sequences (`Segment`, `Adjacent`, `GrownRest`,
  `Parts`) say what moving `synced` does to disk and buffer (`WrittenBehind`,
  `AllBehind`). That a record is dropped only after a mishap needs a new invariant
  (`Unhurt`): with the settings unchanged and no fault the key wants its records,
  and a record about to be written has an open file. That what `open` removes is
  older than what it opens is the argument of `OpenFileIsThere` again, and supposes
  `ReserveCoversMinute` as well.

* `LogService_proofs!QueueImplementsService`: every step of the queue is one of
  the service or moves nothing that the service knows. Three facts are needed
  beyond ownership. The worker looks at `_logs` only with an empty `_cache`, and
  it is on its way out only after it found `_active` false (`WorkerAt`): so it
  quits with both queues empty, and only when asked. The buffer a thread is about
  to append holds the record of its present call (`Stamped`), and all other
  waiting records are of earlier calls (`Past`): so an accepted record is new.
* `KeyRegistry_proofs`: every safety and action property of the passing runs,
  with as many reloads as each can stand. `HoldsMutex` says that the threads in
  the middle of an assignment, or logging in `setfileLine`, hold `_keys_mtx`, so
  there is one at most.
  `MapIsNeverHalfLoaded` needs no premise: whoever finds the mutex free finds every
  key that all texts name (`LoadedKeys`).
  `RegistryImplementsMap` needs none either. There is one thread at most that the
  mapping looks at, so it is a function of the state (`SettledIs`); a key that is
  there while the map is being copied is one of the text, and one that is being
  entered is there (`CopyInv`). Each step is then either one of the map
  (`NextMaps`; for a setter, `WriteMaps`) or goes through a dangling iterator.
  `LevelsStand` needs none: a level asked for in this generation of the map is in
  its entry, because only the insertion of an entry, a load and a setter write one
  (`LevelsKept`); that an iterator is of no later generation than the map is the
  rest of the invariant (`AskedInTime`).
  `WorkerIteratorStaysGood` supposes that no application thread reloads. Then only
  the worker clears the map once it is up (`ConfigAlone`), and not between `find`
  and use.
  `OnlyTheSameSumIsSkipped` supposes the same and nothing of the sums. `_checksum`
  is assigned before the map is, so that sum and map agree (`SumInForce`) only if
  no two threads load at a time; a setter does not touch the mark that a key is
  from a file (`Marks`).
  `MainStaysKnown`, which no run checks, supposes that nobody reloads while the
  logger runs and that at most one text is loaded: a later load may drop the entry
  that `config` added.
  The properties that end in a counterexample have no theorem.
* `ConfigText_proofs!TextMeansItsLastLines`: `LastLineWins` for texts of any
  lines. What a text means is the largest of a set of line numbers (`Says`); what
  `parse` does is one line at a time. The induction is over the lines, as steps:
  the key `parse` keeps is that of the last section (`KeyIsLast`); keys known are
  those of sections (`KnownAreSections`), so no setting was read for a key that is
  not entered (`SettingsAreEntered`) and a new entry may begin with the defaults;
  each field is what the last line that sets it says (`FieldsAreLast`).
* `ConfigText_proofs!TypeCorrect`. `TypeOK` is inductive. What it costs is that
  `split` and `trim` cut within the line (`LeastIsIn`, `GreatestIsIn`): a set of
  intervals that is not empty has a smallest one, by a well-founded order.
* `LogRecord_proofs`: every safety and action property of `LogRecordProps`, for a
  buffer, headers, texts and containers of any length. `Whole` says that what lies
  before the next byte is printable, its numbers whole and ending before the last
  three bytes, which the end of the record may take. `Full` says that something
  was left out only if the rest is no longer than the room a number wants.
  One lemma for each writer shows that it keeps both and overwrites nothing
  (`Grows`). The step back of a container is the exception: it is right because a
  separator was just written or the buffer is full (`SepInv`,
  `EndsInSeparator`), so that it takes no digit and does not pass the header.

Only model-checked: everything under fairness (`AcceptedIsHandled`,
`StopReturns`, `PushReturns`, `CallsReturn`, `OthersReturn`, `WrittenIsStored`),
since liveness and `ENABLED` are beyond the prover. Every other property of a run
that passes is also a theorem, under the premises named above. The properties of
the runs that end in a counterexample have none.

## 5. Not modelled

* Synchronous output and the Windows variants: compiled out of the POSIX build.
* What is displayed, and the helpers that ask the operating system for names,
  directories and times.
* A setter called with a null key: it logs and then uses the null pointer, which
  is undefined. Likewise the unlocked traversal of the map while it is being
  rebalanced: what `find` returns to a setter, or `operator[]` to `open`, during an
  insertion; the models follow entries and iterators, not the tree.
* A text of NUL bytes only, whose sum is 0 without being empty.
* A load by an application thread while the worker runs, which invalidates the
  worker's iterator too (`Reloaders` allows it, no run does it).
* `close(key)`, which nothing calls; directories (`isdir`, `mkdir`), whose failure
  shows as a file that cannot be opened; errors of `fflush` and `fclose`, which
  the code does not look at; the last sweep before the worker leaves, which is
  the same as any other.
* The digits of numbers and dates, the widths they are padded to, and the value
  of the smallest `long long`, whose negation overflows; `writeBinary`, a loop of
  writes that are modelled; the level's index into the table of names.
* The wording and the line numbers of the parser's warnings.

## 6. Plan

A composition of queue and registry, for what becomes of accepted records when a
key is disabled, filtered or reloaded between `push` and `run`.
