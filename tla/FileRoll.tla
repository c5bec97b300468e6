----------------------------- MODULE FileRoll -----------------------------
(***************************************************************************)
(* The log files of one key.  run() pops a record, open() chooses the file *)
(* it goes to (a new one when the day changes or the open one is over the  *)
(* limit, and then old ones are removed), run() writes it, and flushes or  *)
(* closes the file when the queue is empty.  Meanwhile the application     *)
(* changes the settings of the key, and the configuration is loaded anew.  *)
(*                                                                         *)
(* Time counts seconds, in which open() compares ages; a file is named     *)
(* after the minute of the record it is opened for.  A record is the time  *)
(* it was made.  A file is the sequence of the records written to it, each *)
(* one unit long; `synced' of those in the open file have left the buffer  *)
(* of its FILE.                                                            *)
(***************************************************************************)
EXTENDS Integers, Sequences, FiniteSets

CONSTANTS
  NULL,         (* no open file, no record                                 *)
  Dirs,         (* directories that path and monthdir lead to              *)
  Limits,       (* limitsize, negative where the text has a negative number*)
  Reserves,     (* ages after which files are removed; 0 keeps them        *)
  ReserveCount, (* LOG4X_RESERVE_FILE_COUNT                                *)
  MinuteLength, (* seconds of a minute                                     *)
  DayMinutes,   (* minutes of a day                                        *)
  Lag,          (* how old a record is at most when it is written          *)
  MaxRecords,   (* bound: records handled                                  *)
  MaxTime,      (* bound: seconds that pass                                *)
  MaxChanges,   (* bound: calls of setters, loads and resets of the entry  *)
  MaxFaults     (* bound: files that cannot be opened or removed, writes   *)
                (* cut short                                               *)

ASSUME FileAssumption ==
  /\ NULL \notin Int /\ NULL \notin Dirs \X Int \X Nat
  /\ Limits \subseteq Int /\ Reserves \subseteq Nat
  /\ ReserveCount \in Nat /\ Lag \in Nat
  /\ MinuteLength \in Nat \ {0} /\ DayMinutes \in Nat \ {0}
  /\ MaxRecords \in Nat /\ MaxTime \in Nat
  /\ MaxChanges \in Nat /\ MaxFaults \in Nat

VARIABLES
  conf,         (* the settings of the key's entry                         *)
  handle,       (* fhandle: the path of the open file, or NULL             *)
  ftime,        (* the time of the record the file was opened for          *)
  flen,         (* the length of the open file, as the entry counts it     *)
  findex,       (* the rolling index                                       *)
  history,      (* the files opened, <<time, path>>, oldest first          *)
  fflag,        (* fflags[key] of run()                                    *)
  files,        (* what each file on disk holds                            *)
  synced,       (* how many records of the open file are on disk           *)
  now,          (* time(NULL)                                              *)
  log,          (* the record run() handles, or NULL                       *)
  pc,           (* the place of the worker in run()                        *)
  taken, changes, faults

entry == <<handle, ftime, flen, findex, history>>
disk == <<files, synced>>
counts == <<taken, changes, faults>>
vars == <<conf, entry, fflag, disk, now, log, pc, counts>>

Confs ==
  [enable : BOOLEAN,  (* enable                                            *)
   pass : BOOLEAN,    (* whether level lets the records pass               *)
   outfile : BOOLEAN, dir : Dirs, limit : Limits, reserve : Reserves]

Minute(t) == t \div MinuteLength
DayOf(m) == m \div DayMinutes
Day(t) == DayOf(Minute(t))

Start == MinuteLength * DayMinutes
Times == (Start - Lag)..(Start + MaxTime)
Paths == Dirs \X {Minute(t) : t \in Times} \X Nat

\* An entry that is not switched off in any way, as one by default is.
Defaults == {c \in Confs : c.enable /\ c.pass /\ c.outfile}

Init ==
  /\ conf \in Defaults
  /\ handle = NULL /\ ftime = 0 /\ flen = 0 /\ findex = 0 /\ history = <<>>
  /\ fflag = FALSE
  /\ files = [p \in {} |-> <<>>] /\ synced = 0
  /\ now = Start
  /\ log = NULL
  /\ pc = "loop"
  /\ taken = 0 /\ changes = 0 /\ faults = 0

Tick ==
  /\ now < Start + MaxTime
  /\ log # NULL => now < log + Lag
  /\ now' = now + 1
  /\ UNCHANGED <<conf, entry, fflag, disk, log, pc, counts>>

---------------------------------------------------------------------------
(* What other threads do to the entry                                      *)

\* The setters; setlimit and setReserve raise a value that is too small.
Set ==
  /\ changes < MaxChanges
  /\ changes' = changes + 1
  /\ \E c \in Confs :
       /\ \E f \in DOMAIN conf : \A g \in DOMAIN conf \ {f} : c[g] = conf[g]
       /\ c.limit = conf.limit \/ c.limit > 0
       /\ c.reserve = conf.reserve \/ c.reserve > 0
       /\ c # conf
       /\ conf' = c
  /\ UNCHANGED <<entry, fflag, disk, now, log, pc, taken, faults>>

\* The entry is new; nothing remains of what it knew about its file.
NewEntry ==
  /\ changes < MaxChanges
  /\ changes' = changes + 1
  /\ handle' = NULL /\ ftime' = 0 /\ flen' = 0 /\ findex' = 0 /\ history' = <<>>

\* A second config() assigns a fresh entry to "main".  The FILE of the old
\* one is leaked: what it has buffered may stay unwritten.
Reset ==
  /\ NewEntry
  /\ \E c \in Defaults : conf' = c
  /\ \/ UNCHANGED files
     \/ /\ handle \in DOMAIN files
        /\ files' = [files EXCEPT ![handle] = SubSeq(@, 1, synced)]
  /\ synced' = 0
  /\ UNCHANGED <<fflag, now, log, pc, taken, faults>>

---------------------------------------------------------------------------
(* run() takes a record                                                    *)

\* The record waited for some time in the queue, and need not be younger than
\* the one before.  A record is freed at once if the key is disabled, its
\* level is too low, or the key writes no files.
Take ==
  /\ pc = "loop"
  /\ taken < MaxRecords
  /\ taken' = taken + 1
  /\ \E t \in (now - Lag)..now :
       IF conf.enable /\ conf.pass /\ conf.outfile
       THEN log' = t /\ pc' = "open"
       ELSE UNCHANGED <<log, pc>>
  /\ UNCHANGED <<conf, entry, fflag, disk, now, changes, faults>>

Dropped == log' = NULL /\ pc' = "loop"

---------------------------------------------------------------------------
(* open()                                                                  *)

Wanted == conf.enable /\ conf.outfile /\ conf.pass
SameDay == Day(log) = Day(ftime)
\* A negative limit is a huge one as a size_t.
OverLimit == conf.limit >= 0 /\ flen > conf.limit
Keeps == handle # NULL /\ SameDay /\ ~OverLimit
NextIndex == IF ~SameDay THEN 0 ELSE IF OverLimit THEN findex + 1 ELSE findex

\* Slip: the name is made of the present time.
PathOfNow == <<conf.dir, Minute(now), NextIndex>>

Path == <<conf.dir, Minute(log), NextIndex>>

OpenRefused ==
  /\ pc = "open"
  /\ ~Wanted
  /\ Dropped
  /\ UNCHANGED <<conf, entry, fflag, disk, now, counts>>

\* Slip: an open file is not compared with the day of the record.
OpenKeptByLength ==
  /\ pc = "open"
  /\ Wanted /\ handle # NULL /\ ~OverLimit
  /\ pc' = "write"
  /\ UNCHANGED <<conf, entry, fflag, disk, now, log, counts>>

OpenKept ==
  /\ pc = "open"
  /\ Wanted /\ Keeps
  /\ pc' = "write"
  /\ UNCHANGED <<conf, entry, fflag, disk, now, log, counts>>

TooMany == conf.reserve > 0 /\ Len(history) > ReserveCount

\* Slip: files are removed by their number alone.
ExpiredByCount == IF TooMany THEN 1..(Len(history) - ReserveCount) ELSE {}

\* The files at the front of the history that are older than reserve.
Expired ==
  {i \in 1..Len(history) : TooMany /\ \A j \in 1..i : history[j][1] < now - conf.reserve}
Removed == {history[i][2] : i \in Expired}

\* Slip: the history is cut to the number of files to reserve.
RemainingCut ==
  IF TooMany THEN Tail(history) ELSE history

Remaining == SubSeq(history, Cardinality(Expired) + 1, Len(history))
EnteredAs(p) ==
  IF conf.reserve > 0 /\ (Remaining = <<>> \/ Remaining[Len(Remaining)][2] # p)
  THEN Append(Remaining, <<now, p>>) ELSE Remaining

Contents(p) == IF p \in DOMAIN files THEN files[p] ELSE <<>>

\* Slip: the file is opened with "wb".
DiskWithEmpty(p, gone) ==
  [q \in (DOMAIN files \cup {p}) \ gone |-> IF q = p THEN <<>> ELSE files[q]]

DiskWith(p, gone) == [q \in (DOMAIN files \cup {p}) \ gone |-> Contents(q)]

\* Slip: the length begins at zero also for a file that exists.
OpenOnZero(p) ==
  /\ handle' = p
  /\ ftime' = log
  /\ findex' = NextIndex
  /\ flen' = 0
  /\ synced' = Len(Contents(p))

OpenOn(p) ==
  /\ handle' = p
  /\ ftime' = log
  /\ findex' = NextIndex
  /\ flen' = Len(Contents(p))
  /\ synced' = Len(Contents(p))

\* The files to remove that are there, of which some may stay on disk: the
\* history is cut all the same.
Removable == Removed \cap (DOMAIN files \cup {Path})
Gone == {gone \in SUBSET Removable : gone = Removable \/ faults < MaxFaults}
Failures(gone) == IF gone = Removable THEN 0 ELSE 1

\* The old file, if one is open, is closed; the new one is opened to append;
\* then the files at the front of the history go, if they are too many and
\* as long as they are old; then the new one enters it.
OpenFile ==
  /\ pc = "open"
  /\ Wanted /\ ~Keeps
  /\ OpenOn(Path)
  /\ \E gone \in Gone :
       /\ files' = DiskWith(Path, gone)
       /\ faults' = faults + Failures(gone)
  /\ history' = EnteredAs(Path)
  /\ pc' = "write"
  /\ UNCHANGED <<conf, fflag, now, log, taken, changes>>

\* Slip: the record is not freed.
OpenFailsKeepsRecord ==
  /\ pc = "open"
  /\ Wanted /\ ~Keeps
  /\ faults < MaxFaults
  /\ faults' = faults + 1
  /\ handle' = NULL
  /\ synced' = 0
  /\ ftime' = log
  /\ flen' = 0
  /\ findex' = NextIndex
  /\ conf' = [conf EXCEPT !.outfile = FALSE]
  /\ pc' = "loop"
  /\ UNCHANGED <<history, fflag, files, now, log, taken, changes>>

\* The old file is closed, the new one cannot be opened: outfile is cleared.
OpenFails ==
  /\ pc = "open"
  /\ Wanted /\ ~Keeps
  /\ faults < MaxFaults
  /\ faults' = faults + 1
  /\ handle' = NULL
  /\ synced' = 0
  /\ ftime' = log
  /\ flen' = 0
  /\ findex' = NextIndex
  /\ conf' = [conf EXCEPT !.outfile = FALSE]
  /\ Dropped
  /\ UNCHANGED <<history, fflag, files, now, taken, changes>>

---------------------------------------------------------------------------
(* run() writes it                                                         *)

\* The entry counts the record whatever became of it.
Counted ==
  /\ flen' = flen + 1
  /\ fflag' = TRUE
  /\ Dropped
  /\ UNCHANGED <<conf, ftime, findex, history, now, taken, changes>>

\* The record goes to the buffer of the FILE, and as much of the buffer to
\* disk as stdio sees fit.
Write ==
  /\ pc = "write"
  /\ handle \in DOMAIN files
  /\ files' = [files EXCEPT ![handle] = Append(@, log)]
  /\ \E n \in synced..(Len(files[handle]) + 1) : synced' = n
  /\ Counted
  /\ UNCHANGED <<handle, faults>>

\* No file is open any more, or the open one has been removed.
WriteNowhere ==
  /\ pc = "write"
  /\ handle \notin DOMAIN files
  /\ Counted
  /\ UNCHANGED <<handle, files, synced, faults>>

\* fwrite() falls short: the file is closed, and what did not get to disk is
\* lost, this record at least.
WriteShort ==
  /\ pc = "write"
  /\ handle \in DOMAIN files
  /\ faults < MaxFaults
  /\ faults' = faults + 1
  /\ \E n \in synced..Len(files[handle]) : files' = [files EXCEPT ![handle] = SubSeq(@, 1, n)]
  /\ handle' = NULL
  /\ synced' = 0
  /\ Counted

---------------------------------------------------------------------------
(* The queue is empty: run() flushes or closes, and perhaps updates        *)

\* A file is flushed with fflush or fclose.
Synced == synced' = IF handle \in DOMAIN files THEN Len(files[handle]) ELSE synced

\* Slip: the flag of a disabled key is cleared without flushing.
SweepForgets ==
  /\ pc = "loop"
  /\ IF conf.enable /\ fflag THEN Synced ELSE UNCHANGED synced
  /\ fflag' = FALSE
  /\ pc' = "close"
  /\ UNCHANGED <<conf, entry, files, now, log, counts>>

\* Slip: only a key that still writes to files is flushed.
SweepOutfile ==
  /\ pc = "loop"
  /\ IF conf.enable /\ conf.outfile /\ fflag
     THEN Synced /\ fflag' = FALSE
     ELSE UNCHANGED <<synced, fflag>>
  /\ pc' = "close"
  /\ UNCHANGED <<conf, entry, files, now, log, counts>>

\* The first test of enable, of a key that is flagged.
Sweep ==
  /\ pc = "loop"
  /\ IF conf.enable /\ fflag
     THEN Synced /\ fflag' = FALSE
     ELSE UNCHANGED <<synced, fflag>>
  /\ pc' = "close"
  /\ UNCHANGED <<conf, entry, files, now, log, counts>>

\* The second test of enable; the flag stays.
SweepClose ==
  /\ pc = "close"
  /\ IF ~conf.enable /\ fflag
     THEN handle' = NULL /\ synced' = 0
     ELSE UNCHANGED <<handle, synced>>
  /\ pc' = "turn"
  /\ UNCHANGED <<conf, ftime, flen, findex, history, fflag, files, now, log, counts>>

\* update() replaces the entry: the destructor of its File closes the file.
Update ==
  /\ pc = "turn"
  /\ NewEntry
  /\ \E c \in Confs : conf' = c
  /\ synced' = 0
  /\ pc' = "loop"
  /\ UNCHANGED <<fflag, files, now, log, taken, faults>>

Rest ==
  /\ pc = "turn"
  /\ pc' = "loop"
  /\ UNCHANGED <<conf, entry, fflag, disk, now, log, counts>>

Worker ==
  \/ Take
  \/ OpenRefused \/ OpenKept \/ OpenFile \/ OpenFails
  \/ Write \/ WriteNowhere \/ WriteShort
  \/ Sweep \/ SweepClose \/ Update \/ Rest

Next == Tick \/ Set \/ Reset \/ Worker

Spec == Init /\ [][Next]_vars

\* The operating system runs the worker.
FairSpec == Spec /\ WF_vars(Worker)
===========================================================================
