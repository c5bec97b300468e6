--------------------------- MODULE FileRollProps ---------------------------
(***************************************************************************)
(* What the files of a key promise.                                        *)
(***************************************************************************)
EXTENDS FileRoll

\* Every variable of FileRoll has its type: in particular the length and the
\* index that open() computes with, and the files run() writes to.
TypeOK ==
  /\ conf \in Confs
  /\ handle \in Paths \cup {NULL}
  /\ ftime \in Int /\ flen \in Nat /\ findex \in Nat
  /\ history \in Seq(Int \X Paths)
  /\ fflag \in BOOLEAN
  /\ DOMAIN files \subseteq Paths
  /\ \A p \in DOMAIN files : files[p] \in Seq(Times)
  /\ synced \in Nat
  /\ now \in Start..(Start + MaxTime)
  /\ log \in Times \cup {NULL}
  /\ pc \in {"loop", "open", "write", "close", "turn"}
  /\ (pc \in {"open", "write"}) <=> (log # NULL)
  /\ taken \in 0..MaxRecords /\ changes \in Nat /\ faults \in Nat

\* A file holds the records of one day, although records are handled late
\* and out of order, files are opened again, and loads forget ftime: open()
\* compares the day of the record with ftime.
DayPure ==
  \A p \in DOMAIN files : \A i, j \in DOMAIN files[p] :
    Day(files[p][i]) = Day(files[p][j])

\* Whatever is only in the buffer of a FILE will be flushed by a turn of
\* run(), because the flag of the key says so.
UnflushedIsFlagged ==
  handle \in DOMAIN files /\ synced < Len(files[handle]) => fflag

\* The ages that cover the minute a file is named after and the delay of its
\* records.
ReserveCoversMinute == \A r \in Reserves : r = 0 \/ r >= Lag + MinuteLength - 1

\* The file that records are written to is not one that open() removed as
\* old: a path that was opened again may stand in the history twice.  It is
\* so only for ages that ReserveCoversMinute.
OpenIsThere == handle # NULL => handle \in DOMAIN files

\* open() goes on with the open file for another record only if that file is
\* within the limit: flen is true to the file after appending to an old one,
\* after a load, and after a write that fell short.
KeptWithinLimit ==
  [][pc = "open" /\ pc' = "write" /\ handle' = handle /\ handle \in DOMAIN files
       => conf.limit < 0 \/ Len(files[handle]) <= conf.limit]_vars

OnDisk(p) == IF p = handle THEN synced ELSE Len(files[p])

\* A record that reached the disk stays where it is, unless its file is
\* removed as a whole, as one opened longer than `reserve' ago.
StoredStays ==
  [][\A p \in DOMAIN files :
       IF p \in DOMAIN files'
       THEN /\ OnDisk(p) <= Len(files'[p])
            /\ \A i \in 1..OnDisk(p) : files'[p][i] = files[p][i]
       ELSE /\ conf.reserve > 0
            /\ \E i \in DOMAIN history : history[i][2] = p /\ history[i][1] < now - conf.reserve]_vars

\* The directory does not fill with files that nothing will remove: while no
\* file withstands its removal, and nobody changes the settings or loads them
\* anew, every file on disk stands in the history.
NoFileForgotten ==
  changes = 0 /\ faults = 0 /\ conf.reserve > 0 =>
    \A p \in DOMAIN files : \E i \in DOMAIN history : history[i][2] = p

\* What is written to a FILE gets to disk, or is lost with the FILE, also
\* when the key is disabled, or its output switched off, in the meantime.
WrittenIsStored ==
  (handle \in DOMAIN files /\ synced < Len(files[handle]))
    ~> (handle \notin DOMAIN files \/ synced = Len(files[handle]))

---------------------------------------------------------------------------
\* The files of a key behave like LogStore: while nothing fails and no setting
\* changes, every record that run() takes gets to disk, once, in the order of
\* writing within its file, in a file of its day; open(), the sweep, a write
\* and a reload close files without losing a buffer; and open() removes only
\* files named for an earlier minute than the one it opens, where the ages
\* ReserveCoversMinute.
InBuffer == IF handle \in DOMAIN files THEN SubSeq(files[handle], synced + 1, Len(files[handle])) ELSE <<>>

SameDayAs == {rp \in Times \X Paths : Day(rp[1]) = DayOf(rp[2][2])}
OlderThan == {pq \in Paths \X Paths : pq[1][2] < pq[2][2]}

Store == INSTANCE LogStore WITH
  Records  <- Times,
  Names    <- Paths,
  NoRecord <- NULL,
  NoName   <- NULL,
  Belongs  <- SameDayAs,
  Older    <- OlderThan,
  stored   <- [p \in DOMAIN files |-> SubSeq(files[p], 1, OnDisk(p))],
  open     <- handle,
  buffered <- InBuffer,
  hand     <- log,
  mishaps  <- changes + faults

ImplementsStore == Store!Spec
===========================================================================
