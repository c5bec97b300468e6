-------------------------- MODULE FileRoll_proofs --------------------------
(***************************************************************************)
(* Proofs about FileRoll, for any directories, limits, ages, numbers of    *)
(* files to reserve, lengths of a minute and a day, and delays of the      *)
(* records.                                                                *)
(***************************************************************************)
EXTENDS FileRollProps, SequenceTheorems, FiniteSetTheorems, TLAPS

---------------------------------------------------------------------------
(* Sequences                                                               *)

(* The first n elements of a sequence.                                     *)
LEMMA Prefix ==
  ASSUME NEW S, NEW s \in Seq(S), NEW n \in 0..Len(s)
  PROVE  /\ SubSeq(s, 1, n) \in Seq(S) /\ Len(SubSeq(s, 1, n)) = n
         /\ DOMAIN SubSeq(s, 1, n) = 1..n
         /\ \A i \in 1..n : SubSeq(s, 1, n)[i] = s[i]
<1>1. Len(s) \in Nat /\ n \in Int /\ \A i \in 1..n : s[i] \in S
  BY LenProperties, ElementOfSeq
<1>2. /\ SubSeq(s, 1, n) \in Seq(S)
      /\ Len(SubSeq(s, 1, n)) = IF 1 <= n THEN n - 1 + 1 ELSE 0
      /\ \A i \in 1..(n - 1 + 1) : SubSeq(s, 1, n)[i] = s[1 + i - 1]
  BY <1>1, SubSeqProperties
<1>3. Len(SubSeq(s, 1, n)) = n
  BY <1>1, <1>2
<1>4. DOMAIN SubSeq(s, 1, n) = 1..n
  BY <1>2, <1>3, LenProperties
<1>5. QED
  BY <1>1, <1>2, <1>3, <1>4

(* An element more at the end.                                             *)
LEMMA OneMore ==
  ASSUME NEW S, NEW s \in Seq(S), NEW e \in S
  PROVE  /\ Append(s, e) \in Seq(S) /\ Len(Append(s, e)) = Len(s) + 1
         /\ DOMAIN Append(s, e) = 1..(Len(s) + 1)
         /\ \A i \in 1..Len(s) : Append(s, e)[i] = s[i]
         /\ Append(s, e)[Len(s) + 1] = e
BY AppendProperties, LenProperties

(* What remains of a sequence without its first elements.                  *)
LEMMA Suffix ==
  ASSUME NEW S, NEW s \in Seq(S), NEW m \in Nat
  PROVE  /\ SubSeq(s, m + 1, Len(s)) \in Seq(S)
         /\ \A i \in DOMAIN SubSeq(s, m + 1, Len(s)) :
              i + m \in DOMAIN s /\ SubSeq(s, m + 1, Len(s))[i] = s[i + m]
         /\ \A i \in DOMAIN s : i > m =>
              i - m \in DOMAIN SubSeq(s, m + 1, Len(s)) /\ SubSeq(s, m + 1, Len(s))[i - m] = s[i]
<1> DEFINE t == SubSeq(s, m + 1, Len(s))
<1>1. Len(s) \in Nat /\ DOMAIN s = 1..Len(s) /\ \A i \in (m + 1)..Len(s) : s[i] \in S
  BY LenProperties, ElementOfSeq
<1>2. /\ t \in Seq(S)
      /\ Len(t) = IF m + 1 <= Len(s) THEN Len(s) - (m + 1) + 1 ELSE 0
      /\ \A i \in 1..(Len(s) - (m + 1) + 1) : t[i] = s[m + 1 + i - 1]
  BY <1>1, SubSeqProperties
<1>3. DOMAIN t = 1..Len(t)
  BY <1>2, LenProperties
<1> HIDE DEF t
<1>4. \A i \in DOMAIN t : i + m \in DOMAIN s /\ t[i] = s[i + m]
  BY <1>1, <1>2, <1>3
<1>5. \A i \in DOMAIN s : i > m => i - m \in DOMAIN t /\ t[i - m] = s[i]
  <2> SUFFICES ASSUME NEW i \in DOMAIN s, i > m
               PROVE  i - m \in DOMAIN t /\ t[i - m] = s[i]
    OBVIOUS
  <2>1. i \in Nat /\ i <= Len(s) /\ m + 1 <= Len(s) /\ i - m \in 1..(Len(s) - (m + 1) + 1)
    BY <1>1
  <2>2. Len(t) = Len(s) - (m + 1) + 1
    BY <1>2, <2>1
  <2>3. t[i - m] = s[m + 1 + (i - m) - 1] /\ m + 1 + (i - m) - 1 = i
    BY <1>2, <2>1
  <2>4. QED
    BY <1>3, <2>1, <2>2, <2>3
<1>6. QED
  BY <1>2, <1>4, <1>5 DEF t

(* A set of positions that has, with any, all before it, is an interval.   *)
LEMMA Interval ==
  ASSUME NEW n \in Nat, NEW E \in SUBSET (1..n), \A i \in E : \A j \in 1..i : j \in E
  PROVE  Cardinality(E) \in Nat /\ E = 1..Cardinality(E)
<1> DEFINE m == Cardinality(E)
<1>1. IsFiniteSet(E) /\ m \in Nat
  <2>1. IsFiniteSet(1..n)
    BY FS_Interval
  <2>2. IsFiniteSet(E)
    BY <2>1, FS_Subset
  <2>3. QED
    BY <2>2, FS_CardinalityType
<1>2. \A k \in E : k \in Nat /\ k >= 1 /\ k <= m
  <2> SUFFICES ASSUME NEW k \in E PROVE k \in Nat /\ k >= 1 /\ k <= m
    OBVIOUS
  <2>1. k \in Nat /\ k >= 1
    OBVIOUS
  <2>2. 1..k \in SUBSET E
    OBVIOUS
  <2>3. Cardinality(1..k) <= m
    BY <1>1, <2>2, FS_Subset
  <2>4. Cardinality(1..k) = k
    BY <2>1, FS_Interval
  <2>5. QED
    BY <2>1, <2>3, <2>4
<1>3. IsFiniteSet(1..m) /\ Cardinality(1..m) = m
  BY <1>1, FS_Interval
<1> HIDE DEF m
<1>4. E \in SUBSET (1..m)
  BY <1>1, <1>2
<1>5. E = 1..m
  BY <1>3, <1>4, FS_Subset DEF m
<1>6. QED
  BY <1>1, <1>5 DEF m

(* A function to sequences, one of which is cut short.                     *)
LEMMA CutShort ==
  ASSUME NEW S, NEW f, \A p \in DOMAIN f : f[p] \in Seq(S),
         NEW h \in DOMAIN f, NEW n \in 0..Len(f[h]),
         NEW g, g = [f EXCEPT ![h] = SubSeq(@, 1, n)]
  PROVE  /\ DOMAIN g = DOMAIN f /\ Len(g[h]) = n
         /\ \A p \in DOMAIN f :
              /\ g[p] \in Seq(S)
              /\ p # h => g[p] = f[p]
              /\ \A i \in DOMAIN g[p] : i \in DOMAIN f[p] /\ g[p][i] = f[p][i]
<1>1. /\ SubSeq(f[h], 1, n) \in Seq(S) /\ Len(SubSeq(f[h], 1, n)) = n
      /\ DOMAIN SubSeq(f[h], 1, n) = 1..n
      /\ \A i \in 1..n : SubSeq(f[h], 1, n)[i] = f[h][i]
  BY Prefix
<1>2. n \in Nat /\ Len(f[h]) \in Nat /\ n <= Len(f[h]) /\ DOMAIN f[h] = 1..Len(f[h])
  BY LenProperties
<1>3. 1..n \subseteq DOMAIN f[h]
  BY <1>2
<1>4. DOMAIN g = DOMAIN f /\ g[h] = SubSeq(f[h], 1, n) /\ \A p \in DOMAIN f : p # h => g[p] = f[p]
  OBVIOUS
<1>5. QED
  BY <1>1, <1>3, <1>4, Zenon

(* The same, one of which is appended to.                                  *)
LEMMA AppendedTo ==
  ASSUME NEW S, NEW f, \A p \in DOMAIN f : f[p] \in Seq(S),
         NEW h \in DOMAIN f, NEW e \in S,
         NEW g, g = [f EXCEPT ![h] = Append(@, e)]
  PROVE  /\ DOMAIN g = DOMAIN f /\ Len(g[h]) = Len(f[h]) + 1
         /\ \A p \in DOMAIN f :
              /\ g[p] \in Seq(S)
              /\ p # h => g[p] = f[p]
              /\ Len(f[p]) <= Len(g[p])
              /\ \A i \in DOMAIN f[p] : g[p][i] = f[p][i]
              /\ \A i \in DOMAIN g[p] :
                   (i \in DOMAIN f[p] /\ g[p][i] = f[p][i]) \/ (p = h /\ g[p][i] = e)
<1>1. /\ Append(f[h], e) \in Seq(S) /\ Len(Append(f[h], e)) = Len(f[h]) + 1
      /\ DOMAIN Append(f[h], e) = 1..(Len(f[h]) + 1)
      /\ \A i \in 1..Len(f[h]) : Append(f[h], e)[i] = f[h][i]
      /\ Append(f[h], e)[Len(f[h]) + 1] = e
  BY OneMore
<1>2. \A p \in DOMAIN f : Len(f[p]) \in Nat /\ DOMAIN f[p] = 1..Len(f[p])
  BY LenProperties
<1>3. DOMAIN g = DOMAIN f /\ g[h] = Append(f[h], e) /\ \A p \in DOMAIN f : p # h => g[p] = f[p]
  OBVIOUS
<1>4. \A i \in 1..(Len(f[h]) + 1) : i \in 1..Len(f[h]) \/ i = Len(f[h]) + 1
  BY <1>2
<1>5. \A p \in DOMAIN f : Len(f[p]) <= Len(g[p])
  BY <1>1, <1>2, <1>3
<1>6. QED
  BY <1>1, <1>2, <1>3, <1>4, <1>5, Zenon

---------------------------------------------------------------------------
(* The invariant                                                           *)

(* The entry tells the truth of the open file: its name is that of the     *)
(* record it was opened for, and flen is its length while it is there.     *)
EntryIsTrue ==
  handle # NULL =>
    /\ Minute(ftime) = handle[2] /\ findex = handle[3]
    /\ handle \in DOMAIN files => flen = Len(files[handle]) /\ synced <= Len(files[handle])

(* A record is written at most Lag seconds after it was made.              *)
AgeOK == log # NULL => now - Lag <= log /\ log <= now

(* No file was opened before the minute it is named after.                 *)
HistoryOK == \A i \in DOMAIN history : history[i][2][2] <= Minute(history[i][1])

(* The records of a file are of the day it is named after.                 *)
DayOK ==
  \A p \in DOMAIN files : \A i \in DOMAIN files[p] : Day(files[p][i]) = DayOf(p[2])

(* open() has put the record where it belongs.                             *)
RightFile == pc = "write" /\ handle # NULL => Day(log) = DayOf(handle[2])

FileInv ==
  /\ TypeOK /\ EntryIsTrue /\ AgeOK /\ HistoryOK /\ DayOK /\ RightFile
  /\ UnflushedIsFlagged

(* The minute of a time is a number, the later the time the greater, and   *)
(* another one when a minute has passed.                                   *)
LEMMA Minutes ==
  ASSUME NEW a \in Int, NEW b \in Int
  PROVE  /\ Minute(a) \in Int
         /\ a <= b => Minute(a) <= Minute(b)
         /\ a + MinuteLength <= b => Minute(a) < Minute(b)
<1>1. PICK l \in Nat \ {0} : l = MinuteLength
  BY FileAssumption DEF FileAssumption
<1>2. /\ a \div l \in Int /\ b \div l \in Int
      /\ l * (a \div l) <= a /\ a < l * (a \div l) + l
      /\ l * (b \div l) <= b /\ b < l * (b \div l) + l
  OBVIOUS
<1>3. \A c, d \in Int : c < d => l * c + l <= l * d
  OBVIOUS
<1>4. a <= b => a \div l <= b \div l
  BY <1>2, <1>3
<1>5. a + l <= b => a \div l < b \div l
  <2>1. \A c, d \in Int : c <= d => l * c <= l * d
    OBVIOUS
  <2>2. QED
    BY <1>2, <2>1
<1>6. QED
  BY <1>1, <1>2, <1>4, <1>5 DEF Minute

(* Times are numbers, and NULL is neither a time nor a path.               *)
LEMMA TimesAreNumbers ==
  /\ Start \in Int /\ Times \subseteq Int /\ NULL \notin Times
  /\ NULL \notin Paths /\ Lag \in Nat /\ MaxTime \in Nat
  /\ \A p \in Paths : p[2] \in Int
<1> USE FileAssumption DEF FileAssumption
<1>1. Start \in Int
  BY DEF Start
<1>2. Times \subseteq Int
  BY <1>1 DEF Times
<1>3. \A t \in Times : Minute(t) \in Int
  BY <1>2, Minutes
<1>4. NULL \notin Paths /\ \A p \in Paths : p[2] \in Int
  BY <1>3 DEF Paths
<1>5. QED
  BY <1>1, <1>2, <1>4

(* The invariant holds before anything is written.                         *)
LEMMA FileInvInit == Init => FileInv
<1> SUFFICES ASSUME Init PROVE FileInv
  OBVIOUS
<1> USE FileAssumption, TimesAreNumbers DEF FileAssumption, Init
<1>1. TypeOK
  <2>1. history \in Seq(Int \X Paths)
    BY EmptySeq
  <2>2. now \in Start..(Start + MaxTime)
    BY DEF Start
  <2>3. conf \in Confs
    BY DEF Defaults
  <2>4. DOMAIN files \subseteq Paths /\ \A p \in DOMAIN files : files[p] \in Seq(Times)
    OBVIOUS
  <2>5. /\ taken \in 0..MaxRecords /\ changes \in Nat /\ faults \in Nat /\ synced \in Nat
        /\ ftime \in Int /\ flen \in Nat /\ findex \in Nat
    OBVIOUS
  <2>6. /\ handle \in Paths \cup {NULL} /\ log \in Times \cup {NULL} /\ fflag \in BOOLEAN
        /\ pc \in {"loop", "open", "write", "close", "turn"}
        /\ pc \in {"open", "write"} <=> log # NULL
    OBVIOUS
  <2>7. QED
    BY <2>1, <2>2, <2>3, <2>4, <2>5, <2>6, Zenon DEF TypeOK
<1>2. HistoryOK
  BY DEF HistoryOK
<1>3. QED
  BY <1>1, <1>2 DEF FileInv, EntryIsTrue, AgeOK, DayOK, RightFile, UnflushedIsFlagged

(* What open() makes of the path and of the history.                       *)
LEMMA OpenEnters ==
  ASSUME TypeOK, HistoryOK, log # NULL
  PROVE  /\ Path \in Paths
         /\ Remaining \in Seq(Int \X Paths)
         /\ \A i \in DOMAIN Remaining : Remaining[i][2][2] <= Minute(Remaining[i][1])
<1>1. log \in Times /\ findex \in Nat /\ conf \in Confs /\ history \in Seq(Int \X Paths)
  BY DEF TypeOK
<1>2. NextIndex \in Nat /\ conf.dir \in Dirs
  BY <1>1 DEF NextIndex, Confs
<1>3. Path \in Paths
  BY <1>1, <1>2 DEF Path, Paths
<1>4. Cardinality(Expired) \in Nat
  <2>1. Len(history) \in Int
    BY <1>1, LenProperties
  <2>2. IsFiniteSet(1..Len(history)) /\ Expired \in SUBSET (1..Len(history))
    BY <2>1, FS_Interval DEF Expired
  <2>3. QED
    BY <2>2, FS_Subset, FS_CardinalityType
<1>5. /\ Remaining \in Seq(Int \X Paths)
      /\ \A i \in DOMAIN Remaining :
           i + Cardinality(Expired) \in DOMAIN history
           /\ Remaining[i] = history[i + Cardinality(Expired)]
  BY <1>1, <1>4, Suffix, SMTT(30) DEF Remaining
<1>6. QED
  BY <1>3, <1>5 DEF HistoryOK

(* The files that open() removes are named for an earlier minute than the  *)
(* one it opens, if their age covers that minute and the delay of records. *)
LEMMA RemovedAreOlder ==
  ASSUME ReserveCoversMinute, TypeOK, AgeOK, HistoryOK, log # NULL
  PROVE  \A p \in Removed : p \in Paths /\ p[2] < Path[2]
<1> USE FileAssumption, TimesAreNumbers DEF FileAssumption
<1>1. log \in Times /\ conf \in Confs /\ history \in Seq(Int \X Paths)
  BY DEF TypeOK
<1>2. conf.reserve \in Reserves
  BY <1>1 DEF Confs
<1>3. \A i \in DOMAIN history : history[i] \in Int \X Paths
  BY <1>1, ElementOfSeq, LenProperties
<1>4. ASSUME NEW i \in Expired
      PROVE  history[i][2] \in Paths /\ history[i][2][2] < Minute(log)
  <2>1. i \in DOMAIN history /\ conf.reserve > 0 /\ history[i][1] < now - conf.reserve
    <3>1. i \in 1..Len(history) /\ TooMany /\ \A j \in 1..i : history[j][1] < now - conf.reserve
      BY DEF Expired
    <3>2. i \in 1..i
      BY <3>1, <1>1, LenProperties
    <3>3. QED
      BY <3>1, <3>2, <1>1, LenProperties DEF TooMany
  <2>2. /\ history[i][1] \in Int /\ history[i][2] \in Paths /\ history[i][2][2] \in Int
        /\ history[i][2][2] <= Minute(history[i][1])
    BY <1>3, <2>1 DEF HistoryOK
  <2>3. conf.reserve \in Nat /\ conf.reserve >= Lag + MinuteLength - 1
    <3>1. conf.reserve \in Nat /\ (conf.reserve = 0 \/ conf.reserve >= Lag + MinuteLength - 1)
      BY <1>2 DEF ReserveCoversMinute
    <3>2. QED
      BY <2>1, <3>1
  <2>4. log \in Int /\ now \in Int /\ now - Lag <= log /\ MinuteLength \in Int
    BY <1>1 DEF AgeOK, TypeOK
  <2>5. history[i][1] + MinuteLength <= log
    BY <2>1, <2>2, <2>3, <2>4
  <2>6. /\ Minute(history[i][1]) \in Int /\ Minute(log) \in Int
        /\ Minute(history[i][1]) < Minute(log)
    BY <2>2, <2>4, <2>5, Minutes
  <2>7. QED
    BY <2>2, <2>6
<1>5. QED
  BY <1>4 DEF Removed, Path

(* So open() leaves the file that it opens.                                *)
LEMMA OpenRemovesOthers ==
  ASSUME ReserveCoversMinute, TypeOK, AgeOK, HistoryOK, log # NULL
  PROVE  Path \notin Removed
<1>1. \A p \in Removed : p \in Paths /\ p[2] < Path[2]
  BY RemovedAreOlder
<1>2. Path \in Paths /\ Path[2] \in Int
  BY OpenEnters, TimesAreNumbers
<1>3. QED
  BY <1>1, <1>2

(* What open() computes with.                                              *)
LEMMA OpenTypes ==
  ASSUME TypeOK, pc = "open"
  PROVE  /\ log \in Times /\ log \in Int /\ now \in Int /\ log # NULL
         /\ NextIndex \in Nat /\ Path[2] = Minute(log) /\ Path[3] = NextIndex
<1>1. log \in Times /\ log \in Int /\ log # NULL
  BY TimesAreNumbers DEF TypeOK
<1>2. now \in Int
  BY TimesAreNumbers DEF TypeOK
<1>3. NextIndex \in Nat
  BY DEF TypeOK, NextIndex
<1>4. QED
  BY <1>1, <1>2, <1>3 DEF Path

(* The files when the open one is cut short.                               *)
LEMMA FilesCutShort ==
  ASSUME TypeOK, handle \in DOMAIN files, NEW n \in 0..Len(files[handle]),
         files' = [files EXCEPT ![handle] = SubSeq(@, 1, n)]
  PROVE  /\ DOMAIN files' = DOMAIN files
         /\ \A p \in DOMAIN files :
              /\ files'[p] \in Seq(Times)
              /\ \A i \in DOMAIN files'[p] : i \in DOMAIN files[p] /\ files'[p][i] = files[p][i]
<1>1. \A p \in DOMAIN files : files[p] \in Seq(Times)
  BY DEF TypeOK
<1>2. QED
  BY <1>1, CutShort

(* The files when a record is appended to the open one.                    *)
LEMMA FilesAppendedTo ==
  ASSUME TypeOK, handle \in DOMAIN files, log \in Times,
         files' = [files EXCEPT ![handle] = Append(@, log)]
  PROVE  /\ DOMAIN files' = DOMAIN files /\ Len(files'[handle]) = Len(files[handle]) + 1
         /\ \A p \in DOMAIN files :
              /\ files'[p] \in Seq(Times)
              /\ \A i \in DOMAIN files'[p] :
                   \/ i \in DOMAIN files[p] /\ files'[p][i] = files[p][i]
                   \/ p = handle /\ files'[p][i] = log
<1>1. \A p \in DOMAIN files : files[p] \in Seq(Times)
  BY DEF TypeOK
<1>2. QED
  BY <1>1, AppendedTo

(* Every step keeps the invariant.                                         *)
LEMMA FileInvStep == FileInv /\ [Next]_vars => FileInv'
<1> SUFFICES ASSUME FileInv, [Next]_vars PROVE FileInv'
  OBVIOUS
<1> USE FileAssumption, TimesAreNumbers
    DEF FileAssumption, EntryIsTrue, AgeOK, HistoryOK, DayOK, RightFile, UnflushedIsFlagged,
        entry, disk, counts
<1>1. TypeOK /\ EntryIsTrue /\ AgeOK /\ HistoryOK /\ DayOK /\ RightFile /\ UnflushedIsFlagged
  BY DEF FileInv
<1>2. FileInv'
  <2> USE <1>1
  <2>1. CASE Tick
    <3>1. TypeOK'
      BY <2>1 DEF Tick, TypeOK
    <3>2. EntryIsTrue' /\ UnflushedIsFlagged'
      BY <2>1 DEF Tick, TypeOK
    <3>3. AgeOK' /\ HistoryOK' /\ DayOK' /\ RightFile'
      BY <2>1 DEF Tick, TypeOK
    <3>4. QED
      BY <3>1, <3>2, <3>3 DEF FileInv
  <2>2. CASE Set
    <3>1. TypeOK'
      BY <2>2 DEF Set, TypeOK
    <3>2. EntryIsTrue' /\ UnflushedIsFlagged'
      BY <2>2 DEF Set, TypeOK
    <3>3. AgeOK' /\ HistoryOK' /\ DayOK' /\ RightFile'
      BY <2>2 DEF Set, TypeOK
    <3>4. QED
      BY <3>1, <3>2, <3>3 DEF FileInv
  <2>3. CASE Reset
    <3>1. /\ DOMAIN files' = DOMAIN files
          /\ \A p \in DOMAIN files : /\ files'[p] \in Seq(Times)
                                    /\ \A i \in DOMAIN files'[p] :
                                         i \in DOMAIN files[p] /\ files'[p][i] = files[p][i]
      <4>1. CASE UNCHANGED files
        BY <4>1 DEF TypeOK
      <4>2. CASE ~UNCHANGED files
        <5>1. handle \in DOMAIN files /\ files' = [files EXCEPT ![handle] = SubSeq(@, 1, synced)]
          BY <2>3, <4>2 DEF Reset
        <5>2. synced \in 0..Len(files[handle])
          BY <5>1, LenProperties DEF TypeOK
        <5>3. QED
          BY <5>1, <5>2, FilesCutShort
      <4>3. QED
        BY <4>1, <4>2
    <3>2. TypeOK'
      <4>1. DOMAIN files' \subseteq Paths /\ \A p \in DOMAIN files' : files'[p] \in Seq(Times)
        BY <3>1 DEF TypeOK
      <4>2. history' \in Seq(Int \X Paths) /\ conf' \in Confs
        BY <2>3, EmptySeq DEF Reset, NewEntry, Defaults
      <4>3. QED
        BY <2>3, <4>1, <4>2 DEF Reset, NewEntry, TypeOK
    <3>3. EntryIsTrue' /\ UnflushedIsFlagged'
      BY <2>3, <3>1 DEF Reset, NewEntry, TypeOK
    <3>4. DayOK'
      BY <3>1
    <3>5. AgeOK' /\ HistoryOK' /\ RightFile'
      BY <2>3 DEF Reset, NewEntry
    <3>6. QED
      BY <3>2, <3>3, <3>4, <3>5 DEF FileInv
  <2>4. CASE Take
    <3>1. TypeOK'
      BY <2>4 DEF Take, TypeOK, Times
    <3>2. EntryIsTrue' /\ UnflushedIsFlagged'
      BY <2>4 DEF Take, TypeOK, Times
    <3>3. AgeOK' /\ HistoryOK' /\ DayOK' /\ RightFile'
      BY <2>4 DEF Take, TypeOK, Times
    <3>4. QED
      BY <3>1, <3>2, <3>3 DEF FileInv
  <2>5. CASE OpenRefused
    <3>1. TypeOK'
      BY <2>5 DEF OpenRefused, TypeOK, Dropped
    <3>2. EntryIsTrue' /\ UnflushedIsFlagged'
      BY <2>5 DEF OpenRefused, TypeOK, Dropped
    <3>3. AgeOK' /\ HistoryOK' /\ DayOK' /\ RightFile'
      BY <2>5 DEF OpenRefused, TypeOK, Dropped
    <3>4. QED
      BY <3>1, <3>2, <3>3 DEF FileInv
  <2>6. CASE OpenKept
    <3>1. TypeOK'
      BY <2>6 DEF OpenKept, TypeOK, Keeps, SameDay
    <3>2. EntryIsTrue' /\ UnflushedIsFlagged'
      BY <2>6 DEF OpenKept, TypeOK, Keeps, SameDay
    <3>3. AgeOK' /\ HistoryOK' /\ DayOK' /\ RightFile'
      BY <2>6 DEF OpenKept, TypeOK, Keeps, SameDay, Day
    <3>4. QED
      BY <3>1, <3>2, <3>3 DEF FileInv
  <2>7. CASE OpenFails
    <3>1. TypeOK'
      <4>1. NextIndex \in Nat /\ ftime' \in Int
        BY <2>7, OpenTypes DEF OpenFails
      <4>2. conf' \in Confs
        BY <2>7 DEF OpenFails, Confs, TypeOK
      <4>3. /\ handle' \in Paths \cup {NULL} /\ ftime' \in Int /\ flen' \in Nat /\ findex' \in Nat
            /\ history' \in Seq(Int \X Paths) /\ fflag' \in BOOLEAN /\ synced' \in Nat
        BY <2>7, <4>1 DEF OpenFails, TypeOK
      <4>4. /\ now' \in Start..(Start + MaxTime) /\ log' = NULL /\ pc' = "loop"
            /\ taken' \in 0..MaxRecords /\ changes' \in Nat /\ faults' \in Nat
        <5>1. faults \in Nat /\ faults' = faults + 1
          BY <2>7 DEF OpenFails, TypeOK
        <5>2. faults' \in Nat
          BY <5>1
        <5>3. /\ now' = now /\ log' = NULL /\ pc' = "loop"
              /\ taken' = taken /\ changes' = changes
          BY <2>7 DEF OpenFails, Dropped
        <5>4. QED
          BY <5>2, <5>3 DEF TypeOK
      <4>5. DOMAIN files' \subseteq Paths /\ \A p \in DOMAIN files' : files'[p] \in Seq(Times)
        BY <2>7 DEF OpenFails, TypeOK
      <4>6. QED
        BY <4>2, <4>3, <4>4, <4>5 DEF TypeOK
    <3>2. EntryIsTrue' /\ UnflushedIsFlagged'
      BY <2>7 DEF OpenFails, TypeOK, Dropped
    <3>3. AgeOK' /\ HistoryOK' /\ DayOK' /\ RightFile'
      BY <2>7 DEF OpenFails, TypeOK, Dropped
    <3>4. QED
      BY <3>1, <3>2, <3>3 DEF FileInv
  <2>8. CASE Write
    <3>1. log \in Times /\ handle \in DOMAIN files /\ handle # NULL /\ pc = "write"
          /\ files' = [files EXCEPT ![handle] = Append(@, log)]
      BY <2>8 DEF Write, TypeOK
    <3>2. /\ DOMAIN files' = DOMAIN files /\ Len(files'[handle]) = Len(files[handle]) + 1
          /\ \A p \in DOMAIN files :
               /\ files'[p] \in Seq(Times)
               /\ \A i \in DOMAIN files'[p] :
                    \/ i \in DOMAIN files[p] /\ files'[p][i] = files[p][i]
                    \/ p = handle /\ files'[p][i] = log
      BY <3>1, FilesAppendedTo
    <3>3. Len(files[handle]) \in Nat /\ synced' \in Nat /\ synced' <= Len(files[handle]) + 1
      <4>1. Len(files[handle]) \in Nat /\ synced \in Nat
        BY <3>1, LenProperties DEF TypeOK
      <4>2. PICK n \in synced..(Len(files[handle]) + 1) : synced' = n
        BY <2>8 DEF Write
      <4>3. QED
        BY <4>1, <4>2
    <3>4. TypeOK'
      <4>1. DOMAIN files' \subseteq Paths /\ \A p \in DOMAIN files' : files'[p] \in Seq(Times)
        BY <3>2 DEF TypeOK
      <4>2. /\ handle' \in Paths \cup {NULL} /\ ftime' \in Int /\ flen' \in Nat /\ findex' \in Nat
            /\ history' \in Seq(Int \X Paths) /\ fflag' \in BOOLEAN /\ synced' \in Nat
        <5>1. flen \in Nat /\ flen' = flen + 1
          BY <2>8 DEF Write, Counted, TypeOK
        <5>2. flen' \in Nat
          BY <5>1
        <5>3. handle' = handle
          BY <2>8 DEF Write
        <5>4. ftime' = ftime /\ findex' = findex /\ history' = history /\ fflag' = TRUE
          BY <2>8 DEF Write, Counted
        <5>5. QED
          BY <5>2, <5>3, <5>4, <3>3 DEF TypeOK
      <4>3. /\ now' \in Start..(Start + MaxTime) /\ log' = NULL /\ pc' = "loop"
            /\ taken' \in 0..MaxRecords /\ changes' \in Nat /\ faults' \in Nat
        BY <2>8 DEF Write, Counted, Dropped, TypeOK
      <4>4. conf' \in Confs
        BY <2>8 DEF Write, Counted, TypeOK
      <4>5. QED
        BY <4>1, <4>2, <4>3, <4>4 DEF TypeOK
    <3>5. EntryIsTrue' /\ UnflushedIsFlagged'
      BY <2>8, <3>1, <3>2, <3>3 DEF Write, Counted
    <3>6. DayOK'
      BY <3>1, <3>2, SMTT(40)
    <3>7. AgeOK' /\ HistoryOK' /\ RightFile'
      BY <2>8 DEF Write, Counted, Dropped
    <3>8. QED
      BY <3>4, <3>5, <3>6, <3>7 DEF FileInv
  <2>9. CASE WriteNowhere
    <3>1. TypeOK'
      BY <2>9 DEF WriteNowhere, TypeOK, Counted, Dropped
    <3>2. EntryIsTrue' /\ UnflushedIsFlagged'
      BY <2>9 DEF WriteNowhere, TypeOK, Counted, Dropped
    <3>3. AgeOK' /\ HistoryOK' /\ DayOK' /\ RightFile'
      BY <2>9 DEF WriteNowhere, TypeOK, Counted, Dropped
    <3>4. QED
      BY <3>1, <3>2, <3>3 DEF FileInv
  <2>10. CASE WriteShort
    <3>1. PICK n \in synced..Len(files[handle]) :
            files' = [files EXCEPT ![handle] = SubSeq(@, 1, n)]
      BY <2>10 DEF WriteShort
    <3>2. handle \in DOMAIN files /\ n \in 0..Len(files[handle])
      BY <2>10, LenProperties, SMTT(30) DEF WriteShort, TypeOK
    <3>3. /\ DOMAIN files' = DOMAIN files
          /\ \A p \in DOMAIN files : /\ files'[p] \in Seq(Times)
                                    /\ \A i \in DOMAIN files'[p] :
                                         i \in DOMAIN files[p] /\ files'[p][i] = files[p][i]
      BY <3>1, <3>2, FilesCutShort
    <3>4. TypeOK'
      <4>1. DOMAIN files' \subseteq Paths /\ \A p \in DOMAIN files' : files'[p] \in Seq(Times)
        BY <3>3 DEF TypeOK
      <4>2. /\ handle' \in Paths \cup {NULL} /\ ftime' \in Int /\ flen' \in Nat /\ findex' \in Nat
            /\ history' \in Seq(Int \X Paths) /\ fflag' \in BOOLEAN /\ synced' \in Nat
        <5>1. flen \in Nat /\ flen' = flen + 1
          BY <2>10 DEF WriteShort, Counted, TypeOK
        <5>2. flen' \in Nat
          BY <5>1
        <5>3. handle' = NULL /\ synced' = 0
          BY <2>10 DEF WriteShort
        <5>4. ftime' = ftime /\ findex' = findex /\ history' = history /\ fflag' = TRUE
          BY <2>10 DEF WriteShort, Counted
        <5>5. QED
          BY <5>2, <5>3, <5>4 DEF TypeOK
      <4>3. /\ now' \in Start..(Start + MaxTime) /\ log' = NULL /\ pc' = "loop"
            /\ taken' \in 0..MaxRecords /\ changes' \in Nat /\ faults' \in Nat
        <5>1. faults \in Nat /\ faults' = faults + 1
          BY <2>10 DEF WriteShort, TypeOK
        <5>2. faults' \in Nat
          BY <5>1
        <5>3. /\ now' = now /\ log' = NULL /\ pc' = "loop"
              /\ taken' = taken /\ changes' = changes
          BY <2>10 DEF WriteShort, Counted, Dropped
        <5>4. QED
          BY <5>2, <5>3 DEF TypeOK
      <4>4. conf' \in Confs
        BY <2>10 DEF WriteShort, Counted, TypeOK
      <4>5. QED
        BY <4>1, <4>2, <4>3, <4>4 DEF TypeOK
    <3>5. EntryIsTrue' /\ UnflushedIsFlagged'
      BY <2>10, <3>3 DEF WriteShort, Counted, TypeOK
    <3>6. DayOK'
      BY <3>3
    <3>7. AgeOK' /\ HistoryOK' /\ RightFile'
      BY <2>10 DEF WriteShort, Counted, Dropped
    <3>8. QED
      BY <3>4, <3>5, <3>6, <3>7 DEF FileInv
  <2>11. CASE Sweep
    <3>1. TypeOK'
      BY <2>11 DEF Sweep, TypeOK, Synced
    <3>2. EntryIsTrue' /\ UnflushedIsFlagged'
      BY <2>11 DEF Sweep, TypeOK, Synced
    <3>3. AgeOK' /\ HistoryOK' /\ DayOK' /\ RightFile'
      BY <2>11 DEF Sweep, TypeOK, Synced
    <3>4. QED
      BY <3>1, <3>2, <3>3 DEF FileInv
  <2>12. CASE SweepClose
    <3>1. TypeOK'
      BY <2>12 DEF SweepClose, TypeOK
    <3>2. EntryIsTrue' /\ UnflushedIsFlagged'
      BY <2>12 DEF SweepClose, TypeOK
    <3>3. AgeOK' /\ HistoryOK' /\ DayOK' /\ RightFile'
      BY <2>12 DEF SweepClose, TypeOK
    <3>4. QED
      BY <3>1, <3>2, <3>3 DEF FileInv
  <2>13. CASE Update
    <3>1. TypeOK'
      BY <2>13 DEF Update, TypeOK, NewEntry
    <3>2. EntryIsTrue' /\ UnflushedIsFlagged'
      BY <2>13 DEF Update, TypeOK, NewEntry
    <3>3. AgeOK' /\ HistoryOK' /\ DayOK' /\ RightFile'
      BY <2>13 DEF Update, TypeOK, NewEntry
    <3>4. QED
      BY <3>1, <3>2, <3>3 DEF FileInv
  <2>14. CASE Rest
    <3>1. TypeOK'
      BY <2>14 DEF Rest, TypeOK
    <3>2. EntryIsTrue' /\ UnflushedIsFlagged'
      BY <2>14 DEF Rest, TypeOK
    <3>3. AgeOK' /\ HistoryOK' /\ DayOK' /\ RightFile'
      BY <2>14 DEF Rest, TypeOK
    <3>4. QED
      BY <3>1, <3>2, <3>3 DEF FileInv
  <2>15. CASE OpenFile
    <3>1. /\ Path \in Paths
          /\ Remaining \in Seq(Int \X Paths)
          /\ \A i \in DOMAIN Remaining : Remaining[i][2][2] <= Minute(Remaining[i][1])
      BY <2>15, OpenEnters DEF OpenFile, TypeOK
    <3>2. /\ log \in Times /\ log \in Int /\ now \in Int /\ NextIndex \in Nat
          /\ Path # NULL /\ Path[2] = Minute(log) /\ Path[3] = NextIndex
          /\ Minute(log) <= Minute(now)
      BY <2>15, <3>1, OpenTypes, Minutes DEF OpenFile
    <3>3. \A q \in Paths : /\ Contents(q) \in Seq(Times)
                           /\ \A i \in DOMAIN Contents(q) : Day(Contents(q)[i]) = DayOf(q[2])
      BY EmptySeq DEF Contents, TypeOK
    <3>4. PICK gone \in Gone : files' = DiskWith(Path, gone) /\ faults' = faults + Failures(gone)
      BY <2>15 DEF OpenFile
    <3>5. /\ DOMAIN files' \subseteq DOMAIN files \cup {Path} /\ DOMAIN files' \subseteq Paths
          /\ \A q \in DOMAIN files' : files'[q] = Contents(q)
          /\ Len(Contents(Path)) \in Nat /\ faults' \in Nat
      BY <3>1, <3>3, <3>4, LenProperties DEF TypeOK, DiskWith, Failures
    <3>6. /\ history' \in Seq(Int \X Paths)
          /\ \A i \in DOMAIN history' : history'[i][2][2] <= Minute(history'[i][1])
      <4>1. CASE history' = Remaining
        BY <3>1, <4>1
      <4>2. CASE history' = Append(Remaining, <<now, Path>>)
        <5>1. <<now, Path>> \in Int \X Paths
          BY <3>1, <3>2
        <5>2. /\ history' \in Seq(Int \X Paths)
              /\ DOMAIN Remaining = 1..Len(Remaining)
              /\ DOMAIN history' = 1..(Len(Remaining) + 1)
              /\ \A i \in 1..Len(Remaining) : history'[i] = Remaining[i]
              /\ history'[Len(Remaining) + 1] = <<now, Path>>
              /\ Len(Remaining) \in Nat
          BY <3>1, <4>2, <5>1, OneMore, LenProperties
        <5>3. \A i \in DOMAIN history' : i \in DOMAIN Remaining \/ i = Len(Remaining) + 1
          BY <5>2
        <5>4. \A i \in DOMAIN Remaining : history'[i] = Remaining[i]
          BY <5>2
        <5>5. <<now, Path>>[2][2] <= Minute(<<now, Path>>[1])
          BY <3>2
        <5>6. QED
          BY <3>1, <5>2, <5>3, <5>4, <5>5
      <4>3. QED
        BY <2>15, <4>1, <4>2 DEF OpenFile, EnteredAs
    <3>7. TypeOK'
      <4>1. \A q \in DOMAIN files' : files'[q] \in Seq(Times)
        BY <3>3, <3>5
      <4>2. /\ handle' \in Paths \cup {NULL} /\ ftime' \in Int /\ flen' \in Nat
            /\ findex' \in Nat /\ synced' \in Nat
        BY <2>15, <3>1, <3>2, <3>5 DEF OpenFile, OpenOn
      <4>3. QED
        BY <2>15, <3>5, <3>6, <4>1, <4>2 DEF OpenFile, TypeOK
    <3>8. EntryIsTrue' /\ UnflushedIsFlagged'
      BY <2>15, <3>2, <3>5 DEF OpenFile, OpenOn
    <3>9. DayOK'
      BY <3>3, <3>5
    <3>10. AgeOK' /\ HistoryOK' /\ RightFile'
      BY <2>15, <3>2, <3>6 DEF OpenFile, OpenOn, Day
    <3>11. QED
      BY <3>7, <3>8, <3>9, <3>10 DEF FileInv
  <2>16. CASE UNCHANGED vars
    BY <2>16 DEF vars, FileInv, TypeOK
  <2>17. QED
    BY <2>1, <2>2, <2>3, <2>4, <2>5, <2>6, <2>7, <2>8, <2>9, <2>10, <2>11, <2>12, <2>13, <2>14, <2>15, <2>16 DEF Next, Worker
<1>3. QED
  BY <1>2

(* FileInv is an invariant of FileRoll.                                    *)
LEMMA FileInvariant == Spec => []FileInv
BY FileInvInit, FileInvStep, PTL DEF Spec

---------------------------------------------------------------------------
(* The theorems                                                            *)

(* Every variable of FileRoll keeps its type.                              *)
THEOREM TypeCorrect == Spec => []TypeOK
<1>1. FileInv => TypeOK
  BY DEF FileInv
<1>2. QED
  BY <1>1, FileInvariant, PTL

(* A file holds the records of one day, in whatever order and however late *)
(* run() comes to them, and whatever setters and loads do meanwhile.       *)
THEOREM FilesOfOneDay == Spec => []DayPure
<1>1. FileInv => DayPure
  BY DEF FileInv, DayOK, DayPure
<1>2. QED
  BY <1>1, FileInvariant, PTL

(* What is in the buffer of a FILE is flagged for the sweep of run().      *)
THEOREM BufferedIsFlagged == Spec => []UnflushedIsFlagged
<1>1. FileInv => UnflushedIsFlagged
  BY DEF FileInv
<1>2. QED
  BY <1>1, FileInvariant, PTL

(* The open file is there.                                                 *)
LEMMA OpenIsThereStep ==
  ASSUME ReserveCoversMinute
  PROVE  FileInv /\ OpenIsThere /\ [Next]_vars => OpenIsThere'
<1> SUFFICES ASSUME FileInv, OpenIsThere, [Next]_vars, handle' # NULL
             PROVE  handle' \in DOMAIN files'
  BY DEF OpenIsThere
<1>1. CASE OpenFile
  <2>1. Path \notin Removed /\ handle' = Path
    BY <1>1, OpenTypes, OpenRemovesOthers DEF OpenFile, OpenOn, FileInv
  <2>2. PICK gone \in Gone : files' = DiskWith(Path, gone)
    BY <1>1 DEF OpenFile
  <2>3. QED
    BY <2>1, <2>2 DEF DiskWith, Gone, Removable
<1>2. CASE ~OpenFile
  <2>1. handle' = handle
    BY <1>2 DEF Next, Worker, Tick, Set, Reset, NewEntry, Take, OpenRefused, OpenKept,
         OpenFails, Write, WriteNowhere, WriteShort, Sweep, SweepClose, Update, Rest, vars, entry
  <2>2. DOMAIN files' = DOMAIN files
    BY <1>2, <2>1 DEF Next, Worker, Tick, Set, Reset, NewEntry, Take, OpenRefused, OpenKept,
         OpenFails, Write, WriteNowhere, WriteShort, Sweep, SweepClose, Update, Rest, vars, disk
  <2>3. QED
    BY <2>1, <2>2 DEF OpenIsThere
<1>3. QED
  BY <1>1, <1>2

LEMMA OpenIsThereInvariant ==
  ASSUME ReserveCoversMinute
  PROVE  Spec => []OpenIsThere
<1>1. Init => OpenIsThere
  BY DEF Init, OpenIsThere
<1>2. QED
  BY <1>1, OpenIsThereStep, FileInvariant, PTL DEF Spec

(* open() never removes the file that it opens, nor a later opening the    *)
(* file that is open, if the ages cover the minute that files are named    *)
(* after and the delay of the records.                                     *)
THEOREM OpenFileIsThere ==
  ASSUME ReserveCoversMinute
  PROVE  Spec => []OpenIsThere
BY OpenIsThereInvariant

(* A file that is over the limit is not written to again.                  *)
THEOREM FilesKeepTheLimit == Spec => KeptWithinLimit
<1>1. ASSUME FileInv, [Next]_vars,
             pc = "open", pc' = "write", handle' = handle, handle \in DOMAIN files
      PROVE  conf.limit < 0 \/ Len(files[handle]) <= conf.limit
  <2>1. /\ Minute(ftime) = handle[2] /\ findex = handle[3] /\ flen = Len(files[handle])
        /\ handle # NULL
    BY <1>1, TimesAreNumbers DEF FileInv, EntryIsTrue, TypeOK
  <2>2. OpenKept \/ OpenFile
    BY <1>1 DEF Next, Worker, Tick, Set, Reset, NewEntry, Take, OpenRefused, OpenFails, Write,
                WriteNowhere, WriteShort, Counted, Sweep, SweepClose, Update, Rest, Dropped, vars
  <2>3. flen \in Int /\ conf.limit \in Int /\ findex \in Nat
    <3>1. conf \in Confs /\ flen \in Nat /\ findex \in Nat
      BY <1>1 DEF FileInv, TypeOK
    <3>2. conf.limit \in Limits
      BY <3>1 DEF Confs
    <3>3. conf.limit \in Int
      BY <3>2, FileAssumption, Zenon DEF FileAssumption
    <3>4. QED
      BY <3>1, <3>3
  <2>4. CASE OpenKept
    BY <2>1, <2>3, <2>4 DEF OpenKept, Keeps, OverLimit
  <2>5. CASE OpenFile
    <3>1. handle = Path /\ Path[2] = Minute(log) /\ Path[3] = NextIndex
      BY <1>1, <2>5, OpenTypes DEF OpenFile, OpenOn, FileInv
    <3>2. SameDay /\ ~Keeps
      BY <2>1, <2>5, <3>1 DEF OpenFile, SameDay, Day
    <3>3. ~OverLimit
      BY <2>1, <2>3, <3>1, <3>2 DEF NextIndex
    <3>4. QED
      BY <1>1, <2>1, <3>2, <3>3 DEF Keeps
  <2>6. QED
    BY <2>2, <2>4, <2>5
<1>2. FileInv /\ [Next]_vars =>
        [pc = "open" /\ pc' = "write" /\ handle' = handle /\ handle \in DOMAIN files
           => conf.limit < 0 \/ Len(files[handle]) <= conf.limit]_vars
  BY <1>1
<1>3. QED
  BY <1>2, FileInvariant, PTL DEF Spec, KeptWithinLimit

(* What StoredStays says of a step.                                        *)
StoredStaysStep ==
  \A p \in DOMAIN files :
    IF p \in DOMAIN files'
    THEN /\ OnDisk(p) <= Len(files'[p])
         /\ \A i \in 1..OnDisk(p) : files'[p][i] = files[p][i]
    ELSE /\ conf.reserve > 0
         /\ \E i \in DOMAIN history : history[i][2] = p /\ history[i][1] < now - conf.reserve

(* What reached the disk stays there, unless open() removes the file as    *)
(* one of those that are older than `reserve'.                             *)
THEOREM StoredRecordsStay == Spec => StoredStays
<1>1. ASSUME FileInv, [Next]_vars PROVE StoredStaysStep
  <2> USE DEF StoredStaysStep
  <2>1. \A p \in DOMAIN files :
          /\ files[p] \in Seq(Times) /\ Len(files[p]) \in Nat
          /\ DOMAIN files[p] = 1..Len(files[p])
    BY <1>1, LenProperties DEF FileInv, TypeOK
  <2>2. synced \in Nat /\ (handle \in DOMAIN files => handle # NULL /\ synced <= Len(files[handle]))
    BY <1>1, TimesAreNumbers DEF FileInv, TypeOK, EntryIsTrue
  <2>3. \A p \in DOMAIN files : OnDisk(p) \in Nat /\ OnDisk(p) <= Len(files[p])
    BY <2>1, <2>2 DEF OnDisk
  <2>4. CASE UNCHANGED files
    BY <2>3, <2>4
  <2>5. ASSUME handle \in DOMAIN files, NEW n \in synced..Len(files[handle]),
               files' = [files EXCEPT ![handle] = SubSeq(@, 1, n)]
        PROVE  StoredStaysStep
    <3>1. n \in 0..Len(files[handle]) /\ synced <= n
      BY <2>1, <2>2, <2>5
    <3>2. /\ DOMAIN files' = DOMAIN files /\ Len(files'[handle]) = n
          /\ \A i \in 1..n : files'[handle][i] = files[handle][i]
          /\ \A p \in DOMAIN files : p # handle => files'[p] = files[p]
      BY <2>1, <2>5, <3>1, Prefix
    <3>3. QED
      BY <2>3, <3>1, <3>2 DEF OnDisk
  <2>6. CASE Write
    <3>1. log \in Times /\ handle \in DOMAIN files
      BY <1>1, <2>6 DEF Write, FileInv, TypeOK
    <3>2. files' = [files EXCEPT ![handle] = Append(@, log)]
      BY <2>6 DEF Write
    <3>3. DOMAIN files' = DOMAIN files
          /\ \A p \in DOMAIN files : /\ Len(files[p]) <= Len(files'[p]) /\ Len(files'[p]) \in Nat
                                    /\ \A i \in DOMAIN files[p] : files'[p][i] = files[p][i]
      <4>1. /\ \A i \in 1..Len(files[handle]) : files'[handle][i] = files[handle][i]
            /\ Len(files'[handle]) = Len(files[handle]) + 1
        BY <2>1, <3>1, <3>2, OneMore
      <4>2. \A p \in DOMAIN files : p # handle => files'[p] = files[p]
        BY <3>2
      <4>3. QED
        BY <2>1, <3>1, <3>2, <4>1, <4>2
    <3>4. QED
      BY <2>1, <2>3, <3>3
  <2>7. CASE OpenFile
    <3>0. PICK gone \in Gone : files' = DiskWith(Path, gone)
      BY <2>7 DEF OpenFile
    <3>1. /\ DOMAIN files' = (DOMAIN files \cup {Path}) \ gone /\ gone \subseteq Removed
          /\ \A p \in DOMAIN files' : files'[p] = Contents(p)
      BY <3>0 DEF DiskWith, Gone, Removable
    <3>2. \A p \in DOMAIN files : p \in DOMAIN files' => files'[p] = files[p]
      BY <3>1 DEF Contents
    <3>3. ASSUME NEW p \in Removed
          PROVE  /\ conf.reserve > 0
                 /\ \E i \in DOMAIN history :
                      history[i][2] = p /\ history[i][1] < now - conf.reserve
      <4>1. PICK i \in Expired : history[i][2] = p
        BY <3>3 DEF Removed
      <4>2. i \in 1..Len(history) /\ TooMany /\ \A j \in 1..i : history[j][1] < now - conf.reserve
        BY <4>1 DEF Expired
      <4>3. i \in 1..i /\ i \in DOMAIN history
        BY <1>1, <4>2, LenProperties DEF FileInv, TypeOK
      <4>4. QED
        BY <4>1, <4>2, <4>3 DEF TooMany
    <3>4. QED
      BY <2>3, <3>1, <3>2, <3>3
  <2>8. CASE Reset
    <3>1. UNCHANGED files \/ (handle \in DOMAIN files
                             /\ files' = [files EXCEPT ![handle] = SubSeq(@, 1, synced)])
      BY <2>8 DEF Reset
    <3>2. handle \in DOMAIN files => synced \in synced..Len(files[handle])
      BY <2>1, <2>2
    <3>3. QED
      BY <2>4, <2>5, <3>1, <3>2
  <2>9. CASE WriteShort
    BY <2>5, <2>9 DEF WriteShort
  <2>10. CASE ~Write /\ ~OpenFile /\ ~Reset /\ ~WriteShort
    <3>1. UNCHANGED files
      BY <1>1, <2>10 DEF Next, Worker, Tick, Set, Take, OpenRefused, OpenKept, OpenFails,
           WriteNowhere, Sweep, SweepClose, Update, Rest, vars, disk
    <3>2. QED
      BY <2>4, <3>1
  <2>11. QED
    BY <2>6, <2>7, <2>8, <2>9, <2>10
<1>2. FileInv /\ [Next]_vars => [StoredStaysStep]_vars
  BY <1>1
<1>3. QED
  BY <1>2, FileInvariant, PTL DEF Spec, StoredStays, StoredStaysStep

(* What remains of the history stands in it after open(), and so does the  *)
(* file that is opened, if files are removed at all.                       *)
LEMMA EnteredInHistory ==
  ASSUME FileInv, OpenFile
  PROVE  /\ \A i \in DOMAIN history \ Expired : \E j \in DOMAIN history' : history'[j] = history[i]
         /\ conf.reserve > 0 => \E j \in DOMAIN history' : history'[j][2] = Path
<1> DEFINE m == Cardinality(Expired)
<1>1. history \in Seq(Int \X Paths) /\ Len(history) \in Nat /\ DOMAIN history = 1..Len(history)
  BY LenProperties DEF FileInv, TypeOK
<1>2. m \in Nat /\ Expired = 1..m
  <2>1. Expired \in SUBSET (1..Len(history))
    BY DEF Expired
  <2>2. \A i \in Expired : \A j \in 1..i : j \in Expired
    BY <1>1 DEF Expired
  <2>3. QED
    BY <1>1, <2>1, <2>2, Interval
<1>3. /\ Remaining \in Seq(Int \X Paths)
      /\ Len(Remaining) \in Nat /\ DOMAIN Remaining = 1..Len(Remaining)
      /\ \A i \in DOMAIN history : i > m =>
           i - m \in DOMAIN Remaining /\ Remaining[i - m] = history[i]
  BY <1>1, <1>2, Suffix, LenProperties DEF Remaining
<1>4. \/ history' = Remaining
         /\ (conf.reserve > 0 => Remaining # <<>> /\ Remaining[Len(Remaining)][2] = Path)
      \/ history' = Append(Remaining, <<now, Path>>)
  BY DEF OpenFile, EnteredAs
<1>5. \A j \in DOMAIN Remaining : j \in DOMAIN history' /\ history'[j] = Remaining[j]
      /\ (history' # Remaining => \E k \in DOMAIN history' : history'[k] = <<now, Path>>)
  <2>1. CASE history' = Remaining
    BY <2>1
  <2>2. CASE history' = Append(Remaining, <<now, Path>>)
    <3>1. <<now, Path>> \in Int \X Paths
      BY OpenTypes, OpenEnters DEF OpenFile, FileInv
    <3>2. /\ DOMAIN history' = 1..(Len(Remaining) + 1)
          /\ \A j \in 1..Len(Remaining) : history'[j] = Remaining[j]
          /\ history'[Len(Remaining) + 1] = <<now, Path>>
      BY <1>3, <2>2, <3>1, OneMore
    <3>3. QED
      BY <1>3, <3>2
  <2>3. QED
    BY <1>4, <2>1, <2>2
<1>6. ASSUME NEW i \in DOMAIN history \ Expired
      PROVE  \E j \in DOMAIN history' : history'[j] = history[i]
  <2>1. i > m
    BY <1>1, <1>2
  <2>2. i - m \in DOMAIN history' /\ history'[i - m] = history[i]
    BY <1>3, <1>5, <2>1
  <2>3. QED
    BY <2>2
<1>7. ASSUME conf.reserve > 0 PROVE \E j \in DOMAIN history' : history'[j][2] = Path
  <2>1. CASE history' = Append(Remaining, <<now, Path>>)
    <3>1. <<now, Path>> \in Int \X Paths
      BY OpenTypes, OpenEnters DEF OpenFile, FileInv
    <3>2. /\ Len(Remaining) + 1 \in DOMAIN history'
          /\ history'[Len(Remaining) + 1] = <<now, Path>>
      BY <1>3, <2>1, <3>1, OneMore
    <3>3. QED
      BY <3>2
  <2>2. CASE history' = Remaining /\ Remaining # <<>> /\ Remaining[Len(Remaining)][2] = Path
    <3>1. Len(Remaining) \in DOMAIN Remaining
      BY <1>3, <2>2, EmptySeq
    <3>2. QED
      BY <2>2, <3>1
  <2>3. QED
    BY <1>4, <1>7, <2>1, <2>2
<1>8. QED
  BY <1>6, <1>7

LEMMA NoFileForgottenStep == FileInv /\ NoFileForgotten /\ [Next]_vars => NoFileForgotten'
<1> SUFFICES ASSUME FileInv, NoFileForgotten, [Next]_vars,
                    changes' = 0, faults' = 0, (conf.reserve)' > 0, NEW p \in DOMAIN files'
             PROVE  \E i \in DOMAIN history' : history'[i][2] = p
  BY DEF NoFileForgotten
<1>1. changes \in Nat /\ faults \in Nat
  BY DEF FileInv, TypeOK
<1>2. ~Set /\ ~Reset /\ ~Update /\ ~OpenFails /\ ~WriteShort
  <2>1. changes' = changes + 1 => FALSE
    BY <1>1
  <2>2. faults' = faults + 1 => FALSE
    BY <1>1
  <2>3. QED
    BY <2>1, <2>2 DEF Set, Reset, NewEntry, Update, OpenFails, WriteShort
<1>3. CASE OpenFile
  <2>1. PICK gone \in Gone : files' = DiskWith(Path, gone) /\ faults' = faults + Failures(gone)
    BY <1>3 DEF OpenFile
  <2>2. changes = 0 /\ faults = 0 /\ conf.reserve > 0 /\ gone = Removable
    BY <1>1, <1>3, <2>1 DEF OpenFile, Failures
  <2>3. p \in DOMAIN files \cup {Path} /\ p \notin Removed
    BY <2>1, <2>2 DEF DiskWith, Removable
  <2>4. CASE p = Path
    BY <1>3, <2>2, <2>4, EnteredInHistory
  <2>5. CASE p \in DOMAIN files
    <3>1. PICK i \in DOMAIN history : history[i][2] = p
      BY <2>2, <2>5 DEF NoFileForgotten
    <3>2. i \notin Expired
      BY <2>3, <3>1 DEF Removed
    <3>3. PICK j \in DOMAIN history' : history'[j] = history[i]
      BY <1>3, <3>2, EnteredInHistory
    <3>4. QED
      BY <3>1, <3>3
  <2>6. QED
    BY <2>3, <2>4, <2>5
<1>4. CASE ~OpenFile
  <2>1. UNCHANGED <<conf, history, changes, faults>>
    BY <1>2, <1>4 DEF Next, Worker, Tick, Take, OpenRefused, OpenKept, Write, WriteNowhere,
         Counted, Sweep, SweepClose, Rest, vars, entry, counts
  <2>2. DOMAIN files' = DOMAIN files
    BY <1>2, <1>4 DEF Next, Worker, Tick, Take, OpenRefused, OpenKept, Write, WriteNowhere,
         Sweep, SweepClose, Rest, vars, disk
  <2>3. QED
    BY <2>1, <2>2 DEF NoFileForgotten
<1>5. QED
  BY <1>3, <1>4

(* While nothing is changed and nothing fails, what open() removes and what *)
(* it takes off the history are the same, also where a path stands in the  *)
(* history twice or is opened again: no file is left that nothing removes. *)
THEOREM NoFileIsForgotten == Spec => []NoFileForgotten
<1>1. Init => NoFileForgotten
  BY DEF Init, NoFileForgotten
<1>2. QED
  BY <1>1, NoFileForgottenStep, FileInvariant, PTL DEF Spec
===========================================================================
