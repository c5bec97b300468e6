----------------------------- MODULE LogStore -----------------------------
(***************************************************************************)
(* What the log files of a key promise, with none of the lengths, indices,  *)
(* histories and flags by which they are kept.  One file is open; records  *)
(* wait in its buffer in the order they were written, and get to disk in   *)
(* that order, behind what the file holds.  Closing a file empties the     *)
(* buffer.  Only a mishap loses what was written, or drops a record.       *)
(***************************************************************************)
EXTENDS Integers, Sequences

CONSTANTS
  Records,    (* the log records                                           *)
  Names,      (* the files there may be                                    *)
  NoRecord,   (* no record is being handled                                *)
  NoName,     (* no file is open                                           *)
  Belongs,    (* <<r, f>> for each record r that file f may hold           *)
  Older       (* <<e, f>> for each file e that may be removed for f        *)

VARIABLES
  stored,     (* what each file holds on disk                              *)
  open,       (* the open file, or NoName                                  *)
  buffered,   (* what was written to it and is not on disk                 *)
  hand,       (* the record being handled, or NoRecord                     *)
  mishaps     (* changes of the settings, and faults of the file system    *)

vars == <<stored, open, buffered, hand, mishaps>>

Init ==
  /\ stored = [f \in {} |-> <<>>]
  /\ open = NoName
  /\ buffered = <<>>
  /\ hand = NoRecord
  /\ mishaps = 0

\* The first n of the buffer get to disk.
StoredAfter(n) ==
  [f \in DOMAIN stored |->
     IF f = open THEN stored[f] \o SubSeq(buffered, 1, n) ELSE stored[f]]
Whole == StoredAfter(Len(buffered))

Accept(r) ==
  /\ hand = NoRecord
  /\ hand' = r
  /\ UNCHANGED <<stored, open, buffered, mishaps>>

\* The old file is closed; the new one keeps what it holds; older ones may go,
\* and it is a mishap if one stays that should.
Open ==
  /\ hand # NoRecord
  /\ open' \in Names
  /\ <<hand, open'>> \in Belongs
  /\ \E old \in SUBSET DOMAIN stored :
       /\ \A f \in old : <<f, open'>> \in Older
       /\ stored' = [f \in (DOMAIN stored \cup {open'}) \ old |->
                       IF f \in DOMAIN stored THEN Whole[f] ELSE <<>>]
  /\ buffered' = <<>>
  /\ mishaps' \in {mishaps, mishaps + 1}
  /\ UNCHANGED hand

\* The record goes behind the buffer, and some of that to disk.
Write ==
  /\ hand # NoRecord
  /\ open \in DOMAIN stored
  /\ <<hand, open>> \in Belongs
  /\ \E n \in 0..(Len(buffered) + 1) :
       LET b == Append(buffered, hand) IN
       /\ stored' = [stored EXCEPT ![open] = @ \o SubSeq(b, 1, n)]
       /\ buffered' = SubSeq(b, n + 1, Len(b))
  /\ hand' = NoRecord
  /\ UNCHANGED <<open, mishaps>>

Flush ==
  /\ stored' = Whole
  /\ buffered' = <<>>
  /\ UNCHANGED <<open, hand, mishaps>>

Close ==
  /\ stored' = Whole
  /\ buffered' = <<>>
  /\ open' = NoName
  /\ UNCHANGED <<hand, mishaps>>

\* After a mishap a record may find no file to go to.
Drop ==
  /\ mishaps > 0
  /\ hand' = NoRecord
  /\ UNCHANGED <<stored, open, buffered, mishaps>>

\* Nothing comes of it.
Harmless ==
  /\ mishaps' = mishaps + 1
  /\ UNCHANGED <<stored, open, buffered, hand>>

\* The file is closed, the end of the buffer may be lost, and the record too.
Mishap ==
  /\ mishaps' = mishaps + 1
  /\ \E n \in 0..Len(buffered) : stored' = StoredAfter(n)
  /\ buffered' = <<>>
  /\ open' = NoName
  /\ hand' \in {hand, NoRecord}

Next ==
  \/ \E r \in Records : Accept(r)
  \/ Open \/ Write \/ Flush \/ Close
  \/ Drop \/ Harmless \/ Mishap

Spec == Init /\ [][Next]_vars
===========================================================================
