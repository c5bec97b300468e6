----------------------------- MODULE LogRecord -----------------------------
(***************************************************************************)
(* How the text of a record gets into its buffer of Size bytes: make()     *)
(* writes the header, the caller's text follows through vsnprintf() or     *)
(* through a Stream, push() adds function, file and line, and ends it with *)
(* CR LF NUL.  Each of these has its own way to stop at the end of the     *)
(* buffer.                                                                 *)
(*                                                                         *)
(* A byte is "x", a character of text; "d" or "D", a digit or the last     *)
(* digit of a number that a Stream writes with one call; "c", part of a    *)
(* separator ", "; "CR", "LF", "NUL"; or "old", whatever was there before. *)
(* What vsnprintf() writes is text, its numbers included, and so are the   *)
(* two parts that writeDouble() puts together.                             *)
(***************************************************************************)
EXTENDS Integers, Sequences

CONSTANTS
  Size,         (* LOG4X_LOG_BUF_SIZE                                      *)
  Cache,        (* cacheSize of writeULongLong: room it wants for a number *)
  GcvtRoom,     (* 30: room that writeDouble wants                         *)
  Depth,        (* LOG4X_LOG_CONTAINER_DEPTH                               *)
  Headers,      (* lengths of make()'s header                              *)
  Texts,        (* lengths of strings                                      *)
  Digits,       (* lengths of numbers                                      *)
  MaxWrites,    (* bound: values written to a Stream                       *)
  MaxNesting    (* bound: containers within each other                     *)

ASSUME RecordAssumption ==
  /\ Size \in Nat /\ Cache \in Nat \ {0} /\ GcvtRoom \in Nat /\ Depth \in Nat
  /\ Headers \subseteq Nat \ {0} /\ \A h \in Headers : h + Cache < Size
  /\ Texts \subseteq Nat
  /\ Digits \subseteq Nat \ {0} /\ \A d \in Digits : d + 2 <= GcvtRoom
  /\ GcvtRoom <= Cache
  /\ MaxWrites \in Nat /\ MaxNesting \in Nat

VARIABLES
  out,          (* the bytes, the place the next one goes to, and whether  *)
                (* something was left out for lack of room                 *)
  len,          (* log->len                                                *)
  open,         (* the containers being written: elements of each so far   *)
  sep,          (* whether a separator was just written                    *)
  writes, pc

vars == <<out, len, open, sep, writes, pc>>

Symbols == {"x", "d", "D", "c", "CR", "LF", "NUL", "old"}
Offsets == 0..(Size - 1)

Text(n) == [i \in 1..n |-> "x"]
Number(n) == [i \in 1..n |-> IF i = n THEN "D" ELSE "d"]

\* The bytes b with the sequence s at offset p; nothing is out of bounds
\* unless p + Len(s) is.
Laid(b, p, s) ==
  [i \in Offsets |-> IF i \in p..(p + Len(s) - 1) THEN s[i - p + 1] ELSE b[i]]

Init ==
  /\ out = [buf |-> [i \in Offsets |-> "old"], cur |-> 0, cut |-> FALSE]
  /\ len = 0 /\ open = <<>> /\ sep = FALSE /\ writes = 0
  /\ pc = "make"

---------------------------------------------------------------------------
(* Stream: each writer takes the output so far and gives the next          *)

Room(o) == Size - o.cur

\* Slip: the length of a string is not compared with the room.
PutStringAll(o, s) ==
  [buf |-> Laid(o.buf, o.cur, s), cur |-> o.cur + Len(s), cut |-> o.cut]

\* writeString() writes as much as there is room for, to the last byte.
PutString(o, s) ==
  LET t == IF Len(s) <= Room(o) THEN s ELSE SubSeq(s, 1, Room(o))
  IN  [buf |-> Laid(o.buf, o.cur, t), cur |-> o.cur + Len(t),
       cut |-> o.cut \/ Len(s) > Room(o)]

\* writeChar() leaves the last byte alone.
PutChar(o) ==
  IF Room(o) > 1 THEN PutString(o, Text(1)) ELSE [o EXCEPT !.cut = TRUE]

\* writeULongLong(): what it has to write goes in whole, or not at all.
PutDigits(o, s) == IF Room(o) > Cache THEN PutString(o, s) ELSE [o EXCEPT !.cut = TRUE]

\* Slip: a number is written as far as there is room.
PutNumberCut(o, n) == PutString(o, Number(n))

PutNumber(o, n) == PutDigits(o, Number(n))

\* writeLongLong(): a minus sign may go first.
PutSigned(o, minus, n) == PutNumber(IF minus THEN PutChar(o) ELSE o, n)

\* writeDouble() for a number that gcvt() formats: it writes past the digits
\* the NUL that ends them.
PutGcvt(o, n) ==
  IF Room(o) > GcvtRoom
  THEN [o EXCEPT !.buf = Laid(o.buf, o.cur, Append(Number(n), "NUL")), !.cur = @ + n]
  ELSE [o EXCEPT !.cut = TRUE]

\* writeDouble() for the others: integral part, and if there are decimals, a
\* point and m of them.  It asks for less room than its parts do, so that any
\* of them may be missing in the end: what it writes is text, not a number.
PutFixed(o, minus, n, m) ==
  LET integral == PutDigits(IF minus THEN PutChar(o) ELSE o, Text(n)) IN
  IF Room(o) > GcvtRoom
  THEN IF m = 0 THEN integral ELSE PutDigits(PutChar(integral), Text(m))
  ELSE [o EXCEPT !.cut = TRUE]

Separator == <<"c", "c">>

---------------------------------------------------------------------------
(* make()                                                                  *)

Make ==
  /\ pc = "make"
  /\ \E h \in Headers :
       /\ out' = PutString(out, Text(h))
       /\ len' = h
  /\ pc' \in {"format", "stream"}
  /\ UNCHANGED <<open, sep, writes>>

---------------------------------------------------------------------------
(* push(key, level, func, file, line, fmt, ...)                            *)

\* Slip: vsnprintf() is given half of the buffer.
FormatHalf ==
  /\ pc = "format"
  /\ \E n \in Texts :
       LET room == (Size \div 2) - len
           shown == IF n < room THEN n ELSE room - 1
       IN  /\ out' = [buf |-> Laid(out.buf, len, Append(Text(shown), "NUL")),
                      cur |-> len + shown, cut |-> n >= room]
           /\ len' = len + shown
  /\ pc' = "suffix"
  /\ UNCHANGED <<open, sep, writes>>

\* vsnprintf() writes at most room - 1 characters and a NUL, and returns how
\* many it would have written; that is clamped to the room, NUL included.  A
\* negative result counts as nothing.  The text ends wherever the room does,
\* in the middle of a number too.
Format ==
  /\ pc = "format"
  /\ LET room == Size - len IN
     \/ \E n \in Texts :
          LET shown == IF n < room THEN n ELSE room - 1
              length == IF n > room THEN room ELSE n
          IN  /\ out' = [buf |-> Laid(out.buf, len, Append(Text(shown), "NUL")),
                         cur |-> len + length, cut |-> n >= room]
              /\ len' = len + length
     \/ UNCHANGED <<out, len>>
  /\ pc' = "suffix"
  /\ UNCHANGED <<open, sep, writes>>

---------------------------------------------------------------------------
(* LOG_STREAM                                                              *)

\* Within a container, only so many elements are written.
MayWrite == open # <<>> => Head(open) < Depth

\* A string, a character, a number, nan or inf.
StreamValue ==
  /\ pc = "stream"
  /\ writes < MaxWrites /\ writes' = writes + 1
  /\ MayWrite
  /\ \/ out' = PutChar(out)
     \/ \E n \in Texts : out' = PutString(out, Text(n))
     \/ \E n \in Digits, minus \in BOOLEAN : out' = PutSigned(out, minus, n)
     \/ \E n \in Digits : out' = PutGcvt(out, n)
     \/ \E n \in Digits, m \in Digits \cup {0}, minus \in BOOLEAN :
          out' = PutFixed(out, minus, n, m)
  /\ sep' = FALSE
  /\ UNCHANGED <<len, open, pc>>

\* The name of the container, its size in parentheses, and a bracket.
ContainerBegin ==
  /\ pc = "stream"
  /\ writes < MaxWrites /\ writes' = writes + 1
  /\ MayWrite
  /\ Len(open) < MaxNesting
  /\ \E n, d \in Digits : out' = PutString(PutNumber(PutString(out, Text(n)), d), Text(2))
  /\ open' = <<0>> \o open
  /\ sep' = FALSE
  /\ UNCHANGED <<len, pc>>

\* The separator after an element.
ContainerElement ==
  /\ pc = "stream"
  /\ open # <<>> /\ Head(open) < Depth /\ ~sep
  /\ out' = PutString(out, Separator)
  /\ open' = [open EXCEPT ![1] = @ + 1]
  /\ sep' = TRUE
  /\ UNCHANGED <<len, writes, pc>>

\* There are more elements than are written.
ContainerMore ==
  /\ pc = "stream"
  /\ open # <<>> /\ Head(open) = Depth /\ sep
  /\ out' = PutString(out, Text(3) \o Separator)
  /\ open' = [open EXCEPT ![1] = @ + 1]
  /\ UNCHANGED <<len, sep, writes, pc>>

\* Slip: the step back is taken for an empty container too.
ContainerEndAlways ==
  /\ pc = "stream"
  /\ open # <<>> /\ (Head(open) = 0 \/ sep)
  /\ out' = PutString([out EXCEPT !.cur = @ - 2], Text(1))
  /\ open' = Tail(open)
  /\ sep' = FALSE
  /\ UNCHANGED <<len, writes, pc>>

\* The last separator is taken back, whatever came of it.
ContainerEnd ==
  /\ pc = "stream"
  /\ open # <<>> /\ (Head(open) = 0 \/ sep)
  /\ out' = PutString(IF Head(open) = 0 THEN out ELSE [out EXCEPT !.cur = @ - 2], Text(1))
  /\ open' = Tail(open)
  /\ sep' = FALSE
  /\ UNCHANGED <<len, writes, pc>>

StreamEnd ==
  /\ pc = "stream"
  /\ open = <<>>
  /\ len' = out.cur
  /\ pc' = "suffix"
  /\ UNCHANGED <<out, open, sep, writes>>

---------------------------------------------------------------------------
(* push(log, func, file, line)                                             *)

\* " [func:file:line]" after the text, if the key wants it.
Suffix ==
  /\ pc = "suffix"
  /\ \/ UNCHANGED <<out, len>>
     \/ \E f, n \in Texts, d \in Digits :
          LET o1 == PutString(PutChar(PutChar([out EXCEPT !.cur = len])), Text(f))
              o2 == PutString(PutChar(o1), Text(n))
              o3 == PutChar(PutNumber(PutChar(o2), d))
          IN  out' = o3 /\ len' = o3.cur
  /\ pc' = "end"
  /\ UNCHANGED <<open, sep, writes>>

\* Slip: no room is made for the NUL.
EndWithoutNul ==
  /\ pc = "end"
  /\ LET l == IF len + 2 > Size THEN Size - 2 ELSE len
     IN  /\ out' = [buf |-> Laid(out.buf, l, <<"CR", "LF", "NUL">>), cur |-> l + 2,
                    cut |-> out.cut \/ len > l]
         /\ len' = l + 2
  /\ pc' = "done"
  /\ UNCHANGED <<open, sep, writes>>

End ==
  /\ pc = "end"
  /\ LET l == IF len + 3 > Size THEN Size - 3 ELSE len
     IN  /\ out' = [buf |-> Laid(out.buf, l, <<"CR", "LF", "NUL">>), cur |-> l + 2,
                    cut |-> out.cut \/ len > l]
         /\ len' = l + 2
  /\ pc' = "done"
  /\ UNCHANGED <<open, sep, writes>>

Next ==
  \/ Make \/ Format
  \/ StreamValue \/ ContainerBegin \/ ContainerElement \/ ContainerMore \/ ContainerEnd
  \/ StreamEnd
  \/ Suffix \/ End

Spec == Init /\ [][Next]_vars
===========================================================================
