-------------------------- MODULE LogRecord_proofs --------------------------
(***************************************************************************)
(* Proofs about LogRecord, for a buffer, headers, texts and numbers of any *)
(* length.  Whatever is written, what lies before the next byte is text    *)
(* whose numbers are whole (Whole), and something was left out only if the *)
(* rest is no longer than the room a number wants (Full).                  *)
(***************************************************************************)
EXTENDS LogRecordProps, SequenceTheorems, TLAPS

USE RecordAssumption

Outputs == [buf : [Offsets -> Symbols], cur : 0..Size, cut : BOOLEAN]
Printable == {"x", "d", "D", "c"}
Digit == {"d", "D"}

\* Numbers end before the three last bytes, which End may take.
Whole(o) ==
  /\ o \in Outputs
  /\ \A i \in Offsets : i < o.cur /\ i < Size - 1 => o.buf[i] \in Printable
  /\ \A i \in Offsets : i < o.cur /\ o.buf[i] \in Digit => i < Size - 3
  /\ \A i \in Offsets : i < o.cur /\ o.buf[i] = "d" => i + 1 < o.cur /\ o.buf[i + 1] \in Digit

Full(o) == o.cut => o.cur >= Size - Cache

\* From o to p nothing is taken back or overwritten.
Kept(o, p) ==
  /\ o.cur <= p.cur
  /\ o.cut => p.cut
  /\ \A i \in Offsets : i < o.cur => p.buf[i] = o.buf[i]

\* A writer that is given o may leave p.
Grows(o, p) == Whole(p) /\ (Full(o) => Full(p)) /\ Kept(o, p)

---------------------------------------------------------------------------
(* Sequences of bytes                                                      *)

LEMMA TextIs ==
  ASSUME NEW n \in Nat
  PROVE  /\ Text(n) \in Seq({"x"}) /\ Text(n) \in Seq(Symbols) /\ Len(Text(n)) = n
         /\ \A i \in 1..n : Text(n)[i] = "x"
<1>1. Text(n) \in [1..n -> {"x"}] /\ Text(n) \in [1..n -> Symbols]
  BY DEF Text, Symbols
<1>2. QED
  BY <1>1, IsASeq, LenProperties

LEMMA NumberIs ==
  ASSUME NEW n \in Nat
  PROVE  /\ Number(n) \in Seq(Symbols) /\ Len(Number(n)) = n
         /\ \A i \in 1..n : Number(n)[i] = IF i = n THEN "D" ELSE "d"
<1>1. Number(n) \in [1..n -> Symbols]
  BY DEF Number, Symbols
<1>2. \A i \in 1..n : Number(n)[i] = IF i = n THEN "D" ELSE "d"
  BY DEF Number
<1>3. QED
  BY <1>1, <1>2, IsASeq, LenProperties

(* Laid changes the bytes that the sequence covers.                        *)
LEMMA LaidIs ==
  ASSUME NEW b \in [Offsets -> Symbols], NEW p \in Nat, NEW s \in Seq(Symbols)
  PROVE  /\ Laid(b, p, s) \in [Offsets -> Symbols]
         /\ \A i \in Offsets :
              Laid(b, p, s)[i] = IF p <= i /\ i < p + Len(s) THEN s[i - p + 1] ELSE b[i]
<1>1. Len(s) \in Nat /\ \A i \in 1..Len(s) : s[i] \in Symbols
  BY LenProperties, ElementOfSeq
<1>2. ASSUME NEW i \in Offsets
      PROVE  /\ i \in p..(p + Len(s) - 1) <=> (p <= i /\ i < p + Len(s))
             /\ p <= i /\ i < p + Len(s) => i - p + 1 \in 1..Len(s)
  BY <1>1 DEF Offsets
<1>3. \A i \in Offsets :
        Laid(b, p, s)[i] = IF p <= i /\ i < p + Len(s) THEN s[i - p + 1] ELSE b[i]
  BY <1>2 DEF Laid
<1>4. \A i \in Offsets :
        (IF i \in p..(p + Len(s) - 1) THEN s[i - p + 1] ELSE b[i]) \in Symbols
  BY <1>1, <1>2
<1>5. QED
  BY <1>3, <1>4 DEF Laid

(* What is written is all of the sequence, or what there is room for.      *)
LEMMA PutStringIs ==
  ASSUME NEW o \in Outputs, NEW s \in Seq(Symbols)
  PROVE  LET p == PutString(o, s) IN
           /\ p \in Outputs
           /\ p.cur = IF Len(s) <= Room(o) THEN o.cur + Len(s) ELSE Size
           /\ p.cut = (o.cut \/ Len(s) > Room(o))
           /\ \A i \in Offsets :
                p.buf[i] = IF o.cur <= i /\ i < p.cur THEN s[i - o.cur + 1] ELSE o.buf[i]
<1> DEFINE t == IF Len(s) <= Room(o) THEN s ELSE SubSeq(s, 1, Room(o))
<1>1. /\ o.buf \in [Offsets -> Symbols] /\ o.cur \in 0..Size /\ o.cut \in BOOLEAN
      /\ Len(s) \in Nat /\ Room(o) \in Nat /\ Room(o) = Size - o.cur
  BY LenProperties DEF Outputs, Room
<1>2. /\ t \in Seq(Symbols)
      /\ Len(t) = IF Len(s) <= Room(o) THEN Len(s) ELSE Room(o)
      /\ \A i \in 1..Len(t) : t[i] = s[i]
  <2>1. CASE Len(s) <= Room(o)
    BY <1>1, <2>1
  <2>2. CASE ~(Len(s) <= Room(o))
    <3>1. t = SubSeq(s, 1, Room(o))
      BY <2>2
    <3>2. 1 \in 1..(Len(s) + 1) /\ Room(o) \in 0..Len(s)
      BY <1>1, <2>2
    <3>3. SubSeq(s, 1, Room(o)) \in Seq(Symbols) /\ Len(SubSeq(s, 1, Room(o))) = Room(o)
          /\ \A i \in 1..Room(o) : SubSeq(s, 1, Room(o))[i] = s[i]
      BY <1>1, <2>2, <3>2, SubSeqProperties
    <3>4. QED
      BY <2>2, <3>1, <3>3
  <2>3. QED
    BY <2>1, <2>2
<1> HIDE DEF t
<1>3. PutString(o, s) = [buf |-> Laid(o.buf, o.cur, t), cur |-> o.cur + Len(t),
                         cut |-> o.cut \/ Len(s) > Room(o)]
  BY DEF PutString, t
<1>4. o.cur + Len(t) \in 0..Size
      /\ o.cur + Len(t) = IF Len(s) <= Room(o) THEN o.cur + Len(s) ELSE Size
  BY <1>1, <1>2
<1>5. /\ Laid(o.buf, o.cur, t) \in [Offsets -> Symbols]
      /\ \A i \in Offsets :
           Laid(o.buf, o.cur, t)[i] =
             IF o.cur <= i /\ i < o.cur + Len(t) THEN t[i - o.cur + 1] ELSE o.buf[i]
  <2>1. o.buf \in [Offsets -> Symbols] /\ o.cur \in Nat /\ t \in Seq(Symbols)
    BY <1>1, <1>2
  <2>2. QED
    BY <2>1, LaidIs
<1>6. ASSUME NEW i \in Offsets, o.cur <= i, i < o.cur + Len(t)
      PROVE  t[i - o.cur + 1] = s[i - o.cur + 1]
  <2>1. i - o.cur + 1 \in 1..Len(t)
    BY <1>1, <1>2, <1>6 DEF Offsets
  <2>2. QED
    BY <1>2, <2>1
<1>7. PutString(o, s) \in Outputs
  BY <1>1, <1>3, <1>4, <1>5 DEF Outputs
<1>8. QED
  BY <1>3, <1>4, <1>5, <1>6, <1>7

---------------------------------------------------------------------------
(* The writers                                                             *)

Plain(s) == s \in Seq(Symbols) /\ \A i \in 1..Len(s) : s[i] \in {"x", "c"}

\* The last two bytes of s are a separator.
Separated(s) == Len(s) >= 2 /\ \A i \in (Len(s) - 1)..Len(s) : s[i] = "c"

LEMMA PlainJoined ==
  ASSUME NEW a, NEW c, Plain(a), Plain(c), Len(c) = 2, Separated(c)
  PROVE  Plain(a \o c) /\ Separated(a \o c)
<1> DEFINE q == a \o c
<1>1. a \in Seq(Symbols) /\ c \in Seq(Symbols) /\ Len(a) \in Nat /\ Len(c) = 2
  BY LenProperties DEF Plain
<1>2. /\ q \in Seq(Symbols) /\ Len(q) = Len(a) + Len(c)
      /\ \A i \in 1..(Len(a) + Len(c)) : q[i] = IF i <= Len(a) THEN a[i] ELSE c[i - Len(a)]
  BY <1>1, ConcatProperties
<1> HIDE DEF q
<1>3. ASSUME NEW i \in 1..Len(q), i <= Len(a) PROVE q[i] \in {"x", "c"}
  BY <1>1, <1>2, <1>3 DEF Plain
<1>4. ASSUME NEW i \in 1..Len(q), ~(i <= Len(a)) PROVE q[i] = "c"
  <2>1. i - Len(a) \in 1..2
    BY <1>1, <1>2, <1>4
  <2>2. c[i - Len(a)] = "c"
    BY <1>1, <2>1 DEF Separated
  <2>3. QED
    BY <1>1, <1>2, <1>4, <2>2
<1>5. Len(q) >= 2 /\ \A i \in (Len(q) - 1)..Len(q) : i \in 1..Len(q) /\ ~(i <= Len(a))
  BY <1>1, <1>2
<1>6. QED
  BY <1>2, <1>3, <1>4, <1>5 DEF Plain, Separated, q

LEMMA PlainTexts ==
  /\ \A n \in Nat : Plain(Text(n)) /\ Len(Text(n)) = n
  /\ Plain(Separator) /\ Separated(Separator)
  /\ Plain(Text(3) \o Separator) /\ Separated(Text(3) \o Separator)
<1>1. \A n \in Nat : Plain(Text(n)) /\ Len(Text(n)) = n
  BY TextIs DEF Plain
<1>2. Plain(Separator) /\ Len(Separator) = 2 /\ Separated(Separator)
  <2>1. Separator \in Seq(Symbols)
    BY DEF Separator, Symbols
  <2>2. Len(Separator) = 2 /\ Separator[1] = "c" /\ Separator[2] = "c"
    BY DEF Separator
  <2>3. \A i \in 1..2 : i = 1 \/ i = 2
    OBVIOUS
  <2>4. QED
    BY <2>1, <2>2, <2>3 DEF Plain, Separated
<1>3. QED
  BY <1>1, <1>2, PlainJoined

(* Text and separators, as much as there is room for.                      *)
LEMMA TextGrows ==
  ASSUME NEW o, Whole(o), NEW s, Plain(s)
  PROVE  Grows(o, PutString(o, s))
<1> DEFINE p == PutString(o, s)
<1>1. /\ o \in Outputs /\ s \in Seq(Symbols) /\ Len(s) \in Nat
      /\ o.cur \in 0..Size /\ o.cut \in BOOLEAN /\ Room(o) = Size - o.cur
  BY LenProperties DEF Whole, Plain, Outputs, Room
<1>2. /\ p \in Outputs
      /\ p.cur = IF Len(s) <= Room(o) THEN o.cur + Len(s) ELSE Size
      /\ p.cut = (o.cut \/ Len(s) > Room(o))
      /\ \A i \in Offsets :
           p.buf[i] = IF o.cur <= i /\ i < p.cur THEN s[i - o.cur + 1] ELSE o.buf[i]
  BY <1>1, PutStringIs
<1> HIDE DEF p
<1>3. p.cur \in 0..Size /\ o.cur <= p.cur /\ p.cur <= o.cur + Len(s)
  BY <1>1, <1>2
<1>4. ASSUME NEW i \in Offsets, i < o.cur PROVE p.buf[i] = o.buf[i]
  BY <1>1, <1>2, <1>4 DEF Offsets
<1>5. ASSUME NEW i \in Offsets, i < p.cur, ~(i < o.cur) PROVE p.buf[i] \in {"x", "c"}
  <2>1. i - o.cur + 1 \in 1..Len(s) /\ o.cur <= i
    BY <1>1, <1>3, <1>5 DEF Offsets
  <2>2. p.buf[i] = s[i - o.cur + 1]
    BY <1>2, <1>5, <2>1
  <2>3. QED
    BY <2>1, <2>2 DEF Plain
<1>6. Whole(p)
  <2>1. ASSUME NEW i \in Offsets, i < p.cur, i < Size - 1 PROVE p.buf[i] \in Printable
    BY <1>4, <1>5, <2>1 DEF Whole, Printable
  <2>2. ASSUME NEW i \in Offsets, i < p.cur, p.buf[i] \in Digit
        PROVE  i < o.cur /\ o.buf[i] = p.buf[i] /\ i < Size - 3
    BY <1>4, <1>5, <2>2 DEF Whole, Digit
  <2>3. ASSUME NEW i \in Offsets, i < p.cur, p.buf[i] = "d"
        PROVE  i + 1 < p.cur /\ p.buf[i + 1] \in Digit
    <3>1. i < o.cur /\ o.buf[i] = "d"
      BY <2>2, <2>3 DEF Digit
    <3>2. i + 1 < o.cur /\ o.buf[i + 1] \in Digit
      BY <3>1 DEF Whole
    <3>3. i + 1 \in Offsets
      BY <1>1, <3>2 DEF Offsets
    <3>4. QED
      BY <1>1, <1>3, <1>4, <3>2, <3>3 DEF Offsets
  <2>4. QED
    BY <1>2, <2>1, <2>2, <2>3 DEF Whole
<1>7. Full(o) => Full(p)
  BY <1>1, <1>2, <1>3 DEF Full
<1>8. Kept(o, p)
  BY <1>2, <1>3, <1>4 DEF Kept
<1>9. QED
  BY <1>6, <1>7, <1>8 DEF Grows, p

(* One writer after the other.                                             *)
LEMMA GrowsOn ==
  ASSUME NEW o, NEW p, NEW q, o \in Outputs, Grows(o, p), Grows(p, q)
  PROVE  Grows(o, q)
<1>1. o.cur \in 0..Size /\ p.cur \in 0..Size /\ q.cur \in 0..Size
  BY DEF Outputs, Grows, Whole
<1>2. ASSUME NEW i \in Offsets, i < o.cur PROVE q.buf[i] = o.buf[i]
  <2>1. p.buf[i] = o.buf[i] /\ i < p.cur
    BY <1>1, <1>2 DEF Grows, Kept, Offsets
  <2>2. QED
    BY <2>1 DEF Grows, Kept
<1>3. Kept(o, q)
  BY <1>1, <1>2 DEF Grows, Kept
<1>4. QED
  BY <1>3 DEF Grows

(* A writer that leaves something out for lack of room.                    *)
LEMMA CutGrows ==
  ASSUME NEW o, Whole(o), Room(o) <= Cache
  PROVE  Grows(o, [o EXCEPT !.cut = TRUE])
<1> DEFINE p == [o EXCEPT !.cut = TRUE]
<1>1. o \in Outputs /\ o.cur \in 0..Size /\ Room(o) = Size - o.cur
  BY DEF Whole, Outputs, Room
<1>2. p \in Outputs /\ p.cur = o.cur /\ p.buf = o.buf /\ p.cut = TRUE
  BY <1>1 DEF Outputs
<1> HIDE DEF p
<1>3. Whole(p)
  BY <1>2 DEF Whole
<1>4. Full(p)
  BY <1>1, <1>2 DEF Full
<1>5. Kept(o, p)
  BY <1>1, <1>2 DEF Kept
<1>6. QED
  BY <1>3, <1>4, <1>5 DEF Grows, p

LEMMA CharGrows == ASSUME NEW o, Whole(o) PROVE Grows(o, PutChar(o))
<1>1. CASE Room(o) > 1
  BY <1>1, TextGrows, PlainTexts DEF PutChar
<1>2. CASE ~(Room(o) > 1)
  <2>1. Room(o) <= Cache
    BY <1>2 DEF Room, Whole, Outputs
  <2>2. QED
    BY <1>2, <2>1, CutGrows DEF PutChar
<1>3. QED
  BY <1>1, <1>2

(* The digits of a number, and perhaps what is beyond, but not counted.    *)
LEMMA DigitsGrow ==
  ASSUME NEW o, Whole(o), NEW n \in Digits, NEW p \in Outputs, Room(o) > n + 2,
         p.cur = o.cur + n, p.cut = o.cut,
         \A i \in Offsets : i < p.cur =>
           p.buf[i] = IF o.cur <= i THEN Number(n)[i - o.cur + 1] ELSE o.buf[i]
  PROVE  Grows(o, p)
<1>1. o.cur \in 0..Size /\ p.cur < Size - 2 /\ n \in Nat \ {0}
  BY DEF Whole, Outputs, Room
<1>2. ASSUME NEW i \in Offsets, i < o.cur PROVE p.buf[i] = o.buf[i] /\ i < p.cur
  BY <1>1, <1>2 DEF Offsets
<1>3. ASSUME NEW i \in Offsets, i < p.cur, ~(i < o.cur)
      PROVE  p.buf[i] = IF i + 1 = p.cur THEN "D" ELSE "d"
  <2>1. /\ i - o.cur + 1 \in 1..n
        /\ i - o.cur + 1 = n <=> i + 1 = p.cur
    BY <1>1, <1>3 DEF Offsets
  <2>2. p.buf[i] = Number(n)[i - o.cur + 1]
    BY <1>1, <1>3 DEF Offsets
  <2>3. QED
    BY <2>1, <2>2, NumberIs
<1>4. Whole(p)
  <2>1. ASSUME NEW i \in Offsets, i < p.cur PROVE (p.buf[i] \in Printable /\ i < Size - 3) \/ i < o.cur
    BY <1>1, <1>3, <2>1 DEF Printable, Offsets
  <2>2. ASSUME NEW i \in Offsets, i < p.cur, p.buf[i] = "d"
        PROVE  i + 1 < p.cur /\ p.buf[i + 1] \in Digit
    <3>1. CASE i < o.cur
      <4>1. i + 1 < o.cur /\ o.buf[i + 1] \in Digit
        BY <1>2, <2>2, <3>1 DEF Whole
      <4>2. i + 1 \in Offsets
        BY <1>1, <4>1 DEF Offsets
      <4>3. QED
        BY <1>2, <4>1, <4>2
    <3>2. CASE ~(i < o.cur)
      <4>1. i + 1 # p.cur
        BY <1>3, <2>2, <3>2
      <4>2. i + 1 \in Offsets /\ i + 1 < p.cur /\ ~(i + 1 < o.cur)
        BY <1>1, <2>2, <3>2, <4>1 DEF Offsets
      <4>3. p.buf[i + 1] \in Digit
        BY <1>3, <4>2 DEF Digit
      <4>4. QED
        BY <4>2, <4>3
    <3>3. QED
      BY <3>1, <3>2
  <2>3. \A i \in Offsets : i < p.cur /\ i < Size - 1 => p.buf[i] \in Printable
    BY <1>2, <2>1 DEF Whole
  <2>4. \A i \in Offsets : i < p.cur /\ p.buf[i] \in Digit => i < Size - 3
    BY <1>2, <2>1 DEF Whole
  <2>5. QED
    BY <2>2, <2>3, <2>4 DEF Whole
<1>5. Full(o) => Full(p)
  BY <1>1 DEF Full
<1>6. Kept(o, p)
  BY <1>1, <1>2 DEF Kept
<1>7. QED
  BY <1>4, <1>5, <1>6 DEF Grows

LEMMA NumberGrows == ASSUME NEW o, Whole(o), NEW n \in Digits PROVE Grows(o, PutNumber(o, n))
<1>1. o \in Outputs /\ o.cur \in 0..Size /\ Room(o) = Size - o.cur /\ n \in Nat /\ n + 2 <= Cache
  BY DEF Whole, Outputs, Room
<1>2. CASE Room(o) > Cache
  <2> DEFINE p == PutString(o, Number(n))
  <2>1. Number(n) \in Seq(Symbols) /\ Len(Number(n)) = n
    BY <1>1, NumberIs
  <2>2. /\ p \in Outputs
        /\ p.cur = IF Len(Number(n)) <= Room(o) THEN o.cur + Len(Number(n)) ELSE Size
        /\ p.cut = (o.cut \/ Len(Number(n)) > Room(o))
        /\ \A i \in Offsets :
             p.buf[i] = IF o.cur <= i /\ i < p.cur THEN Number(n)[i - o.cur + 1] ELSE o.buf[i]
    BY <1>1, <2>1, PutStringIs
  <2> HIDE DEF p
  <2>3. p.cur = o.cur + n
    BY <1>1, <1>2, <2>1, <2>2
  <2>4. p.cut = o.cut
    <3>1. ~(Len(Number(n)) > Room(o))
      BY <1>1, <1>2, <2>1
    <3>2. o.cut \in BOOLEAN
      BY <1>1 DEF Outputs
    <3>3. QED
      BY <2>2, <3>1, <3>2
  <2>5. Room(o) > n + 2
    BY <1>1, <1>2
  <2>6. Grows(o, p)
    BY <2>2, <2>3, <2>4, <2>5, DigitsGrow
  <2>7. QED
    BY <1>2, <2>6 DEF PutNumber, PutDigits, p
<1>3. CASE ~(Room(o) > Cache)
  <2>1. Room(o) <= Cache
    BY <1>1, <1>3
  <2>2. QED
    BY <1>3, <2>1, CutGrows DEF PutNumber, PutDigits
<1>4. QED
  BY <1>2, <1>3

(* Text that is written whole, or not at all.                              *)
LEMMA PlainDigitsGrow ==
  ASSUME NEW o, Whole(o), NEW n \in Nat
  PROVE  Grows(o, PutDigits(o, Text(n)))
<1>1. CASE Room(o) > Cache
  BY <1>1, TextGrows, PlainTexts DEF PutDigits
<1>2. CASE ~(Room(o) > Cache)
  <2>1. Room(o) <= Cache
    BY <1>2 DEF Room, Whole, Outputs
  <2>2. QED
    BY <1>2, <2>1, CutGrows DEF PutDigits
<1>3. QED
  BY <1>1, <1>2

LEMMA SignedGrows ==
  ASSUME NEW o, Whole(o), NEW minus \in BOOLEAN, NEW n \in Digits
  PROVE  Grows(o, PutSigned(o, minus, n))
<1>1. Grows(o, PutChar(o)) /\ o \in Outputs
  BY CharGrows DEF Whole
<1>2. Grows(PutChar(o), PutNumber(PutChar(o), n))
  BY <1>1, NumberGrows DEF Grows
<1>3. QED
  BY <1>1, <1>2, GrowsOn, NumberGrows DEF PutSigned

(* The NUL of gcvt() is beyond what counts.                                *)
LEMMA GcvtGrows == ASSUME NEW o, Whole(o), NEW n \in Digits PROVE Grows(o, PutGcvt(o, n))
<1>1. /\ o \in Outputs /\ o.buf \in [Offsets -> Symbols] /\ o.cur \in 0..Size
      /\ Room(o) = Size - o.cur /\ n \in Nat /\ n + 2 <= GcvtRoom
  BY DEF Whole, Outputs, Room
<1>2. CASE Room(o) > GcvtRoom
  <2> DEFINE s == Append(Number(n), "NUL")
             b == Laid(o.buf, o.cur, s)
             p == [o EXCEPT !.buf = b, !.cur = @ + n]
  <2>1. /\ s \in Seq(Symbols) /\ Len(s) = n + 1
        /\ \A i \in 1..n : s[i] = Number(n)[i]
    <3>1. Number(n) \in Seq(Symbols) /\ Len(Number(n)) = n /\ "NUL" \in Symbols
      BY <1>1, NumberIs DEF Symbols
    <3>2. QED
      BY <1>1, <3>1, AppendProperties
  <2> HIDE DEF s
  <2>2. /\ b \in [Offsets -> Symbols]
        /\ \A i \in Offsets :
             b[i] = IF o.cur <= i /\ i < o.cur + Len(s) THEN s[i - o.cur + 1] ELSE o.buf[i]
    <3>1. o.buf \in [Offsets -> Symbols] /\ o.cur \in Nat
      BY <1>1
    <3>2. QED
      BY <2>1, <3>1, LaidIs
  <2> HIDE DEF b
  <2>3. p \in Outputs /\ p.buf = b /\ p.cur = o.cur + n /\ p.cut = o.cut
    <3>1. o.cur + n \in 0..Size /\ o.cut \in BOOLEAN
      BY <1>1, <1>2 DEF Outputs
    <3>2. p = [[o EXCEPT !.buf = b] EXCEPT !.cur = o.cur + n]
      OBVIOUS
    <3>3. [o EXCEPT !.buf = b] \in Outputs
      BY <1>1, <2>2 DEF Outputs
    <3>4. QED
      BY <1>1, <2>2, <3>1, <3>2, <3>3 DEF Outputs
  <2> HIDE DEF p
  <2>4. ASSUME NEW i \in Offsets, i < p.cur
        PROVE  p.buf[i] = IF o.cur <= i THEN Number(n)[i - o.cur + 1] ELSE o.buf[i]
    <3>1. CASE o.cur <= i
      <4>1. i - o.cur + 1 \in 1..n /\ i < o.cur + Len(s)
        BY <1>1, <2>1, <2>3, <2>4, <3>1 DEF Offsets
      <4>2. b[i] = s[i - o.cur + 1]
        BY <2>2, <3>1, <4>1
      <4>3. QED
        BY <2>1, <2>3, <3>1, <4>1, <4>2
    <3>2. CASE ~(o.cur <= i)
      BY <2>2, <2>3, <3>2
    <3>3. QED
      BY <3>1, <3>2
  <2>5. Room(o) > n + 2
    BY <1>1, <1>2
  <2>6. Grows(o, p)
    BY <2>3, <2>4, <2>5, DigitsGrow
  <2>7. QED
    BY <1>2, <2>6 DEF PutGcvt, p, b, s
<1>3. CASE ~(Room(o) > GcvtRoom)
  <2>1. Room(o) <= Cache
    BY <1>1, <1>3
  <2>2. QED
    BY <1>3, <2>1, CutGrows DEF PutGcvt
<1>4. QED
  BY <1>2, <1>3

LEMMA FixedGrows ==
  ASSUME NEW o, Whole(o), NEW minus \in BOOLEAN, NEW n \in Nat, NEW m \in Nat
  PROVE  Grows(o, PutFixed(o, minus, n, m))
<1> DEFINE p == IF minus THEN PutChar(o) ELSE o
           q == PutDigits(p, Text(n))
<1>1. \A u, v, w : u \in Outputs /\ Grows(u, v) /\ Grows(v, w) => Grows(u, w)
  BY GrowsOn
<1>2. o \in Outputs /\ \A u, v : Grows(u, v) => Whole(v) /\ v \in Outputs
  BY DEF Grows, Whole
<1>3. Whole(p) /\ p \in Outputs /\ Grows(p, q)
  BY <1>2, CharGrows, PlainDigitsGrow
<1>4. Grows(o, q)
  BY <1>1, <1>2, <1>3, CharGrows, PlainDigitsGrow
<1>5. Grows(o, PutChar(q))
  BY <1>1, <1>2, <1>4, CharGrows
<1>6. Grows(o, PutDigits(PutChar(q), Text(m)))
  BY <1>1, <1>2, <1>5, PlainDigitsGrow
<1>7. CASE Room(o) > GcvtRoom
  BY <1>4, <1>6, <1>7 DEF PutFixed
<1>8. CASE ~(Room(o) > GcvtRoom)
  <2>1. Room(o) <= Cache
    BY <1>2, <1>8 DEF Room, Outputs
  <2>2. QED
    BY <1>8, <2>1, CutGrows DEF PutFixed
<1>9. QED
  BY <1>7, <1>8

(* The name, size and bracket that begin a container.                      *)
LEMMA BeginGrows ==
  ASSUME NEW o, Whole(o), NEW n \in Digits, NEW d \in Digits
  PROVE  Grows(o, PutString(PutNumber(PutString(o, Text(n)), d), Text(2)))
<1>1. Grows(o, PutString(o, Text(n))) /\ o \in Outputs
  BY TextGrows, PlainTexts DEF Whole
<1>2. Grows(o, PutNumber(PutString(o, Text(n)), d))
  BY <1>1, GrowsOn, NumberGrows DEF Grows
<1>3. QED
  BY <1>1, <1>2, GrowsOn, TextGrows, PlainTexts DEF Grows

(* Function, file and line.                                                *)
LEMMA SuffixGrows ==
  ASSUME NEW o, Whole(o), NEW f \in Texts, NEW n \in Texts, NEW d \in Digits
  PROVE  LET o1 == PutString(PutChar(PutChar(o)), Text(f))
             o2 == PutString(PutChar(o1), Text(n))
         IN  Grows(o, PutChar(PutNumber(PutChar(o2), d)))
<1>1. \A p, q, r : p \in Outputs /\ Grows(p, q) /\ Grows(q, r) => Grows(p, r)
  BY GrowsOn
<1>2. ASSUME NEW p, Grows(o, p)
      PROVE  /\ Grows(o, PutChar(p)) /\ Grows(o, PutNumber(p, d))
             /\ \A k \in Texts : Grows(o, PutString(p, Text(k)))
  BY <1>1, <1>2, CharGrows, NumberGrows, TextGrows, PlainTexts DEF Grows, Whole
<1>3. Grows(o, PutChar(o))
  BY CharGrows
<1>4. Grows(o, PutString(PutChar(PutChar(o)), Text(f)))
  BY <1>2, <1>3
<1>5. Grows(o, PutString(PutChar(PutString(PutChar(PutChar(o)), Text(f))), Text(n)))
  BY <1>2, <1>4
<1>6. QED
  BY <1>2, <1>5

---------------------------------------------------------------------------
(* The invariant                                                           *)

\* No number is at the end of o, and if it is not cut, a separator is.
EndsInSeparator(o) ==
  \A i \in Offsets : o.cur - 2 <= i /\ i < o.cur =>
    o.buf[i] \notin Digit /\ (~o.cut => o.buf[i] = "c")

SepInv ==
  pc = "stream" /\ sep =>
    /\ out.cur >= len + 2
    /\ out.cut => out.cur > Size - Cache
    /\ EndsInSeparator(out)

Places ==
  /\ pc = "make" => len = 0 /\ out.cur = 0 /\ ~sep
  /\ pc \in {"make", "format"} => ~out.cut
  /\ pc \in {"format", "stream"} => len + Cache < Size
  /\ pc \in {"format", "suffix", "end"} => out.cur = len

BytesInv == out \in Outputs /\ (pc # "done" => Whole(out) /\ Full(out))

\* The header left room for a number, so there is some for the end.
HasRoom == pc # "make" => Size >= 3

RecordInv ==
  /\ TypeOK /\ BytesInv /\ Places /\ SepInv
  /\ HasRoom /\ WellFormed /\ IntegersWhole /\ CutIsFull

\* What TextIsKept says of a step.
KeptStep ==
  ~out'.cut =>
    \A i \in 0..(out.cur - 1) :
      out.buf[i] # "c" => i < out'.cur /\ out'.buf[i] = out.buf[i]

LEMMA InitRecord == Init => RecordInv
<1> SUFFICES ASSUME Init PROVE RecordInv
  OBVIOUS
<1> USE DEF Init
<1>1. out \in Outputs /\ out.cur = 0 /\ out.cut = FALSE
  BY DEF Outputs, Symbols
<1>2. \A i \in Offsets : ~(i < out.cur)
  BY <1>1 DEF Offsets
<1>3. Whole(out) /\ Full(out)
  BY <1>1, <1>2 DEF Whole, Full
<1>4. TypeOK
  <2>1. out.buf \in [Offsets -> Symbols] /\ out.cur \in 0..Size /\ out.cut \in BOOLEAN
    BY <1>1 DEF Outputs
  <2>2. open \in Seq(0..(Depth + 1))
    OBVIOUS
  <2>3. len = 0 /\ sep = FALSE /\ writes = 0 /\ pc = "make"
    OBVIOUS
  <2>4. len \in 0..Size /\ out.cur >= len /\ writes \in 0..MaxWrites
    BY <1>1, <2>3
  <2>5. sep \in BOOLEAN /\ pc \in {"make", "format", "stream", "suffix", "end", "done"}
    BY <2>3
  <2> HIDE DEF Init
  <2>6. QED
    BY <2>1, <2>2, <2>4, <2>5 DEF TypeOK
<1>5. QED
  BY <1>1, <1>3, <1>4 DEF RecordInv, BytesInv, Places, SepInv, HasRoom, WellFormed, IntegersWhole, CutIsFull

(* A step that only grows the text keeps what was there.                   *)
LEMMA GrowsKeeps ==
  ASSUME out \in Outputs, out' \in Outputs, Kept(out, out')
  PROVE  KeptStep
<1>1. \A i \in 0..(out.cur - 1) : i \in Offsets /\ i < out.cur
  BY DEF Outputs, Offsets
<1>2. ASSUME NEW i \in 0..(out.cur - 1) PROVE i < out'.cur /\ out'.buf[i] = out.buf[i]
  <2>1. i \in Offsets /\ i < out.cur
    BY <1>1
  <2>2. out'.buf[i] = out.buf[i]
    BY <2>1 DEF Kept
  <2>3. i < out'.cur
    <3>1. i \in Int
      BY <1>2
    <3>2. out.cur \in 0..Size /\ out'.cur \in 0..Size
      BY DEF Outputs
    <3>3. QED
      BY <2>1, <3>1, <3>2 DEF Kept
  <2>4. QED
    BY <2>2, <2>3
<1>3. QED
  BY <1>2 DEF KeptStep

LEMMA OutTyped ==
  ASSUME NEW o \in Outputs
  PROVE  o.buf \in [Offsets -> Symbols] /\ o.cur \in 0..Size /\ o.cut \in BOOLEAN
BY DEF Outputs

(* A value, or the beginning of a container.                               *)
LEMMA StreamGrows ==
  ASSUME RecordInv, pc = "stream", pc' = "stream", Grows(out, out'), sep' = FALSE,
         len' = len, open' \in Seq(0..(Depth + 1)), writes' \in 0..MaxWrites
  PROVE  RecordInv' /\ KeptStep
<1>1. out \in Outputs /\ Whole(out) /\ Full(out) /\ out.cur >= len /\ len \in 0..Size
      /\ len + Cache < Size
  BY DEF RecordInv, BytesInv, TypeOK, Places
<1>2. Whole(out') /\ Full(out') /\ out' \in Outputs /\ Kept(out, out')
  BY <1>1 DEF Grows, Whole
<1>3. out'.cur \in 0..Size /\ out.cur \in 0..Size /\ out'.cur >= len
  BY <1>1, <1>2, OutTyped DEF Kept
<1>4. TypeOK'
  BY <1>1, <1>2, <1>3, OutTyped DEF TypeOK
<1>5. BytesInv' /\ Places' /\ SepInv'
  BY <1>1, <1>2 DEF BytesInv, Places, SepInv
<1>6. (HasRoom /\ WellFormed /\ IntegersWhole /\ CutIsFull)'
  BY DEF RecordInv, HasRoom, WellFormed, IntegersWhole, CutIsFull
<1>7. KeptStep
  BY <1>1, <1>2, GrowsKeeps
<1>8. QED
  BY <1>4, <1>5, <1>6, <1>7 DEF RecordInv

LEMMA MakeStep == ASSUME RecordInv, Make PROVE RecordInv' /\ KeptStep
<1>1. PICK h \in Headers : out' = PutString(out, Text(h)) /\ len' = h
  BY DEF Make
<1>2. /\ out \in Outputs /\ Whole(out) /\ Full(out) /\ out.cur = 0 /\ ~sep /\ ~out.cut
      /\ h \in Nat /\ h + Cache < Size
  BY DEF Make, RecordInv, BytesInv, Places
<1>3. Whole(out') /\ Full(out') /\ out' \in Outputs /\ Kept(out, out')
  BY <1>1, <1>2, TextGrows, PlainTexts DEF Grows, Whole
<1>4. out'.cur = h /\ ~out'.cut
  <2>1. Text(h) \in Seq(Symbols) /\ Len(Text(h)) = h
    BY <1>2, TextIs
  <2>2. /\ out'.cur = IF Len(Text(h)) <= Room(out) THEN out.cur + Len(Text(h)) ELSE Size
        /\ out'.cut = (out.cut \/ Len(Text(h)) > Room(out))
    BY <1>1, <1>2, <2>1, PutStringIs
  <2>3. Len(Text(h)) <= Room(out) /\ ~(Len(Text(h)) > Room(out))
    BY <1>2, <2>1 DEF Room
  <2>4. out'.cur = h
    BY <1>2, <2>1, <2>2, <2>3
  <2>5. ~out'.cut
    BY <1>2, <2>2, <2>3, Zenon
  <2>6. QED
    BY <2>4, <2>5
<1>5. pc' \in {"format", "stream"} /\ UNCHANGED <<open, sep, writes>>
  BY DEF Make
<1>6. TypeOK'
  BY <1>1, <1>2, <1>3, <1>4, <1>5, OutTyped DEF TypeOK, RecordInv
<1>7. BytesInv' /\ Places' /\ SepInv'
  BY <1>1, <1>2, <1>3, <1>4, <1>5 DEF BytesInv, Places, SepInv
<1>8. (HasRoom /\ WellFormed /\ IntegersWhole /\ CutIsFull)'
  BY <1>5 DEF RecordInv, HasRoom, WellFormed, IntegersWhole, CutIsFull
<1>9. KeptStep
  BY <1>2, <1>3, GrowsKeeps
<1>10. QED
  BY <1>6, <1>7, <1>8, <1>9 DEF RecordInv

(* The text of vsnprintf(), and a NUL, after what is there.                *)
LEMMA FormattedGrows ==
  ASSUME NEW o, Whole(o), NEW k \in Nat, o.cur + k < Size, NEW c \in 0..Size, NEW cut \in BOOLEAN,
         c = o.cur + k \/ (c = Size /\ o.cur + k = Size - 1),
         o.cut => cut, cut => c = Size
  PROVE  Grows(o, [buf |-> Laid(o.buf, o.cur, Append(Text(k), "NUL")), cur |-> c, cut |-> cut])
<1> DEFINE s == Append(Text(k), "NUL")
           b == Laid(o.buf, o.cur, s)
           p == [buf |-> b, cur |-> c, cut |-> cut]
<1>1. o.buf \in [Offsets -> Symbols] /\ o.cur \in 0..Size
  BY OutTyped DEF Whole
<1>2. s \in Seq(Symbols) /\ Len(s) = k + 1 /\ \A i \in 1..k : s[i] = "x"
  <2>1. Text(k) \in Seq(Symbols) /\ Len(Text(k)) = k /\ "NUL" \in Symbols
    BY TextIs DEF Symbols
  <2>2. s \in Seq(Symbols) /\ Len(s) = k + 1 /\ \A i \in 1..k : s[i] = Text(k)[i]
    BY <2>1, AppendProperties
  <2>3. QED
    BY <2>2, TextIs
<1> HIDE DEF s
<1>3. /\ b \in [Offsets -> Symbols]
      /\ \A i \in Offsets :
           b[i] = IF o.cur <= i /\ i < o.cur + Len(s) THEN s[i - o.cur + 1] ELSE o.buf[i]
  <2>1. o.buf \in [Offsets -> Symbols] /\ o.cur \in Nat
    BY <1>1
  <2>2. QED
    BY <1>2, <2>1, LaidIs
<1> HIDE DEF b
<1>4. p \in Outputs /\ p.buf = b /\ p.cur = c /\ p.cut = cut
  BY <1>3 DEF Outputs
<1> HIDE DEF p
<1>5. ASSUME NEW i \in Offsets, i < o.cur PROVE p.buf[i] = o.buf[i]
  <2>1. ~(o.cur <= i)
    BY <1>1, <1>5 DEF Offsets
  <2>2. QED
    BY <1>3, <1>4, <2>1
<1>6. ASSUME NEW i \in Offsets, i < c, ~(i < o.cur), i # Size - 1 PROVE p.buf[i] = "x"
  <2>1. o.cur <= i /\ i < o.cur + k /\ i - o.cur + 1 \in 1..k
    BY <1>1, <1>6 DEF Offsets
  <2>2. i < o.cur + Len(s)
    BY <1>1, <1>2, <2>1 DEF Offsets
  <2>3. QED
    BY <1>2, <1>3, <1>4, <2>1, <2>2
<1>7. ASSUME NEW i \in Offsets, i < c, ~(i < o.cur), i = Size - 1 PROVE p.buf[i] \notin Digit
  <2>1. i - o.cur + 1 = k + 1 /\ o.cur <= i /\ i < o.cur + Len(s)
    BY <1>1, <1>2, <1>7 DEF Offsets
  <2>2. s[k + 1] = "NUL"
    <3>1. Text(k) \in Seq(Symbols) /\ Len(Text(k)) = k /\ "NUL" \in Symbols
      BY TextIs DEF Symbols
    <3>2. QED
      BY <3>1, AppendProperties DEF s
  <2>3. p.buf[i] = "NUL"
    BY <1>3, <1>4, <2>1, <2>2
  <2>4. QED
    BY <2>3 DEF Digit
<1>8. Whole(p)
  <2>1. ASSUME NEW i \in Offsets, i < p.cur, i < Size - 1 PROVE p.buf[i] \in Printable
    BY <1>4, <1>5, <1>6, <2>1 DEF Whole, Printable
  <2>2. ASSUME NEW i \in Offsets, i < p.cur, p.buf[i] \in Digit PROVE i < o.cur /\ i < Size - 3
    BY <1>4, <1>5, <1>6, <1>7, <2>2 DEF Whole, Digit
  <2>3. ASSUME NEW i \in Offsets, i < p.cur, p.buf[i] = "d"
        PROVE  i + 1 < p.cur /\ p.buf[i + 1] \in Digit
    <3>1. i < o.cur /\ o.buf[i] = "d"
      BY <1>5, <2>2, <2>3 DEF Digit
    <3>2. i + 1 < o.cur /\ o.buf[i + 1] \in Digit
      BY <3>1 DEF Whole
    <3>3. i + 1 \in Offsets /\ i + 1 < p.cur
      BY <1>1, <1>4, <3>2 DEF Offsets
    <3>4. QED
      BY <1>5, <3>2, <3>3
  <2>4. QED
    BY <1>4, <2>1, <2>2, <2>3 DEF Whole
<1>9. Full(p) /\ Kept(o, p)
  BY <1>1, <1>4, <1>5 DEF Full, Kept
<1>10. QED
  BY <1>8, <1>9 DEF Grows, p, b, s

LEMMA FormatStep == ASSUME RecordInv, Format PROVE RecordInv' /\ KeptStep
<1> DEFINE room == Size - len
<1>1. /\ out \in Outputs /\ Whole(out) /\ Full(out) /\ out.cur = len /\ len \in 0..Size
      /\ room \in Nat \ {0} /\ ~out.cut
  BY DEF Format, RecordInv, BytesInv, Places, TypeOK
<1>2. pc = "format" /\ pc' = "suffix" /\ UNCHANGED <<open, sep, writes>>
  BY DEF Format
<1>3. Grows(out, out') /\ out'.cur = len' /\ len' \in 0..Size
  <2>1. ASSUME NEW n \in Texts,
               out' = [buf |-> Laid(out.buf, len, Append(Text(IF n < room THEN n ELSE room - 1), "NUL")),
                       cur |-> len + (IF n > room THEN room ELSE n), cut |-> n >= room],
               len' = len + (IF n > room THEN room ELSE n)
        PROVE  Grows(out, out') /\ out'.cur = len' /\ len' \in 0..Size
    <3> DEFINE k == IF n < room THEN n ELSE room - 1
               c == len + (IF n > room THEN room ELSE n)
               cut == n >= room
    <3>1. /\ k \in Nat /\ out.cur + k < Size /\ c \in 0..Size /\ cut \in BOOLEAN
          /\ c = out.cur + k \/ (c = Size /\ out.cur + k = Size - 1)
          /\ cut => c = Size
      BY <1>1
    <3>2. out' = [buf |-> Laid(out.buf, out.cur, Append(Text(k), "NUL")), cur |-> c, cut |-> cut]
          /\ len' = c
      BY <1>1, <2>1
    <3> HIDE DEF k, c, cut
    <3>3. Grows(out, [buf |-> Laid(out.buf, out.cur, Append(Text(k), "NUL")), cur |-> c,
                      cut |-> cut])
      BY <1>1, <2>1, <3>1, FormattedGrows
    <3>4. QED
      BY <3>1, <3>2, <3>3
  <2>2. CASE UNCHANGED <<out, len>>
    BY <1>1, <2>2 DEF Grows, Kept
  <2>3. QED
    BY <1>1, <2>1, <2>2 DEF Format
<1>4. Whole(out') /\ Full(out') /\ out' \in Outputs /\ Kept(out, out')
  BY <1>1, <1>3 DEF Grows, Whole
<1>5. TypeOK'
  BY <1>2, <1>3, <1>4, OutTyped DEF TypeOK, RecordInv
<1>6. BytesInv' /\ Places' /\ SepInv'
  BY <1>2, <1>3, <1>4 DEF BytesInv, Places, SepInv
<1>7. (HasRoom /\ WellFormed /\ IntegersWhole /\ CutIsFull)'
  BY <1>2 DEF RecordInv, HasRoom, WellFormed, IntegersWhole, CutIsFull
<1>8. KeptStep
  BY <1>1, <1>4, GrowsKeeps
<1>9. QED
  BY <1>5, <1>6, <1>7, <1>8 DEF RecordInv

LEMMA ValueStep == ASSUME RecordInv, StreamValue PROVE RecordInv' /\ KeptStep
<1>1. /\ pc = "stream" /\ pc' = "stream" /\ sep' = FALSE /\ len' = len
      /\ open' \in Seq(0..(Depth + 1)) /\ writes' \in 0..MaxWrites
  BY DEF StreamValue, RecordInv, TypeOK
<1>2. Whole(out)
  BY <1>1 DEF RecordInv, BytesInv
<1>3. Grows(out, out')
  <2>1. CASE out' = PutChar(out)
    BY <1>2, <2>1, CharGrows
  <2>2. ASSUME NEW n \in Texts, out' = PutString(out, Text(n)) PROVE Grows(out, out')
    BY <1>2, <2>2, TextGrows, PlainTexts
  <2>3. ASSUME NEW n \in Digits, NEW minus \in BOOLEAN, out' = PutSigned(out, minus, n)
        PROVE  Grows(out, out')
    BY <1>2, <2>3, SignedGrows
  <2>4. ASSUME NEW n \in Digits, out' = PutGcvt(out, n) PROVE Grows(out, out')
    BY <1>2, <2>4, GcvtGrows
  <2>5. ASSUME NEW n \in Digits, NEW m \in Digits \cup {0}, NEW minus \in BOOLEAN,
               out' = PutFixed(out, minus, n, m)
        PROVE  Grows(out, out')
    BY <1>2, <2>5, FixedGrows
  <2>6. QED
    BY <2>1, <2>2, <2>3, <2>4, <2>5 DEF StreamValue
<1>4. QED
  BY <1>1, <1>3, StreamGrows

(* The number of elements of each container stays within its type.         *)
LEMMA OpenTyped ==
  ASSUME NEW s \in Seq(0..(Depth + 1))
  PROVE  /\ <<0>> \o s \in Seq(0..(Depth + 1))
         /\ s # <<>> => Tail(s) \in Seq(0..(Depth + 1)) /\ Head(s) \in 0..(Depth + 1)
         /\ s # <<>> /\ Head(s) <= Depth => [s EXCEPT ![1] = @ + 1] \in Seq(0..(Depth + 1))
<1>1. <<0>> \o s \in Seq(0..(Depth + 1))
  <2>1. <<0>> \in Seq(0..(Depth + 1))
    OBVIOUS
  <2>2. QED
    BY <2>1, ConcatProperties
<1>2. ASSUME s # <<>> PROVE Tail(s) \in Seq(0..(Depth + 1)) /\ Head(s) \in 0..(Depth + 1)
  BY <1>2, HeadTailProperties
<1>3. ASSUME s # <<>>, Head(s) <= Depth PROVE [s EXCEPT ![1] = @ + 1] \in Seq(0..(Depth + 1))
  <2>1. 1 \in 1..Len(s) /\ Head(s) = s[1]
    BY <1>3, LenProperties, EmptySeq, HeadTailProperties
  <2>2. s[1] + 1 \in 0..(Depth + 1)
    BY <1>2, <1>3, <2>1
  <2>3. QED
    BY <2>1, <2>2, ExceptSeq
<1>4. QED
  BY <1>1, <1>2, <1>3

LEMMA BeginStep == ASSUME RecordInv, ContainerBegin PROVE RecordInv' /\ KeptStep
<1>1. /\ pc = "stream" /\ pc' = "stream" /\ sep' = FALSE /\ len' = len
      /\ open' = <<0>> \o open /\ open \in Seq(0..(Depth + 1)) /\ writes' \in 0..MaxWrites
  BY DEF ContainerBegin, RecordInv, TypeOK
<1>2. PICK n \in Digits, d \in Digits :
        out' = PutString(PutNumber(PutString(out, Text(n)), d), Text(2))
  BY DEF ContainerBegin
<1>3. Whole(out)
  BY <1>1 DEF RecordInv, BytesInv
<1>4. Grows(out, out')
  BY <1>2, <1>3, BeginGrows
<1>5. open' \in Seq(0..(Depth + 1))
  BY <1>1, OpenTyped
<1>6. QED
  BY <1>1, <1>4, <1>5, StreamGrows

(* A separator is at the end of what was written, or there was no room.    *)
LEMMA SeparatorWritten ==
  ASSUME NEW o, Whole(o), Full(o), NEW s, Plain(s), Separated(s), NEW p, p = PutString(o, s)
  PROVE  /\ Grows(o, p) /\ EndsInSeparator(p)
         /\ p.cut => p.cur > Size - Cache
         /\ p.cur >= o.cur + 2 \/ p.cur = Size
<1>1. /\ o \in Outputs /\ s \in Seq(Symbols) /\ Len(s) \in Nat /\ Len(s) >= 2
      /\ o.cur \in 0..Size /\ Room(o) = Size - o.cur
  BY LenProperties DEF Whole, Plain, Separated, Outputs, Room
<1>2. /\ p \in Outputs
      /\ p.cur = IF Len(s) <= Room(o) THEN o.cur + Len(s) ELSE Size
      /\ p.cut = (o.cut \/ Len(s) > Room(o))
      /\ \A i \in Offsets :
           p.buf[i] = IF o.cur <= i /\ i < p.cur THEN s[i - o.cur + 1] ELSE o.buf[i]
  BY <1>1, PutStringIs
<1>3. Grows(o, p) /\ Whole(p)
  BY TextGrows DEF Grows
<1>4. CASE Len(s) <= Room(o)
  <2>1. p.cur = o.cur + Len(s)
    BY <1>2, <1>4
  <2>2. ASSUME NEW i \in Offsets, p.cur - 2 <= i, i < p.cur PROVE p.buf[i] = "c"
    <3>1. i - o.cur + 1 \in (Len(s) - 1)..Len(s) /\ o.cur <= i
      BY <1>1, <2>1, <2>2 DEF Offsets
    <3>2. p.buf[i] = s[i - o.cur + 1]
      BY <1>2, <2>2, <3>1
    <3>3. QED
      BY <3>1, <3>2 DEF Separated
  <2>3. EndsInSeparator(p)
    BY <2>2 DEF EndsInSeparator, Digit
  <2>4. p.cut => o.cut
    <3>1. ~(Len(s) > Room(o))
      BY <1>1, <1>4
    <3>2. QED
      BY <1>2, <3>1
  <2>5. p.cut => p.cur > Size - Cache
    BY <1>1, <2>1, <2>4 DEF Full
  <2>6. QED
    BY <1>1, <1>3, <2>1, <2>3, <2>5
<1>5. CASE ~(Len(s) <= Room(o))
  <2>1. p.cur = Size
    BY <1>2, <1>5
  <2>2. Len(s) > Room(o)
    BY <1>1, <1>5
  <2>3. p.cut
    BY <1>2, <2>2
  <2>4. ASSUME NEW i \in Offsets, p.cur - 2 <= i, i < p.cur PROVE p.buf[i] \notin Digit
    <3>1. ~(i < Size - 3)
      BY <2>1, <2>4 DEF Offsets
    <3>2. QED
      BY <1>3, <2>4, <3>1 DEF Whole
  <2>5. EndsInSeparator(p)
    BY <2>3, <2>4 DEF EndsInSeparator
  <2>6. QED
    BY <1>3, <2>1, <2>5
<1>6. QED
  BY <1>4, <1>5

(* After an element, or for those that are not written.                    *)
LEMMA SeparatorStep ==
  ASSUME RecordInv, pc = "stream", pc' = "stream", len' = len, sep' \in BOOLEAN,
         open' \in Seq(0..(Depth + 1)), writes' = writes,
         NEW s, Plain(s), Separated(s), out' = PutString(out, s)
  PROVE  RecordInv' /\ KeptStep
<1>1. /\ out \in Outputs /\ Whole(out) /\ Full(out) /\ out.cur >= len /\ len \in 0..Size
      /\ len + Cache < Size /\ out.cur \in 0..Size /\ writes \in 0..MaxWrites
  BY DEF RecordInv, BytesInv, TypeOK, Places
<1>2. /\ Grows(out, out') /\ EndsInSeparator(out)'
      /\ out'.cut => out'.cur > Size - Cache
      /\ out'.cur >= out.cur + 2 \/ out'.cur = Size
  <2>1. ASSUME NEW p, p = PutString(out, s)
        PROVE  /\ Grows(out, p) /\ EndsInSeparator(p)
               /\ p.cut => p.cur > Size - Cache
               /\ p.cur >= out.cur + 2 \/ p.cur = Size
    BY <1>1, <2>1, SeparatorWritten
  <2>2. QED
    BY <2>1
<1>3. Whole(out') /\ Full(out') /\ out' \in Outputs /\ Kept(out, out')
  BY <1>1, <1>2 DEF Grows, Whole
<1>4. out'.cur \in 0..Size /\ out'.cur >= len + 2
  BY <1>1, <1>2, <1>3, OutTyped
<1>5. TypeOK'
  <2>1. out'.buf \in [Offsets -> Symbols] /\ out'.cut \in BOOLEAN /\ out'.cur >= len
    BY <1>1, <1>3, <1>4, OutTyped
  <2>2. QED
    BY <1>1, <1>4, <2>1 DEF TypeOK
<1>6. BytesInv' /\ Places'
  BY <1>1, <1>3 DEF BytesInv, Places
<1>7. SepInv'
  BY <1>2, <1>4 DEF SepInv
<1>8. (HasRoom /\ WellFormed /\ IntegersWhole /\ CutIsFull)'
  BY DEF RecordInv, HasRoom, WellFormed, IntegersWhole, CutIsFull
<1>9. KeptStep
  BY <1>1, <1>3, GrowsKeeps
<1>10. QED
  BY <1>5, <1>6, <1>7, <1>8, <1>9 DEF RecordInv

LEMMA ElementStep == ASSUME RecordInv, ContainerElement PROVE RecordInv' /\ KeptStep
<1>1. /\ pc = "stream" /\ pc' = "stream" /\ len' = len /\ sep' \in BOOLEAN /\ writes' = writes
      /\ open # <<>> /\ Head(open) < Depth /\ open' = [open EXCEPT ![1] = @ + 1]
      /\ out' = PutString(out, Separator)
  BY DEF ContainerElement
<1>2. open' \in Seq(0..(Depth + 1))
  <2>1. open \in Seq(0..(Depth + 1))
    BY DEF RecordInv, TypeOK
  <2>2. Head(open) \in 0..(Depth + 1)
    BY <1>1, <2>1, OpenTyped
  <2>3. Head(open) <= Depth
    BY <1>1, <2>2
  <2>4. QED
    BY <1>1, <2>1, <2>3, OpenTyped
<1>3. QED
  BY <1>1, <1>2, SeparatorStep, PlainTexts

LEMMA MoreStep == ASSUME RecordInv, ContainerMore PROVE RecordInv' /\ KeptStep
<1>1. /\ pc = "stream" /\ pc' = "stream" /\ len' = len /\ sep' = sep /\ writes' = writes
      /\ open # <<>> /\ Head(open) = Depth /\ open' = [open EXCEPT ![1] = @ + 1]
      /\ out' = PutString(out, Text(3) \o Separator)
  BY DEF ContainerMore
<1>2. open \in Seq(0..(Depth + 1)) /\ sep \in BOOLEAN
  BY DEF RecordInv, TypeOK
<1>3. open' \in Seq(0..(Depth + 1))
  <2>1. Head(open) <= Depth
    BY <1>1
  <2>2. QED
    BY <1>1, <1>2, <2>1, OpenTyped
<1>4. QED
  BY <1>1, <1>2, <1>3, SeparatorStep, PlainTexts

LEMMA OneMore ==
  ASSUME NEW o \in Outputs, o.cur < Size
  PROVE  LET p == PutString(o, Text(1)) IN p.cur = o.cur + 1 /\ p.cut = o.cut
<1>1. o.cur \in 0..Size /\ o.cut \in BOOLEAN
  BY OutTyped
<1>2. PICK t \in Seq(Symbols) : t = Text(1) /\ Len(t) = 1
  BY TextIs
<1>3. Room(o) \in Nat /\ Room(o) >= 1
  BY <1>1 DEF Room
<1>4. Len(t) <= Room(o) /\ ~(Len(t) > Room(o))
  <2>1. \A m \in Nat : m >= 1 => 1 <= m /\ ~(1 > m)
    OBVIOUS
  <2>2. 1 <= Room(o) /\ ~(1 > Room(o))
    BY <1>3, <2>1
  <2>3. QED
    BY <1>2, <2>2, Zenon
<1>5. /\ PutString(o, t).cur = IF Len(t) <= Room(o) THEN o.cur + Len(t) ELSE Size
      /\ PutString(o, t).cut = (o.cut \/ Len(t) > Room(o))
  BY PutStringIs
<1>6. PutString(o, t).cur = o.cur + 1
  BY <1>2, <1>4, <1>5
<1>7. PutString(o, t).cut = o.cut
  <2>1. PutString(o, t).cut = (o.cut \/ FALSE)
    BY <1>4, <1>5, Zenon
  <2>2. QED
    BY <1>1, <2>1
<1>8. QED
  BY <1>2, <1>6, <1>7

(* The bracket that ends a container takes the place of a separator.       *)
LEMMA SteppedBack ==
  ASSUME NEW o, Whole(o), o.cur >= 2, EndsInSeparator(o), o.cut => o.cur > Size - Cache,
         NEW p, p = PutString([o EXCEPT !.cur = @ - 2], Text(1))
  PROVE  /\ Whole(p) /\ Full(p) /\ p.cur = o.cur - 1 /\ p.cut = o.cut
         /\ \A i \in Offsets : i < o.cur - 2 => p.buf[i] = o.buf[i]
<1> DEFINE q == [o EXCEPT !.cur = @ - 2]
<1>1. o \in Outputs /\ o.cur \in 0..Size /\ o.cut \in BOOLEAN
  BY OutTyped DEF Whole
<1>2. q \in Outputs /\ q.cur = o.cur - 2 /\ q.buf = o.buf /\ q.cut = o.cut
  <2>1. q = [o EXCEPT !.cur = o.cur - 2] /\ o.cur - 2 \in 0..Size
    BY <1>1
  <2>2. QED
    BY <1>1, <2>1 DEF Outputs
<1>3. p = PutString(q, Text(1))
  OBVIOUS
<1> HIDE DEF q
<1>4. Whole(q)
  <2>1. ASSUME NEW i \in Offsets, i < q.cur PROVE i < o.cur
    BY <1>1, <1>2, <2>1 DEF Offsets
  <2>2. ASSUME NEW i \in Offsets, i < q.cur, q.buf[i] = "d"
        PROVE  i + 1 < q.cur /\ q.buf[i + 1] \in Digit
    <3>1. i + 1 < o.cur /\ o.buf[i + 1] \in Digit
      BY <1>2, <2>1, <2>2 DEF Whole
    <3>2. i + 1 \in Offsets
      BY <1>1, <3>1 DEF Offsets
    <3>3. ~(o.cur - 2 <= i + 1)
      BY <3>1, <3>2 DEF EndsInSeparator
    <3>4. QED
      BY <1>1, <1>2, <3>1, <3>2, <3>3 DEF Offsets
  <2>3. QED
    BY <1>2, <2>1, <2>2 DEF Whole
<1>5. Grows(q, p)
  BY <1>3, <1>4, TextGrows, PlainTexts
<1>6. p.cur = o.cur - 1 /\ p.cut = o.cut
  <2>1. q.cur < Size
    BY <1>1, <1>2
  <2>2. p.cur = q.cur + 1 /\ p.cut = q.cut
    BY <1>2, <1>3, <2>1, OneMore
  <2>3. QED
    BY <1>1, <1>2, <2>2
<1>7. Full(p)
  BY <1>1, <1>6 DEF Full
<1>8. QED
  BY <1>2, <1>5, <1>6, <1>7 DEF Grows, Kept

LEMMA EndOfContainerStep == ASSUME RecordInv, ContainerEnd PROVE RecordInv' /\ KeptStep
<1>1. /\ pc = "stream" /\ pc' = "stream" /\ sep' = FALSE /\ UNCHANGED <<len, writes>>
      /\ open # <<>> /\ open' = Tail(open)
  BY DEF ContainerEnd
<1>2. /\ out \in Outputs /\ Whole(out) /\ out.cur \in 0..Size /\ out.cut \in BOOLEAN
      /\ len \in 0..Size /\ len + Cache < Size /\ writes \in 0..MaxWrites
      /\ open \in Seq(0..(Depth + 1))
  BY <1>1, OutTyped DEF RecordInv, BytesInv, TypeOK, Places
<1>3. open' \in Seq(0..(Depth + 1))
  BY <1>1, <1>2, OpenTyped
<1>4. CASE Head(open) = 0
  <2>1. out' = PutString(out, Text(1))
    BY <1>4 DEF ContainerEnd
  <2>2. Grows(out, out')
    BY <1>2, <2>1, TextGrows, PlainTexts
  <2>3. QED
    BY <1>1, <1>2, <1>3, <2>2, StreamGrows
<1>5. CASE Head(open) # 0
  <2>1. sep /\ out' = PutString([out EXCEPT !.cur = @ - 2], Text(1))
    BY <1>5 DEF ContainerEnd
  <2>2. out.cur >= len + 2 /\ (out.cut => out.cur > Size - Cache) /\ EndsInSeparator(out)
    BY <1>1, <2>1 DEF RecordInv, SepInv
  <2>3. out.cur >= 2
    BY <1>2, <2>2
  <2>4. /\ Whole(out') /\ Full(out') /\ out'.cur = out.cur - 1 /\ out'.cut = out.cut
        /\ \A i \in Offsets : i < out.cur - 2 => out'.buf[i] = out.buf[i]
    <3>1. ASSUME NEW p, p = PutString([out EXCEPT !.cur = @ - 2], Text(1))
          PROVE  /\ Whole(p) /\ Full(p) /\ p.cur = out.cur - 1 /\ p.cut = out.cut
                 /\ \A i \in Offsets : i < out.cur - 2 => p.buf[i] = out.buf[i]
      BY ZenonT(40), <1>2, <2>2, <2>3, <3>1, SteppedBack
    <3>2. QED
      BY <2>1, <3>1
  <2>5. out' \in Outputs /\ out'.cur >= len
    BY <1>2, <2>2, <2>4 DEF Whole
  <2>6. TypeOK'
    BY <1>1, <1>2, <1>3, <2>5, OutTyped DEF TypeOK
  <2>7. BytesInv' /\ Places' /\ SepInv'
    BY <1>1, <1>2, <2>4, <2>5 DEF BytesInv, Places, SepInv
  <2>8. (HasRoom /\ WellFormed /\ IntegersWhole /\ CutIsFull)'
    BY <1>1 DEF RecordInv, HasRoom, WellFormed, IntegersWhole, CutIsFull
  <2>9. KeptStep
    <3>1. ASSUME ~out'.cut, NEW i \in 0..(out.cur - 1), out.buf[i] # "c"
          PROVE  i < out'.cur /\ out'.buf[i] = out.buf[i]
      <4>1. i \in Offsets /\ i < out.cur
        BY <1>2, <3>1 DEF Offsets
      <4>2. ~(out.cur - 2 <= i)
        BY <2>2, <2>4, <3>1, <4>1 DEF EndsInSeparator
      <4>3. i < out.cur - 2 /\ i < out.cur - 1
        BY <1>2, <4>1, <4>2 DEF Offsets
      <4>4. QED
        BY <2>4, <4>1, <4>3
    <3>2. QED
      BY <3>1 DEF KeptStep
  <2>10. QED
    BY <2>6, <2>7, <2>8, <2>9 DEF RecordInv
<1>6. QED
  BY <1>4, <1>5

LEMMA StreamEndStep == ASSUME RecordInv, StreamEnd PROVE RecordInv' /\ KeptStep
<1>1. /\ pc = "stream" /\ pc' = "suffix" /\ len' = out.cur /\ UNCHANGED <<out, open, sep, writes>>
  BY DEF StreamEnd
<1>2. out \in Outputs /\ Whole(out) /\ Full(out) /\ out.cur \in 0..Size
  BY <1>1, OutTyped DEF RecordInv, BytesInv
<1>3. TypeOK'
  BY <1>1, <1>2, OutTyped DEF RecordInv, TypeOK
<1>4. BytesInv' /\ Places' /\ SepInv'
  BY <1>1, <1>2 DEF BytesInv, Places, SepInv
<1>5. (HasRoom /\ WellFormed /\ IntegersWhole /\ CutIsFull)'
  BY <1>1 DEF RecordInv, HasRoom, WellFormed, IntegersWhole, CutIsFull
<1>6. KeptStep
  BY <1>1, <1>2, GrowsKeeps DEF Kept
<1>7. QED
  BY <1>3, <1>4, <1>5, <1>6 DEF RecordInv

LEMMA SuffixStep == ASSUME RecordInv, Suffix PROVE RecordInv' /\ KeptStep
<1>1. pc = "suffix" /\ pc' = "end" /\ UNCHANGED <<open, sep, writes>>
  BY DEF Suffix
<1>2. out \in Outputs /\ Whole(out) /\ Full(out) /\ out.cur \in 0..Size /\ out.cur = len
  BY <1>1, OutTyped DEF RecordInv, BytesInv, Places
<1>3. [out EXCEPT !.cur = len] = out
  BY <1>2 DEF Outputs
<1>4. Grows(out, out') /\ len' = out'.cur
  <2>1. CASE UNCHANGED <<out, len>>
    BY <1>2, <2>1 DEF Grows, Kept
  <2>2. ASSUME NEW f \in Texts, NEW n \in Texts, NEW d \in Digits,
               LET o1 == PutString(PutChar(PutChar(out)), Text(f))
                   o2 == PutString(PutChar(o1), Text(n))
                   o3 == PutChar(PutNumber(PutChar(o2), d))
               IN  out' = o3 /\ len' = o3.cur
        PROVE  Grows(out, out') /\ len' = out'.cur
    BY <1>2, <2>2, SuffixGrows
  <2>3. QED
    BY <1>3, <2>1, <2>2 DEF Suffix
<1>5. Whole(out') /\ Full(out') /\ out' \in Outputs /\ Kept(out, out')
  BY <1>2, <1>4 DEF Grows, Whole
<1>6. out'.cur \in 0..Size
  BY <1>5, OutTyped
<1>7. TypeOK'
  BY <1>1, <1>4, <1>5, <1>6, OutTyped DEF RecordInv, TypeOK
<1>8. BytesInv' /\ Places' /\ SepInv'
  BY <1>1, <1>4, <1>5 DEF BytesInv, Places, SepInv
<1>9. (HasRoom /\ WellFormed /\ IntegersWhole /\ CutIsFull)'
  BY <1>1 DEF RecordInv, HasRoom, WellFormed, IntegersWhole, CutIsFull
<1>10. KeptStep
  BY <1>2, <1>5, GrowsKeeps
<1>11. QED
  BY <1>7, <1>8, <1>9, <1>10 DEF RecordInv

(* The end of the line overwrites no number, and nothing at all if there   *)
(* is room for it.                                                         *)
LEMMA EndStep == ASSUME RecordInv, End PROVE RecordInv' /\ KeptStep
<1> DEFINE l == IF len + 3 > Size THEN Size - 3 ELSE len
           s == <<"CR", "LF", "NUL">>
           b == Laid(out.buf, l, s)
<1>1. /\ pc = "end" /\ pc' = "done" /\ UNCHANGED <<open, sep, writes>>
      /\ out' = [buf |-> b, cur |-> l + 2, cut |-> out.cut \/ len > l]
      /\ len' = l + 2
  BY DEF End
<1>2. /\ out \in Outputs /\ Whole(out) /\ Full(out) /\ out.cur = len /\ len \in 0..Size
      /\ out.buf \in [Offsets -> Symbols] /\ out.cut \in BOOLEAN
  BY <1>1, OutTyped DEF RecordInv, BytesInv, Places
<1>3. Size >= 3
  BY <1>1 DEF RecordInv, HasRoom
<1>4. l \in Nat /\ l <= len /\ l + 3 <= Size /\ (l = len \/ l = Size - 3)
  BY <1>2, <1>3
<1> HIDE DEF l
<1>5. s \in Seq(Symbols) /\ Len(s) = 3 /\ s[1] = "CR" /\ s[2] = "LF" /\ s[3] = "NUL"
  BY DEF Symbols
<1> HIDE DEF s
<1>6. /\ b \in [Offsets -> Symbols]
      /\ \A i \in Offsets : b[i] = IF l <= i /\ i < l + Len(s) THEN s[i - l + 1] ELSE out.buf[i]
  BY <1>2, <1>4, <1>5, LaidIs
<1> HIDE DEF b
<1>7. \A i \in Offsets : i < l => b[i] = out.buf[i]
  BY <1>4, <1>6 DEF Offsets
<1>8. b[l] = "CR" /\ b[l + 1] = "LF" /\ b[l + 2] = "NUL"
  <2>1. \A j \in 0..2 : l + j \in Offsets /\ l <= l + j /\ l + j < l + Len(s) /\ (l + j) - l + 1 = j + 1
    BY <1>4, <1>5 DEF Offsets
  <2>2. \A j \in 0..2 : b[l + j] = s[j + 1]
    BY <1>6, <2>1
  <2>3. b[l + 0] = s[1] /\ b[l + 1] = s[2] /\ b[l + 2] = s[3]
    BY <2>2
  <2>4. l + 0 = l
    BY <1>4
  <2>5. QED
    BY <1>5, <2>3, <2>4
<1>9. out'.buf = b /\ out'.cur = l + 2 /\ (out'.cut <=> out.cut \/ len > l) /\ out' \in Outputs
  <2>1. out'.buf = b /\ out'.cur = l + 2 /\ out'.cut = (out.cut \/ len > l)
    BY <1>1
  <2>2. l + 2 \in 0..Size /\ (out.cut \/ len > l) \in BOOLEAN
    BY <1>2, <1>4
  <2>3. out' \in Outputs
    BY <1>1, <1>6, <2>2 DEF Outputs
  <2>4. QED
    BY <2>1, <2>2, <2>3
<1>10. /\ len' = l + 2 /\ len' \in 0..Size /\ len' >= 2 /\ len' < Size
       /\ len' - 2 = l /\ len' - 1 = l + 1
       /\ \A i \in 0..(len' - 3) : i \in Offsets /\ i < l
  BY <1>1, <1>4 DEF Offsets
<1>11. TypeOK'
  BY <1>1, <1>9, <1>10, OutTyped DEF RecordInv, TypeOK
<1>12. BytesInv' /\ Places' /\ SepInv'
  BY <1>1, <1>9 DEF BytesInv, Places, SepInv
<1>13. WellFormed'
  <2>1. ASSUME NEW i \in Offsets, i < l PROVE b[i] \in {"x", "d", "D", "c"}
    <3>1. i < out.cur /\ i < Size - 1
      BY <1>2, <1>4, <2>1 DEF Offsets
    <3>2. QED
      BY <1>2, <1>7, <2>1, <3>1 DEF Whole, Printable
  <2>2. QED
    BY <1>8, <1>9, <1>10, <2>1 DEF WellFormed
<1>14. IntegersWhole'
  <2>1. ASSUME NEW i \in Offsets, i < l, b[i] = "d" PROVE b[i + 1] \in Digit
    <3>1. i < out.cur /\ out.buf[i] = "d"
      BY <1>2, <1>4, <1>7, <2>1 DEF Offsets
    <3>2. i + 1 < out.cur /\ out.buf[i + 1] \in Digit
      BY <1>2, <3>1 DEF Whole
    <3>3. i + 1 \in Offsets
      BY <1>2, <3>2 DEF Offsets
    <3>4. i + 1 < Size - 3
      BY <1>2, <3>2, <3>3 DEF Whole
    <3>5. i + 1 < l
      BY <1>2, <1>4, <3>2, <3>4
    <3>6. QED
      BY <1>7, <3>2, <3>3, <3>5
  <2>2. QED
    BY <1>9, <1>10, <2>1 DEF IntegersWhole, Digit
<1>15. CutIsFull'
  <2>1. ASSUME out.cut \/ len > l PROVE l + 2 >= Size - Cache
    <3>1. CASE l = Size - 3
      BY <3>1
    <3>2. CASE l = len
      <4>1. out.cut
        BY <1>4, <2>1, <3>2
      <4>2. QED
        BY <1>2, <3>2, <4>1 DEF Full
    <3>3. QED
      BY <1>4, <3>1, <3>2
  <2>2. QED
    BY <1>9, <1>10, <2>1 DEF CutIsFull
<1>16. KeptStep
  <2>1. ASSUME ~out'.cut, NEW i \in 0..(out.cur - 1) PROVE i < out'.cur /\ out'.buf[i] = out.buf[i]
    <3>1. l = len
      BY <1>2, <1>4, <1>9, <2>1
    <3>2. i \in Offsets /\ i < l
      BY <1>2, <3>1 DEF Offsets
    <3>3. QED
      BY <1>4, <1>7, <1>9, <3>2
  <2>2. QED
    BY <2>1 DEF KeptStep
<1>17. HasRoom'
  BY <1>3 DEF HasRoom
<1>18. QED
  BY <1>11, <1>12, <1>13, <1>14, <1>15, <1>16, <1>17 DEF RecordInv

LEMMA NextRecord == RecordInv /\ [Next]_vars => RecordInv' /\ (KeptStep \/ UNCHANGED vars)
<1> SUFFICES ASSUME RecordInv, [Next]_vars PROVE RecordInv' /\ (KeptStep \/ UNCHANGED vars)
  OBVIOUS
<1>1. CASE Make
  BY <1>1, MakeStep
<1>2. CASE Format
  BY <1>2, FormatStep
<1>3. CASE StreamValue
  BY <1>3, ValueStep
<1>4. CASE ContainerBegin
  BY <1>4, BeginStep
<1>5. CASE ContainerElement
  BY <1>5, ElementStep
<1>6. CASE ContainerMore
  BY <1>6, MoreStep
<1>7. CASE ContainerEnd
  BY <1>7, EndOfContainerStep
<1>8. CASE StreamEnd
  BY <1>8, StreamEndStep
<1>9. CASE Suffix
  BY <1>9, SuffixStep
<1>10. CASE End
  BY <1>10, EndStep
<1>11. CASE UNCHANGED vars
  <2>1. RecordInv'
    BY <1>11 DEF vars, RecordInv, TypeOK, BytesInv, Places, SepInv, HasRoom, WellFormed,
                 IntegersWhole, CutIsFull
  <2>2. QED
    BY <1>11, <2>1
<1>12. QED
  BY <1>1, <1>2, <1>3, <1>4, <1>5, <1>6, <1>7, <1>8, <1>9, <1>10, <1>11 DEF Next

LEMMA RecordInvariant == Spec => []RecordInv
BY InitRecord, NextRecord, PTL DEF Spec

---------------------------------------------------------------------------
(* Every variable of LogRecord has its type: nothing is written beyond the *)
(* buffer, and no step back goes before the header.                        *)
THEOREM TypeCorrect == Spec => []TypeOK
<1>1. RecordInv => TypeOK
  BY DEF RecordInv
<1>2. QED
  BY <1>1, RecordInvariant, PTL

(* A finished record is text up to its CR LF, and a NUL follows within the *)
(* buffer, however long header, text and suffix are.                       *)
THEOREM RecordsAreWellFormed == Spec => []WellFormed
<1>1. RecordInv => WellFormed
  BY DEF RecordInv
<1>2. QED
  BY <1>1, RecordInvariant, PTL

(* An integer that a Stream wrote, or a double formatted by gcvt(), is in  *)
(* the finished record with all its digits or not at all, wherever the     *)
(* steps back of containers and the end of the line fall.                  *)
THEOREM IntegersStayWhole == Spec => []IntegersWhole
<1>1. RecordInv => IntegersWhole
  BY DEF RecordInv
<1>2. QED
  BY <1>1, RecordInvariant, PTL

(* A record from which something was left out is full, but for the room    *)
(* that a number wants.                                                    *)
THEOREM OnlyFullRecordsAreCut == Spec => []CutIsFull
<1>1. RecordInv => CutIsFull
  BY DEF RecordInv
<1>2. QED
  BY <1>1, RecordInvariant, PTL

(* While nothing is left out, writers, step back and the end of the line   *)
(* leave alone what others wrote.                                          *)
THEOREM WrittenTextStays == Spec => TextIsKept
<1>1. RecordInv /\ [Next]_vars =>
        [~out'.cut =>
           \A i \in 0..(out.cur - 1) :
             out.buf[i] # "c" => i < out'.cur /\ out'.buf[i] = out.buf[i]]_vars
  BY NextRecord DEF KeptStep
<1>2. QED
  BY <1>1, RecordInvariant, PTL DEF Spec, TextIsKept
===========================================================================
