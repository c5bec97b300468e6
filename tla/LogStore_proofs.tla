-------------------------- MODULE LogStore_proofs --------------------------
(***************************************************************************)
(* FileRoll implements LogStore, for any directories, limits, ages, numbers*)
(* of files to reserve, lengths of a minute and a day, and delays of the   *)
(* records, where the ages cover the minute and the delay.                 *)
(***************************************************************************)
EXTENDS FileRoll_proofs

---------------------------------------------------------------------------
(* Sequences                                                               *)

(* What a segment is.                                                      *)
LEMMA Segment ==
  ASSUME NEW S, NEW s \in Seq(S), NEW a \in Nat, NEW b \in Nat, a <= b, b <= Len(s)
  PROVE  /\ SubSeq(s, a + 1, b) \in Seq(S) /\ Len(SubSeq(s, a + 1, b)) = b - a
         /\ \A i \in 1..(b - a) : SubSeq(s, a + 1, b)[i] = s[a + i]
<1>1. Len(s) \in Nat /\ \A i \in (a + 1)..b : s[i] \in S
  <2>1. Len(s) \in Nat
    BY LenProperties
  <2>2. ASSUME NEW i \in (a + 1)..b PROVE s[i] \in S
    <3>1. i \in 1..Len(s)
      BY <2>1
    <3>2. QED
      BY <3>1, ElementOfSeq
  <2>3. QED
    BY <2>1, <2>2
<1>2. /\ SubSeq(s, a + 1, b) \in Seq(S)
      /\ Len(SubSeq(s, a + 1, b)) = IF a + 1 <= b THEN b - (a + 1) + 1 ELSE 0
      /\ \A i \in 1..(b - (a + 1) + 1) : SubSeq(s, a + 1, b)[i] = s[a + 1 + i - 1]
  BY <1>1, SubSeqProperties
<1>3. Len(SubSeq(s, a + 1, b)) = b - a
  BY <1>2
<1>4. \A i \in 1..(b - a) : SubSeq(s, a + 1, b)[i] = s[a + i]
  <2>1. TAKE i \in 1..(b - a)
  <2>2. i \in 1..(b - (a + 1) + 1) /\ a + 1 + i - 1 = a + i
    OBVIOUS
  <2>3. QED
    BY <1>2, <2>2
<1>5. QED
  BY <1>2, <1>3, <1>4

(* All of a sequence.                                                      *)
LEMMA AllOfIt ==
  ASSUME NEW S, NEW s \in Seq(S)
  PROVE  SubSeq(s, 1, Len(s)) = s
<1>1. /\ Len(s) \in Nat /\ SubSeq(s, 1, Len(s)) \in Seq(S)
      /\ Len(SubSeq(s, 1, Len(s))) = Len(s)
      /\ \A i \in 1..Len(s) : SubSeq(s, 1, Len(s))[i] = s[i]
  BY LenProperties, Prefix
<1>2. QED
  BY <1>1, SeqEqual

(* A part of what follows the first a elements.                            *)
LEMMA Within ==
  ASSUME NEW S, NEW s \in Seq(S), NEW a \in Nat, a <= Len(s),
         NEW i \in Nat, NEW j \in Nat, i <= j,
         NEW c, c = a + i, NEW d, d = a + j, d <= Len(s),
         NEW t, t = SubSeq(s, a + 1, Len(s))
  PROVE  SubSeq(t, i + 1, j) = SubSeq(s, c + 1, d)
<1>1. /\ Len(s) \in Nat /\ t \in Seq(S) /\ Len(t) = Len(s) - a
      /\ \A k \in 1..(Len(s) - a) : t[k] = s[a + k]
  BY LenProperties, Segment
<1>2. /\ SubSeq(t, i + 1, j) \in Seq(S) /\ Len(SubSeq(t, i + 1, j)) = j - i
      /\ \A k \in 1..(j - i) : SubSeq(t, i + 1, j)[k] = t[i + k]
  <2>1. j <= Len(t)
    BY <1>1
  <2>2. QED
    BY <1>1, <2>1, Segment
<1>3. c \in Nat /\ d \in Nat /\ c <= d /\ d - c = j - i
  OBVIOUS
<1>4. /\ SubSeq(s, c + 1, d) \in Seq(S)
      /\ Len(SubSeq(s, c + 1, d)) = d - c
      /\ \A k \in 1..(d - c) : SubSeq(s, c + 1, d)[k] = s[c + k]
  BY <1>3, Segment
<1>5. \A k \in 1..(j - i) : SubSeq(t, i + 1, j)[k] = SubSeq(s, c + 1, d)[k]
  <2>1. TAKE k \in 1..(j - i)
  <2>2. i + k \in 1..(Len(s) - a) /\ a + (i + k) = c + k
    BY <1>1
  <2>3. QED
    BY <1>1, <1>2, <1>3, <1>4, <2>2
<1>6. QED
  BY <1>2, <1>3, <1>4, <1>5, SeqEqual

(* What two adjacent parts have together.                                  *)
LEMMA Adjacent ==
  ASSUME NEW S, NEW s \in Seq(S), NEW a \in Nat, NEW b \in Nat, a <= b, b <= Len(s)
  PROVE  SubSeq(s, 1, a) \o SubSeq(s, a + 1, b) = SubSeq(s, 1, b)
<1> DEFINE p == SubSeq(s, 1, a)  q == SubSeq(s, a + 1, b)  r == SubSeq(s, 1, b)
<1>1. a \in 0..Len(s) /\ b \in 0..Len(s)
  BY LenProperties
<1>2. /\ p \in Seq(S) /\ Len(p) = a /\ \A i \in 1..a : p[i] = s[i]
      /\ r \in Seq(S) /\ Len(r) = b /\ \A i \in 1..b : r[i] = s[i]
  BY <1>1, Prefix
<1>3. /\ q \in Seq(S) /\ Len(q) = b - a /\ \A i \in 1..(b - a) : q[i] = s[a + i]
  BY Segment
<1> HIDE DEF p, q, r
<1>4. /\ p \o q \in Seq(S) /\ Len(p \o q) = a + (b - a)
      /\ \A i \in 1..(a + (b - a)) : (p \o q)[i] = IF i <= a THEN p[i] ELSE q[i - a]
  BY <1>2, <1>3, ConcatProperties
<1>5. \A i \in 1..b : (p \o q)[i] = r[i]
  <2>1. TAKE i \in 1..b
  <2>2. i \in 1..(a + (b - a))
    OBVIOUS
  <2>3. CASE i <= a
    BY <1>2, <1>4, <2>2, <2>3
  <2>4. CASE ~(i <= a)
    <3>1. PICK j \in 1..(b - a) : j = i - a /\ a + j = i
      BY <2>4
    <3>2. (p \o q)[i] = q[i - a]
      BY <1>4, <2>2, <2>4
    <3>3. q[j] = s[a + j]
      BY <1>3
    <3>4. r[i] = s[i]
      BY <1>2
    <3>5. QED
      BY <3>1, <3>2, <3>3, <3>4
  <2>5. QED
    BY <2>3, <2>4
<1>6. p \o q = r
  BY <1>2, <1>4, <1>5, SeqEqual
<1>7. QED
  BY <1>6 DEF p, q, r

(* What follows the first a elements, of a sequence that grew.             *)
LEMMA GrownRest ==
  ASSUME NEW S, NEW s \in Seq(S), NEW a \in Nat, NEW k \in Nat, k = Len(s), a <= k,
         NEW e \in S, NEW l \in Nat, l = k + 1
  PROVE  /\ Append(s, e) \in Seq(S) /\ Len(Append(s, e)) = l
         /\ Len(SubSeq(s, a + 1, k)) = k - a
         /\ Append(SubSeq(s, a + 1, k), e) = SubSeq(Append(s, e), a + 1, l)
         /\ SubSeq(Append(s, e), 1, a) = SubSeq(s, 1, a)
<1> DEFINE t == SubSeq(s, a + 1, k)  u == Append(s, e)  v == SubSeq(u, a + 1, l)
           b == Append(t, e)
<1>1. /\ t \in Seq(S) /\ Len(t) = k - a
      /\ \A i \in 1..(k - a) : t[i] = s[a + i]
  BY Segment
<1>2. /\ u \in Seq(S) /\ Len(u) = l
      /\ \A i \in 1..k : u[i] = s[i]
      /\ u[l] = e
  BY OneMore
<1> HIDE DEF u
<1>3. /\ v \in Seq(S) /\ Len(v) = l - a
      /\ \A i \in 1..(l - a) : v[i] = u[a + i]
  <2>1. a <= l /\ l <= Len(u)
    BY <1>2
  <2>2. QED
    BY <1>2, <2>1, Segment
<1>4. /\ SubSeq(s, 1, a) \in Seq(S) /\ Len(SubSeq(s, 1, a)) = a
      /\ \A i \in 1..a : SubSeq(s, 1, a)[i] = s[i]
      /\ SubSeq(u, 1, a) \in Seq(S) /\ Len(SubSeq(u, 1, a)) = a
      /\ \A i \in 1..a : SubSeq(u, 1, a)[i] = u[i]
  <2>1. a \in 0..Len(s) /\ a \in 0..Len(u)
    BY <1>2
  <2>2. QED
    BY <1>2, <2>1, Prefix
<1> HIDE DEF v, t
<1>5. /\ b \in Seq(S) /\ Len(b) = l - a
      /\ \A i \in 1..(k - a) : b[i] = t[i]
      /\ b[l - a] = e
  <2>0. Len(t) \in Nat
    BY <1>1
  <2>1. /\ b \in Seq(S) /\ Len(b) = Len(t) + 1
        /\ \A i \in 1..Len(t) : b[i] = t[i]
        /\ b[Len(t) + 1] = e
    BY <1>1, OneMore
  <2>2. Len(t) + 1 = l - a
    BY <1>1
  <2>3. QED
    BY <1>1, <2>1, <2>2
<1> HIDE DEF b
<1>6. b = v
  <2>1. \A i \in 1..(l - a) : b[i] = v[i]
    <3>1. TAKE i \in 1..(l - a)
    <3>2. CASE i <= k - a
      <4>1. i \in 1..(k - a) /\ a + i \in 1..k
        BY <3>2
      <4>2. QED
        BY <1>1, <1>2, <1>3, <1>5, <4>1
    <3>3. CASE i = l - a
      <4>1. a + i = l
        BY <3>3
      <4>2. QED
        BY <1>2, <1>3, <1>5, <3>3, <4>1
    <3>4. i <= k - a \/ i = l - a
      OBVIOUS
    <3>5. QED
      BY <3>2, <3>3, <3>4
  <2>2. QED
    BY <1>3, <1>5, <2>1, SeqEqual
<1>7. SubSeq(u, 1, a) = SubSeq(s, 1, a)
  <2>1. \A i \in 1..a : SubSeq(u, 1, a)[i] = SubSeq(s, 1, a)[i]
    BY <1>2, <1>4
  <2>2. QED
    BY <1>4, <2>1, SeqEqual
<1>8. QED
  BY <1>1, <1>2, <1>6, <1>7 DEF t, u, v, b

(* The parts of what follows the first a elements.                         *)
LEMMA Parts ==
  ASSUME NEW S, NEW q \in Seq(S), NEW a \in Nat, NEW n \in Nat, a <= n,
         NEW l \in Nat, l = Len(q), n <= l,
         NEW b, b = SubSeq(q, a + 1, l), NEW m \in Nat, n = a + m, NEW j \in Nat, l = a + j
  PROVE  /\ SubSeq(q, 1, a) \o SubSeq(b, 1, m) = SubSeq(q, 1, n)
         /\ SubSeq(b, m + 1, j) = SubSeq(q, n + 1, l)
         /\ Len(b) = j /\ b \in Seq(S)
<1>1. b \in Seq(S) /\ Len(b) = j
  <2>1. a <= l /\ l <= Len(q) /\ l - a = j
    OBVIOUS
  <2>2. SubSeq(q, a + 1, l) \in Seq(S) /\ Len(SubSeq(q, a + 1, l)) = l - a
    BY <2>1, Segment
  <2>3. QED
    BY <2>1, <2>2
<1>2. /\ m <= j /\ a = a + 0 /\ 0 <= m /\ 0 \in Nat
      /\ n <= Len(q) /\ a <= Len(q) /\ l <= Len(q) /\ b = SubSeq(q, a + 1, Len(q))
  BY <1>1
<1>3. SubSeq(b, 0 + 1, m) = SubSeq(q, a + 1, n)
  BY <1>1, <1>2, Within
<1>4. SubSeq(b, m + 1, j) = SubSeq(q, n + 1, l)
  BY <1>1, <1>2, Within
<1>5. SubSeq(q, 1, a) \o SubSeq(q, a + 1, n) = SubSeq(q, 1, n)
  BY <1>1, <1>2, Adjacent
<1>6. SubSeq(b, 1, m) = SubSeq(q, a + 1, n)
  BY <1>3
<1>7. QED
  BY <1>1, <1>4, <1>5, <1>6

---------------------------------------------------------------------------
(* What LogStore sees of the files                                         *)

\* The files f, of which h is open and s of its records are on disk.
Filed(f, S) == \A p \in DOMAIN f : f[p] \in Seq(S)
DiskOf(f, h, s) == [p \in DOMAIN f |-> SubSeq(f[p], 1, IF p = h THEN s ELSE Len(f[p]))]
BufferOf(f, h, s) == IF h \in DOMAIN f THEN SubSeq(f[h], s + 1, Len(f[h])) ELSE <<>>

\* Files d, with the first n records of buffer b behind h.
Behind(d, h, b, n) == [p \in DOMAIN d |-> IF p = h THEN d[p] \o SubSeq(b, 1, n) ELSE d[p]]

Everything(f) == [p \in DOMAIN f |-> f[p]]

(* Where nothing is in a buffer, the disk has everything.                  *)
LEMMA NothingBuffered ==
  ASSUME NEW S, NEW f, Filed(f, S), NEW h, NEW s, h \in DOMAIN f => s = Len(f[h])
  PROVE  DiskOf(f, h, s) = Everything(f) /\ BufferOf(f, h, s) = <<>>
<1>1. ASSUME NEW p \in DOMAIN f
      PROVE  SubSeq(f[p], 1, IF p = h THEN s ELSE Len(f[p])) = f[p]
  <2>1. f[p] \in Seq(S)
    BY DEF Filed
  <2>2. SubSeq(f[p], 1, Len(f[p])) = f[p]
    BY <2>1, AllOfIt
  <2>3. QED
    BY <2>2
<1>2. DiskOf(f, h, s) = Everything(f)
  BY <1>1 DEF DiskOf, Everything
<1>3. BufferOf(f, h, s) = <<>>
  <2>1. CASE h \in DOMAIN f
    <3>1. f[h] \in Seq(S)
      BY <2>1 DEF Filed
    <3> DEFINE l == Len(f[h])
    <3>2. l \in Nat /\ s = l
      BY <2>1, <3>1, LenProperties
    <3>3. SubSeq(f[h], l + 1, l) \in Seq(S) /\ Len(SubSeq(f[h], l + 1, l)) = l - l
      BY <3>1, <3>2, Segment
    <3>4. SubSeq(f[h], l + 1, l) = <<>>
      BY <3>2, <3>3, EmptySeq
    <3>5. QED
      BY <2>1, <3>2, <3>4 DEF BufferOf
  <2>2. QED
    BY <2>1 DEF BufferOf
<1>4. QED
  BY <1>2, <1>3

\* In g file h is like r, and the other files are as in f.
Becomes(f, h, g, r) ==
  DOMAIN g = DOMAIN f /\ g[h] = r /\ \A p \in DOMAIN f : p # h => g[p] = f[p]

\* The first m of the j records in the buffer get to disk, which then has g.
GetsToDisk(S, f, h, s, g, m, j) ==
  LET b == BufferOf(f, h, s) IN
  /\ b \in Seq(S) /\ Len(b) = j
  /\ Behind(DiskOf(f, h, s), h, b, m) = Everything(g)

(* What is in the buffer, and what the disk has with the first of it.      *)
LEMMA CutBehind ==
  ASSUME NEW S, NEW f, Filed(f, S), NEW h \in DOMAIN f, NEW l \in Nat, l = Len(f[h]),
         NEW s \in Nat, NEW n \in Nat, s <= n, n <= l,
         NEW m \in Nat, n = s + m, NEW j \in Nat, l = s + j,
         NEW g, Becomes(f, h, g, SubSeq(f[h], 1, n))
  PROVE  GetsToDisk(S, f, h, s, g, m, j)
<1> DEFINE b == BufferOf(f, h, s)  d == DiskOf(f, h, s)  r == f[h]
<1> USE DEF Becomes
<1>1. r \in Seq(S) /\ b = SubSeq(r, s + 1, l) /\ l = Len(r)
  BY DEF Filed, BufferOf
<1>2. d[h] = SubSeq(r, 1, s) /\ g[h] = SubSeq(r, 1, n)
  BY DEF DiskOf
<1> HIDE DEF r, b, d
<1>3. /\ SubSeq(r, 1, s) \o SubSeq(b, 1, m) = SubSeq(r, 1, n)
      /\ Len(b) = j /\ b \in Seq(S)
  BY <1>1, Parts
<1>4. ASSUME NEW p \in DOMAIN f, p # h
      PROVE  d[p] = g[p]
  <2>1. f[p] \in Seq(S)
    BY DEF Filed
  <2>2. SubSeq(f[p], 1, Len(f[p])) = f[p]
    BY <2>1, AllOfIt
  <2>3. QED
    BY <1>4, <2>2 DEF DiskOf, d
<1>5. DOMAIN d = DOMAIN f
  BY DEF DiskOf, d
<1>6. Behind(d, h, b, m) = [p \in DOMAIN f |-> g[p]]
  <2>1. \A p \in DOMAIN f : (IF p = h THEN d[p] \o SubSeq(b, 1, m) ELSE d[p]) = g[p]
    BY <1>2, <1>3, <1>4
  <2>2. QED
    BY <1>5, <2>1 DEF Behind
<1>7. QED
  BY <1>3, <1>6 DEF Everything, GetsToDisk, b, d

(* With all of the buffer the disk has everything.                         *)
LEMMA AllBehind ==
  ASSUME NEW S, NEW f, Filed(f, S), NEW h, NEW s \in Nat, h \in DOMAIN f => s <= Len(f[h]),
         NEW b, b = BufferOf(f, h, s)
  PROVE  /\ b \in Seq(S) /\ Len(b) \in Nat
         /\ Behind(DiskOf(f, h, s), h, b, Len(b)) = Everything(f)
<1>1. CASE h \in DOMAIN f
  <2>1. f[h] \in Seq(S) /\ Len(f[h]) \in Nat /\ s <= Len(f[h])
    BY <1>1, LenProperties DEF Filed
  <2>2. PICK l \in Nat : l = Len(f[h])
    BY <2>1
  <2>3. PICK j \in Nat : l = s + j
    <3>1. l - s \in Nat /\ l = s + (l - s)
      BY <2>1, <2>2
    <3>2. QED
      BY <3>1, Zenon
  <2>4. SubSeq(f[h], 1, l) = f[h]
    BY <2>1, <2>2, AllOfIt
  <2>5. s <= l /\ l <= l
    BY <2>1, <2>2
  <2>6. Becomes(f, h, f, SubSeq(f[h], 1, l))
    BY <2>4 DEF Becomes
  <2>7. GetsToDisk(S, f, h, s, f, j, j)
    BY <1>1, <2>2, <2>3, <2>5, <2>6, CutBehind
  <2>8. QED
    BY <2>7 DEF GetsToDisk
<1>2. CASE h \notin DOMAIN f
  <2>1. b = <<>>
    BY <1>2 DEF BufferOf
  <2>2. b \in Seq(S) /\ Len(b) = 0
    BY <2>1, EmptySeq
  <2>3. DiskOf(f, h, s) = Everything(f)
    BY <1>2, NothingBuffered
  <2>4. \A p \in DOMAIN f : p # h
    BY <1>2
  <2>5. \A n : Behind(Everything(f), h, b, n) = Everything(f)
    BY <2>4 DEF Behind, Everything
  <2>6. QED
    BY <2>2, <2>3, <2>5
<1>3. QED
  BY <1>1, <1>2

\* Element e goes behind the buffer, of k - s elements, of a file r, and then
\* the first m elements of the buffer to disk.
BufferMoves(r, k, s, e, n, m) ==
  LET t == SubSeq(r, s + 1, k)
      b == Append(t, e)
      q == Append(r, e)
  IN  /\ m \in 0..(Len(t) + 1)
      /\ SubSeq(r, 1, s) \o SubSeq(b, 1, m) = SubSeq(q, 1, n)
      /\ SubSeq(b, m + 1, Len(b)) = SubSeq(q, n + 1, Len(q))

(* A record goes behind the buffer, and some of that to disk.              *)
LEMMA WrittenParts ==
  ASSUME NEW S, NEW r \in Seq(S), NEW k \in Nat, k = Len(r), NEW s \in Nat, s <= k,
         NEW e \in S, NEW n \in Nat, s <= n, n <= k + 1, NEW m \in Nat, n = s + m
  PROVE  BufferMoves(r, k, s, e, n, m)
<1>1. PICK l \in Nat : l = k + 1
  OBVIOUS
<1>2. n <= l /\ l - s \in Nat /\ l = s + (l - s)
  BY <1>1
<1>3. PICK j \in Nat : l = s + j
  BY <1>2, Zenon
<1> DEFINE t == SubSeq(r, s + 1, k)  b == Append(t, e)  q == Append(r, e)
<1>4. /\ q \in Seq(S) /\ Len(q) = l /\ Len(t) = k - s
      /\ b = SubSeq(q, s + 1, l)
      /\ SubSeq(q, 1, s) = SubSeq(r, 1, s)
  BY <1>1, GrownRest
<1> HIDE DEF q, t, b
<1>5. /\ SubSeq(q, 1, s) \o SubSeq(b, 1, m) = SubSeq(q, 1, n)
      /\ SubSeq(b, m + 1, j) = SubSeq(q, n + 1, l)
      /\ Len(b) = j
  BY <1>3, <1>2, <1>4, Parts, SMTT(40)
<1>6. m \in 0..(Len(t) + 1)
  BY <1>3, <1>1, <1>2, <1>4
<1>7. QED
  BY <1>4, <1>5, <1>6 DEF q, t, b, BufferMoves

\* e goes behind the buffer of h, and m records from there to disk, giving g.
GoesBehind(f, h, s, e, g, n, m) ==
  LET b == Append(BufferOf(f, h, s), e)
      d == DiskOf(f, h, s)
  IN  /\ m \in 0..(Len(BufferOf(f, h, s)) + 1)
      /\ DiskOf(g, h, n) = [d EXCEPT ![h] = @ \o SubSeq(b, 1, m)]
      /\ BufferOf(g, h, n) = SubSeq(b, m + 1, Len(b))

LEMMA WrittenBehind ==
  ASSUME NEW S, NEW f, Filed(f, S), NEW h \in DOMAIN f, NEW s \in Nat, s <= Len(f[h]),
         NEW e \in S, NEW n \in Nat, s <= n, n <= Len(f[h]) + 1, NEW m \in Nat, n = s + m,
         NEW g, Becomes(f, h, g, Append(f[h], e))
  PROVE  GoesBehind(f, h, s, e, g, n, m)
<1> USE DEF Becomes
<1>1. PICK r \in Seq(S) : r = f[h]
  BY DEF Filed
<1>2. PICK k \in Nat : k = Len(r)
  BY LenProperties
<1> DEFINE t == SubSeq(r, s + 1, k)  q == Append(r, e)  b == Append(t, e)
           d == DiskOf(f, h, s)
<1>3. BufferOf(f, h, s) = t
  BY <1>1, <1>2 DEF BufferOf
<1>4. d[h] = SubSeq(r, 1, s) /\ DOMAIN d = DOMAIN f
  BY <1>1 DEF DiskOf
<1>5. s <= k /\ n <= k + 1 /\ g[h] = q
  BY <1>1, <1>2
<1> HIDE DEF d
<1>6. /\ m \in 0..(Len(t) + 1)
      /\ SubSeq(r, 1, s) \o SubSeq(b, 1, m) = SubSeq(q, 1, n)
      /\ SubSeq(b, m + 1, Len(b)) = SubSeq(q, n + 1, Len(q))
  <2>1. BufferMoves(r, k, s, e, n, m)
    BY <1>2, <1>5, WrittenParts
  <2>2. QED
    BY <2>1 DEF BufferMoves
<1> HIDE DEF t, q, b
<1>7. DiskOf(g, h, n) = [d EXCEPT ![h] = @ \o SubSeq(b, 1, m)]
  <2>1. \A p \in DOMAIN f :
          SubSeq(g[p], 1, IF p = h THEN n ELSE Len(g[p]))
            = IF p = h THEN d[h] \o SubSeq(b, 1, m) ELSE d[p]
    BY <1>4, <1>5, <1>6 DEF DiskOf, d
  <2>2. DiskOf(g, h, n)
          = [p \in DOMAIN f |-> IF p = h THEN d[h] \o SubSeq(b, 1, m) ELSE d[p]]
    BY <2>1 DEF DiskOf
  <2>3. QED
    BY <1>4, <2>2 DEF DiskOf, d
<1>8. BufferOf(g, h, n) = SubSeq(b, m + 1, Len(b))
  BY <1>5, <1>6 DEF BufferOf
<1>9. QED
  BY <1>3, <1>6, <1>7, <1>8 DEF b, d, GoesBehind

---------------------------------------------------------------------------
(* Nothing goes wrong by itself                                            *)

(* While no setting changed and nothing failed, a key writes its records,  *)
(* and finds a file for each.                                              *)
Unhurt == changes + faults = 0 => Wanted /\ (pc = "write" => handle # NULL)

LEMMA UnhurtInit == Init => Unhurt
BY DEF Init, Unhurt, Wanted, Defaults

LEMMA UnhurtStep == FileInv /\ Unhurt /\ [Next]_vars => Unhurt'
<1> SUFFICES ASSUME FileInv, Unhurt, [Next]_vars, changes' + faults' = 0
             PROVE  Wanted' /\ (pc' = "write" => handle' # NULL)
  BY DEF Unhurt
<1> USE DEF Unhurt
<1>1. changes \in Nat /\ faults \in Nat
  BY DEF FileInv, TypeOK
<1>2. ~Set /\ ~Reset /\ ~Update /\ ~OpenFails /\ ~WriteShort
  <2>1. changes' = changes + 1 /\ faults' = faults => FALSE
    BY <1>1
  <2>2. faults' = faults + 1 /\ changes' = changes => FALSE
    BY <1>1
  <2>3. QED
    BY <2>1, <2>2 DEF Set, Reset, NewEntry, Update, OpenFails, WriteShort, Counted
<1>3. UNCHANGED conf /\ changes + faults = 0
  <2>1. UNCHANGED <<conf, changes>>
    BY <1>2 DEF Next, Worker, Tick, Take, OpenRefused, OpenKept, OpenFile, Write, WriteNowhere,
         Sweep, SweepClose, Rest, Counted, vars, counts
  <2>2. faults' = faults \/ faults' = faults + 1
    <3>1. CASE OpenFile
      BY <1>1, <3>1 DEF OpenFile, Failures
    <3>2. CASE ~OpenFile
      BY <1>2, <3>2 DEF Next, Worker, Tick, Take, OpenRefused, OpenKept, Write, WriteNowhere,
           Sweep, SweepClose, Rest, vars, counts
    <3>3. QED
      BY <3>1, <3>2
  <2>3. QED
    BY <1>1, <2>1, <2>2
<1>4. Wanted /\ Wanted'
  BY <1>3 DEF Wanted
<1>5. ASSUME pc' = "write" PROVE handle' # NULL
  <2>1. CASE OpenKept
    BY <2>1 DEF OpenKept, Keeps, entry
  <2>2. CASE OpenFile
    <3>1. Path \in Paths
      BY <2>2, OpenTypes, OpenEnters DEF OpenFile, FileInv
    <3>2. QED
      BY <2>2, <3>1, TimesAreNumbers DEF OpenFile, OpenOn
  <2>3. CASE Tick \/ UNCHANGED vars
    BY <1>3, <1>5, <2>3 DEF Tick, vars, entry
  <2>4. QED
    BY <1>2, <1>5, <2>1, <2>2, <2>3 DEF Next, Worker, Take, OpenRefused, Write, WriteNowhere,
         Sweep, SweepClose, Rest, Counted, Dropped
<1>6. QED
  BY <1>4, <1>5

---------------------------------------------------------------------------
(* Steps                                                                   *)

Disk == [p \in DOMAIN files |-> SubSeq(files[p], 1, OnDisk(p))]
Mishaps == changes + faults
Flushed == Behind(Disk, handle, InBuffer, Len(InBuffer))

Stutters == UNCHANGED <<Disk, InBuffer, handle, log, Mishaps>>

Accepts == log = NULL /\ log' \in Times /\ UNCHANGED <<Disk, InBuffer, handle, Mishaps>>

Opens ==
  /\ log # NULL /\ handle' \in Paths /\ <<log, handle'>> \in SameDayAs
  /\ \E old \in SUBSET DOMAIN Disk :
       /\ \A p \in old : <<p, handle'>> \in OlderThan
       /\ Disk' = [p \in (DOMAIN Disk \cup {handle'}) \ old |->
                     IF p \in DOMAIN Disk THEN Flushed[p] ELSE <<>>]
  /\ InBuffer' = <<>>
  /\ Mishaps' \in {Mishaps, Mishaps + 1}
  /\ UNCHANGED log

Writes ==
  /\ log # NULL /\ handle \in DOMAIN Disk /\ <<log, handle>> \in SameDayAs
  /\ \E n \in 0..(Len(InBuffer) + 1) :
       /\ Disk' = [Disk EXCEPT ![handle] = @ \o SubSeq(Append(InBuffer, log), 1, n)]
       /\ InBuffer' = SubSeq(Append(InBuffer, log), n + 1, Len(Append(InBuffer, log)))
  /\ log' = NULL
  /\ UNCHANGED <<handle, Mishaps>>

Flushes == Disk' = Flushed /\ InBuffer' = <<>> /\ UNCHANGED <<handle, log, Mishaps>>

Closes == Disk' = Flushed /\ InBuffer' = <<>> /\ handle' = NULL /\ UNCHANGED <<log, Mishaps>>

Drops == Mishaps > 0 /\ log' = NULL /\ UNCHANGED <<Disk, InBuffer, handle, Mishaps>>

Harms ==
  /\ Mishaps' = Mishaps + 1
  /\ \/ UNCHANGED <<Disk, InBuffer, handle, log>>
     \/ /\ \E n \in 0..Len(InBuffer) : Disk' = Behind(Disk, handle, InBuffer, n)
        /\ InBuffer' = <<>> /\ handle' = NULL
        /\ log' = log \/ log' = NULL

StoreStep ==
  Stutters \/ Accepts \/ Opens \/ Writes \/ Flushes \/ Closes \/ Drops \/ Harms

(* What LogStore sees, as functions of what changes.                       *)
LEMMA SeenIs ==
  /\ Disk = DiskOf(files, handle, synced)
  /\ Disk' = DiskOf(files', handle', synced')
  /\ InBuffer = BufferOf(files, handle, synced)
  /\ InBuffer' = BufferOf(files', handle', synced')
BY DEF Disk, DiskOf, OnDisk, InBuffer, BufferOf

(* Such a step is one of LogStore.                                         *)
LEMMA StoreStepIs == StoreStep => [Store!Next]_(Store!vars)
<1> SUFFICES ASSUME StoreStep PROVE [Store!Next]_(Store!vars)
  OBVIOUS
<1> USE DEF Mishaps, Disk
<1>1. CASE Stutters
  BY <1>1 DEF Stutters, Store!vars
<1>2. CASE Accepts
  BY <1>2 DEF Accepts, Store!Next, Store!Accept
<1>3. CASE Opens
  <2>1. Store!Whole = Flushed
    BY DEF Store!Whole, Store!StoredAfter, Flushed, Behind
  <2>2. Store!Open
    BY <1>3, <2>1 DEF Opens, Store!Open
  <2>3. QED
    BY <2>2 DEF Store!Next
<1>4. CASE Writes
  BY <1>4 DEF Writes, Store!Next, Store!Write
<1>5. CASE Flushes
  BY <1>5 DEF Flushes, Flushed, Behind, Store!Next, Store!Flush, Store!Whole, Store!StoredAfter
<1>6. CASE Closes
  BY <1>6 DEF Closes, Flushed, Behind, Store!Next, Store!Close, Store!Whole, Store!StoredAfter
<1>7. CASE Drops
  BY <1>7 DEF Drops, Store!Next, Store!Drop
<1>8. CASE Harms
  BY <1>8 DEF Harms, Behind, Store!Next, Store!Harmless, Store!Mishap, Store!StoredAfter
<1>9. QED
  BY <1>1, <1>2, <1>3, <1>4, <1>5, <1>6, <1>7, <1>8 DEF StoreStep

(* What the invariant says of the files.                                   *)
LEMMA FilesHeld ==
  ASSUME FileInv
  PROVE  /\ Filed(files, Times) /\ synced \in Nat /\ changes \in Nat /\ faults \in Nat
         /\ handle \in DOMAIN files => handle # NULL
         /\ handle \in DOMAIN files => /\ synced <= Len(files[handle])
                                       /\ Len(files[handle]) \in Nat
         /\ DOMAIN Disk = DOMAIN files
         /\ InBuffer \in Seq(Times) /\ Len(InBuffer) \in Nat
         /\ Flushed = Everything(files)
<1>1. Filed(files, Times) /\ synced \in Nat /\ changes \in Nat /\ faults \in Nat
  BY DEF FileInv, TypeOK, Filed
<1>2. handle \in DOMAIN files => handle # NULL
  BY TimesAreNumbers DEF FileInv, TypeOK
<1>3. handle \in DOMAIN files => synced <= Len(files[handle]) /\ Len(files[handle]) \in Nat
  BY <1>1, <1>2, LenProperties DEF FileInv, EntryIsTrue, Filed
<1>4. /\ InBuffer \in Seq(Times) /\ Len(InBuffer) \in Nat
      /\ Behind(DiskOf(files, handle, synced), handle, InBuffer, Len(InBuffer)) = Everything(files)
  <2>1. InBuffer = BufferOf(files, handle, synced)
    BY SeenIs
  <2>2. QED
    BY <1>1, <1>3, <2>1, AllBehind
<1>5. DOMAIN Disk = DOMAIN files
  BY DEF Disk
<1>6. QED
  BY <1>1, <1>2, <1>3, <1>4, <1>5, SeenIs DEF Flushed

(* After a step that leaves nothing in the buffer, the disk has all files. *)
LEMMA NothingLeft ==
  ASSUME FileInv', handle' \in DOMAIN files' => synced' = Len(files'[handle'])
  PROVE  Disk' = Everything(files') /\ InBuffer' = <<>>
<1>1. Filed(files', Times)
  BY DEF FileInv, TypeOK, Filed
<1>2. /\ DiskOf(files', handle', synced') = Everything(files')
      /\ BufferOf(files', handle', synced') = <<>>
  BY <1>1, NothingBuffered
<1>3. QED
  BY <1>2, SeenIs

(* A step that leaves all this alone is none of LogStore's.                *)
LEMMA NothingSeen ==
  UNCHANGED <<files, handle, synced>> => UNCHANGED <<Disk, InBuffer>>
BY SeenIs

(* open() closes the file and opens another.                               *)
LEMMA OpenStores ==
  ASSUME ReserveCoversMinute, FileInv, FileInv', OpenFile PROVE Opens
<1>1. PICK gone \in Gone : files' = DiskWith(Path, gone) /\ faults' = faults + Failures(gone)
  BY DEF OpenFile
<1>2. /\ log # NULL /\ log \in Times /\ Path \in Paths /\ Path[2] = Minute(log)
      /\ \A p \in Removed : p \in Paths /\ p[2] < Path[2]
      /\ Path \notin Removed
      /\ handle' = Path /\ synced' = Len(Contents(Path))
      /\ UNCHANGED <<log, changes>>
  <2>1. log # NULL /\ log \in Times /\ Path[2] = Minute(log)
    BY OpenTypes DEF OpenFile, FileInv
  <2>2. Path \in Paths
    BY <2>1, OpenEnters DEF FileInv
  <2>3. Path \notin Removed /\ \A p \in Removed : p \in Paths /\ p[2] < Path[2]
    BY <2>1, OpenRemovesOthers, RemovedAreOlder DEF FileInv
  <2>4. QED
    BY <2>1, <2>2, <2>3 DEF OpenFile, OpenOn
<1>3. /\ gone \subseteq Removed /\ gone \subseteq DOMAIN files
      /\ DOMAIN files' = (DOMAIN files \cup {Path}) \ gone
      /\ \A p \in DOMAIN files' : files'[p] = Contents(p)
  BY <1>1, <1>2 DEF DiskWith, Gone, Removable
<1>4. Disk' = Everything(files') /\ InBuffer' = <<>>
  <2>1. handle' \in DOMAIN files' /\ files'[handle'] = Contents(Path)
    BY <1>2, <1>3
  <2>2. QED
    BY <1>2, <2>1, NothingLeft
<1>5. /\ DOMAIN Disk = DOMAIN files /\ Flushed = Everything(files)
  BY FilesHeld
<1>6. DOMAIN files' = (DOMAIN Disk \cup {handle'}) \ gone
  BY <1>2, <1>3, <1>5
<1>7. \A p \in DOMAIN files' :
        files'[p] = IF p \in DOMAIN Disk THEN Flushed[p] ELSE <<>>
  BY <1>3, <1>5 DEF Contents, Everything
<1>8. Disk' = [p \in (DOMAIN Disk \cup {handle'}) \ gone |->
                 IF p \in DOMAIN Disk THEN Flushed[p] ELSE <<>>]
  BY <1>4, <1>6, <1>7 DEF Everything
<1>9. \A p \in gone : <<p, handle'>> \in OlderThan
  BY <1>2, <1>3 DEF OlderThan
<1>10. <<log, handle'>> \in SameDayAs
  BY <1>2 DEF SameDayAs, Day
<1>11. gone \in SUBSET DOMAIN Disk
  BY <1>3, <1>5
<1>12. Mishaps' \in {Mishaps, Mishaps + 1}
  <2>1. changes \in Nat /\ faults \in Nat
    BY FilesHeld
  <2>2. faults' = faults \/ faults' = faults + 1
    BY <1>1, <2>1 DEF Failures
  <2>3. QED
    BY <1>2, <2>1, <2>2 DEF Mishaps
<1>13. QED
  BY <1>2, <1>4, <1>8, <1>9, <1>10, <1>11, <1>12 DEF Opens

(* run() writes a record.                                                  *)
LEMMA WriteStores ==
  ASSUME FileInv, Write PROVE Writes
<1>1. /\ handle \in DOMAIN files /\ handle # NULL /\ log # NULL /\ log \in Times
      /\ handle \in Paths /\ Day(log) = DayOf(handle[2])
      /\ files' = [files EXCEPT ![handle] = Append(@, log)]
      /\ UNCHANGED <<handle, changes, faults>> /\ log' = NULL
  <2>1. /\ handle \in DOMAIN files /\ pc = "write" /\ UNCHANGED <<handle, changes, faults>>
        /\ log' = NULL /\ files' = [files EXCEPT ![handle] = Append(@, log)]
    BY DEF Write, Counted, Dropped
  <2>2. handle # NULL
    BY <2>1, FilesHeld
  <2>3. log # NULL /\ log \in Times /\ handle \in Paths
    BY <2>1, <2>2 DEF FileInv, TypeOK
  <2>4. Day(log) = DayOf(handle[2])
    BY <2>1, <2>2 DEF FileInv, RightFile
  <2>5. QED
    BY <2>1, <2>2, <2>3, <2>4
<1>2. PICK n \in synced..(Len(files[handle]) + 1) : synced' = n
  BY DEF Write
<1>3. /\ Filed(files, Times) /\ synced \in Nat
      /\ synced <= Len(files[handle]) /\ Len(files[handle]) \in Nat
  BY <1>1, FilesHeld
<1>4. n \in Nat /\ synced <= n /\ n <= Len(files[handle]) + 1
  BY <1>2, <1>3
<1>5. PICK m \in Nat : n = synced + m
  <2>1. n - synced \in Nat /\ n = synced + (n - synced)
    BY <1>3, <1>4
  <2>2. QED
    BY <2>1, Zenon
<1>6. Becomes(files, handle, files', Append(files[handle], log))
  BY <1>1 DEF Becomes
<1>7. GoesBehind(files, handle, synced, log, files', n, m)
  BY <1>1, <1>3, <1>4, <1>5, <1>6, WrittenBehind
<1>8. /\ m \in 0..(Len(InBuffer) + 1)
      /\ Disk' = [Disk EXCEPT ![handle] = @ \o SubSeq(Append(InBuffer, log), 1, m)]
      /\ InBuffer' = SubSeq(Append(InBuffer, log), m + 1, Len(Append(InBuffer, log)))
  BY <1>1, <1>2, <1>7, SeenIs DEF GoesBehind
<1>9. <<log, handle>> \in SameDayAs /\ handle \in DOMAIN Disk
  BY <1>1, FilesHeld DEF SameDayAs
<1>10. UNCHANGED <<handle, Mishaps>>
  BY <1>1 DEF Mishaps
<1>11. QED
  BY <1>1, <1>8, <1>9, <1>10 DEF Writes

(* The end of the buffer is lost.                                          *)
LEMMA CutLoses ==
  ASSUME FileInv, FileInv', handle \in DOMAIN files, NEW n \in synced..Len(files[handle]),
         files' = [files EXCEPT ![handle] = SubSeq(@, 1, n)], handle' = NULL
  PROVE  /\ \E m \in 0..Len(InBuffer) : Disk' = Behind(Disk, handle, InBuffer, m)
         /\ InBuffer' = <<>>
<1>1. /\ Filed(files, Times) /\ synced \in Nat
      /\ synced <= Len(files[handle]) /\ Len(files[handle]) \in Nat
  BY FilesHeld
<1>2. PICK l \in Nat : l = Len(files[handle])
  BY <1>1
<1>3. n \in Nat /\ synced <= n /\ n <= l
  BY <1>1, <1>2
<1>4. PICK m \in Nat : n = synced + m
  <2>1. n - synced \in Nat /\ n = synced + (n - synced)
    BY <1>1, <1>3
  <2>2. QED
    BY <2>1, Zenon
<1>5. PICK j \in Nat : l = synced + j
  <2>1. l - synced \in Nat /\ l = synced + (l - synced)
    BY <1>1, <1>2
  <2>2. QED
    BY <2>1, Zenon
<1>6. Becomes(files, handle, files', SubSeq(files[handle], 1, n))
  BY DEF Becomes
<1>7. GetsToDisk(Times, files, handle, synced, files', m, j)
  BY <1>1, <1>2, <1>3, <1>4, <1>5, <1>6, CutBehind
<1>8. Len(InBuffer) = j /\ Behind(Disk, handle, InBuffer, m) = Everything(files')
  BY <1>7, SeenIs DEF GetsToDisk
<1>9. m \in 0..Len(InBuffer)
  BY <1>1, <1>3, <1>4, <1>5, <1>8
<1>10. handle' \notin DOMAIN files'
  BY TimesAreNumbers DEF FileInv, TypeOK
<1>11. Disk' = Everything(files') /\ InBuffer' = <<>>
  BY <1>10, NothingLeft
<1>12. QED
  BY <1>8, <1>9, <1>11

(* A step that closes the file, and leaves the files as they are.          *)
LEMMA CloseStores ==
  ASSUME FileInv, FileInv', handle' = NULL, UNCHANGED files
  PROVE  Disk' = Flushed /\ InBuffer' = <<>>
<1>1. handle' \notin DOMAIN files'
  BY TimesAreNumbers DEF FileInv, TypeOK
<1>2. Disk' = Everything(files') /\ InBuffer' = <<>>
  BY <1>1, NothingLeft
<1>3. Flushed = Everything(files)
  BY FilesHeld
<1>4. QED
  BY <1>2, <1>3

(* Every step of FileRoll is one of the store, or none.                    *)
LEMMA NextStores ==
  ASSUME ReserveCoversMinute, FileInv, FileInv', OpenIsThere, Unhurt, [Next]_vars
  PROVE  StoreStep
<1>1. /\ changes \in Nat /\ faults \in Nat /\ Len(InBuffer) \in Nat
      /\ Flushed = Behind(Disk, handle, InBuffer, Len(InBuffer))
  BY FilesHeld DEF Flushed
<1>2. changes' = changes + 1 /\ faults' = faults => Mishaps' = Mishaps + 1
  BY <1>1 DEF Mishaps
<1>3. faults' = faults + 1 /\ changes' = changes => Mishaps' = Mishaps + 1
  BY <1>1 DEF Mishaps
<1>4. Mishaps \in Nat
  BY <1>1 DEF Mishaps
<1>5. ASSUME UNCHANGED <<files, handle, synced, log, changes, faults>>
      PROVE  StoreStep
  BY <1>5, NothingSeen DEF StoreStep, Stutters, Mishaps
<1>6. CASE Tick \/ OpenKept \/ Rest \/ UNCHANGED vars
  <2>1. UNCHANGED <<files, handle, synced, log, changes, faults>>
    BY <1>6 DEF Tick, OpenKept, Rest, vars, entry, disk, counts
  <2>2. QED
    BY <1>5, <2>1
<1>7. CASE Set
  <2>1. UNCHANGED <<Disk, InBuffer, handle, log>> /\ Mishaps' = Mishaps + 1
    BY <1>2, <1>7, NothingSeen DEF Set, entry, disk
  <2>2. QED
    BY <2>1 DEF StoreStep, Harms
<1>8. CASE Take
  <2>1. log = NULL /\ UNCHANGED <<files, handle, synced, changes, faults>>
    BY <1>8 DEF Take, entry, disk, FileInv, TypeOK
  <2>2. log' \in Times \/ log' = log
    BY <1>8 DEF Take, FileInv, TypeOK
  <2>3. CASE log' \in Times
    BY <2>1, <2>3, NothingSeen DEF StoreStep, Accepts, Mishaps
  <2>4. CASE log' = log
    BY <1>5, <2>1, <2>4
  <2>5. QED
    BY <2>2, <2>3, <2>4
<1>9. ASSUME Mishaps # 0, log' = NULL, UNCHANGED <<files, handle, synced, changes, faults>>
      PROVE  StoreStep
  <2>1. Mishaps > 0
    BY <1>4, <1>9
  <2>2. QED
    BY <1>9, <2>1, NothingSeen DEF StoreStep, Drops, Mishaps
<1>10. CASE OpenRefused
  <2>1. Mishaps # 0
    BY <1>10 DEF OpenRefused, Unhurt, Mishaps
  <2>2. log' = NULL /\ UNCHANGED <<files, handle, synced, changes, faults>>
    BY <1>10 DEF OpenRefused, Dropped, entry, disk, counts
  <2>3. QED
    BY <1>9, <2>1, <2>2
<1>11. CASE WriteNowhere
  <2>1. Mishaps # 0
    BY <1>11 DEF WriteNowhere, Unhurt, OpenIsThere, Mishaps
  <2>2. log' = NULL /\ UNCHANGED <<files, handle, synced, changes, faults>>
    BY <1>11 DEF WriteNowhere, Counted, Dropped
  <2>3. QED
    BY <1>9, <2>1, <2>2
<1>12. CASE OpenFile
  BY <1>12, OpenStores DEF StoreStep
<1>13. CASE Write
  BY <1>13, WriteStores DEF StoreStep
<1>14. CASE OpenFails
  <2>1. handle' = NULL /\ UNCHANGED files /\ log' = NULL /\ Mishaps' = Mishaps + 1
    BY <1>3, <1>14 DEF OpenFails, Dropped
  <2>2. Disk' = Flushed /\ InBuffer' = <<>>
    BY <2>1, CloseStores
  <2>3. Len(InBuffer) \in 0..Len(InBuffer)
    BY <1>1
  <2>4. QED
    BY <1>1, <2>1, <2>2, <2>3 DEF StoreStep, Harms
<1>15. CASE Update
  <2>1. handle' = NULL /\ UNCHANGED <<files, log>> /\ Mishaps' = Mishaps + 1
    BY <1>2, <1>15 DEF Update, NewEntry
  <2>2. Disk' = Flushed /\ InBuffer' = <<>>
    BY <2>1, CloseStores
  <2>3. Len(InBuffer) \in 0..Len(InBuffer)
    BY <1>1
  <2>4. QED
    BY <1>1, <2>1, <2>2, <2>3 DEF StoreStep, Harms
<1>16. CASE Reset
  <2>1. handle' = NULL /\ log' = log /\ Mishaps' = Mishaps + 1
    BY <1>2, <1>16 DEF Reset, NewEntry
  <2>2. (\E n \in 0..Len(InBuffer) : Disk' = Behind(Disk, handle, InBuffer, n))
        /\ InBuffer' = <<>>
    <3>1. CASE UNCHANGED files
      <4>1. Len(InBuffer) \in 0..Len(InBuffer)
        BY <1>1
      <4>2. QED
        BY <1>1, <2>1, <3>1, <4>1, CloseStores
    <3>2. CASE /\ handle \in DOMAIN files
               /\ files' = [files EXCEPT ![handle] = SubSeq(@, 1, synced)]
      <4>1. synced \in synced..Len(files[handle])
        BY <3>2, FilesHeld
      <4>2. QED
        BY <2>1, <3>2, <4>1, CutLoses
    <3>3. QED
      BY <1>16, <3>1, <3>2 DEF Reset
  <2>3. QED
    BY <2>1, <2>2 DEF StoreStep, Harms
<1>17. CASE WriteShort
  <2>1. handle' = NULL /\ log' = NULL /\ Mishaps' = Mishaps + 1 /\ handle \in DOMAIN files
    BY <1>3, <1>17 DEF WriteShort, Counted, Dropped
  <2>2. PICK n \in synced..Len(files[handle]) :
          files' = [files EXCEPT ![handle] = SubSeq(@, 1, n)]
    BY <1>17 DEF WriteShort
  <2>3. (\E m \in 0..Len(InBuffer) : Disk' = Behind(Disk, handle, InBuffer, m))
        /\ InBuffer' = <<>>
    BY <2>1, <2>2, CutLoses
  <2>4. QED
    BY <2>1, <2>3 DEF StoreStep, Harms
<1>18. CASE Sweep
  <2>1. UNCHANGED <<files, handle, log, changes, faults>>
    BY <1>18 DEF Sweep, entry, counts
  <2>2. CASE synced' = synced
    BY <1>5, <2>1, <2>2
  <2>3. CASE Synced
    <3>1. handle' \in DOMAIN files' => synced' = Len(files'[handle'])
      BY <2>1, <2>3 DEF Synced
    <3>2. Disk' = Everything(files) /\ InBuffer' = <<>>
      BY <2>1, <3>1, NothingLeft
    <3>3. Flushed = Everything(files)
      BY FilesHeld
    <3>4. QED
      BY <2>1, <3>2, <3>3 DEF StoreStep, Flushes, Mishaps
  <2>4. QED
    BY <1>18, <2>2, <2>3 DEF Sweep
<1>19. CASE SweepClose
  <2>1. UNCHANGED <<files, log, changes, faults>>
    BY <1>19 DEF SweepClose, counts
  <2>2. CASE UNCHANGED <<handle, synced>>
    BY <1>5, <2>1, <2>2
  <2>3. CASE handle' = NULL
    BY <2>1, <2>3, CloseStores DEF StoreStep, Closes, Mishaps
  <2>4. QED
    BY <1>19, <2>2, <2>3 DEF SweepClose
<1>20. QED
  BY <1>6, <1>7, <1>8, <1>10, <1>11, <1>12, <1>13, <1>14, <1>15, <1>16, <1>17, <1>18, <1>19
     DEF Next, Worker

(* No file, no record.                                                     *)
LEMMA InitStores == Init => Store!Init
<1> SUFFICES ASSUME Init PROVE Store!Init
  OBVIOUS
<1>1. DOMAIN files = {} /\ handle = NULL
  BY DEF Init
<1>2. [p \in DOMAIN files |-> SubSeq(files[p], 1, OnDisk(p))] = [f \in {} |-> <<>>]
  BY <1>1
<1>3. InBuffer = <<>>
  BY <1>1 DEF InBuffer
<1>4. QED
  BY <1>2, <1>3 DEF Init, Store!Init

(* The entry's bookkeeping, stdio's buffer, the sweeps and the reloads     *)
(* implement a store that gets every record to disk, once and in order, in *)
(* a file of its day, unless something fails or a setting changes.         *)
THEOREM FilesImplementStore ==
  ASSUME ReserveCoversMinute
  PROVE  Spec => ImplementsStore
<1>1. FileInv /\ FileInv' /\ OpenIsThere /\ Unhurt /\ [Next]_vars => [Store!Next]_(Store!vars)
  BY NextStores, StoreStepIs
<1>2. Spec => []Unhurt
  <2>1. Spec => []FileInv
    BY FileInvariant
  <2>2. QED
    BY <2>1, UnhurtInit, UnhurtStep, PTL DEF Spec
<1>3. Spec => []OpenIsThere
  BY OpenIsThereInvariant
<1>4. QED
  BY <1>1, <1>2, <1>3, InitStores, FileInvariant, PTL DEF Spec, ImplementsStore, Store!Spec
===========================================================================
