-------------------------- MODULE LogRecordProps --------------------------
(***************************************************************************)
(* What the text of a record looks like, however long its parts are.       *)
(***************************************************************************)
EXTENDS LogRecord

\* Every variable of LogRecord has its type; in particular no length and no
\* write of make(), Stream, vsnprintf() or push() goes beyond the buffer,
\* and the step back at the end of a container not before the header.
TypeOK ==
  /\ out.buf \in [Offsets -> Symbols]
  /\ out.cur \in 0..Size
  /\ out.cut \in BOOLEAN
  /\ len \in 0..Size
  /\ out.cur >= len
  /\ open \in Seq(0..(Depth + 1))
  /\ sep \in BOOLEAN
  /\ writes \in 0..MaxWrites
  /\ pc \in {"make", "format", "stream", "suffix", "end", "done"}

\* A finished record is text up to a CR LF at its end, and a NUL follows it
\* within the buffer: no NUL of vsnprintf() or gcvt() and nothing of an
\* earlier record is left in it.
WellFormed ==
  pc = "done" =>
    /\ len >= 2 /\ len < Size
    /\ out.buf[len - 2] = "CR" /\ out.buf[len - 1] = "LF" /\ out.buf[len] = "NUL"
    /\ \A i \in 0..(len - 3) : out.buf[i] \in {"x", "d", "D", "c"}

\* An integer that a Stream wrote, or a double that gcvt() formatted, is in
\* the finished record with all its digits or not at all: neither the step
\* back of a container, over separators that may have been cut, nor the end
\* of the line takes a digit of it, which would make it another number.  (Not
\* so the numbers of a format, which vsnprintf() cuts where the buffer ends,
\* and doubles of middle size, which writeDouble() writes in two parts.)
IntegersWhole ==
  pc = "done" =>
    \A i \in 0..(len - 3) : out.buf[i] = "d" => out.buf[i + 1] \in {"d", "D"}

\* Something is left out of a record only when it is full but for the room
\* that a number is given.
CutIsFull == pc = "done" /\ out.cut => len >= Size - Cache

\* As long as nothing had to be left out, nothing written is taken back or
\* overwritten but separators: writers and the step back of a container do
\* not touch what others wrote.
TextIsKept ==
  [][~out'.cut =>
       \A i \in 0..(out.cur - 1) :
         out.buf[i] # "c" => i < out'.cur /\ out'.buf[i] = out.buf[i]]_vars
===========================================================================
