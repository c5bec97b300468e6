---------------------------- MODULE ConfigText ----------------------------
(***************************************************************************)
(* parse(content, values): what the text of a configuration makes of the   *)
(* entries of the keys.  A text is a sequence of lines, a line a sequence  *)
(* of tokens: the characters parse() looks for, blanks, the byte order     *)
(* mark, and words.  A key, a field and a value are sequences of tokens.   *)
(*                                                                         *)
(* The end of a line may be CR, LF or both; the empty line that CR LF      *)
(* gives changes only the line number of the warnings.                     *)
(***************************************************************************)
EXTENDS Integers, Sequences, FiniteSetsExt

CONSTANTS
  Lines,        (* lines a text may have                                   *)
  LowerCase,    (* each token in lower case                                *)
  Numbers,      (* the number each numeric token begins with               *)
  DefaultPath,  (* LOG4X_DEFAULT_PATH                                      *)
  MaxLines      (* bound: lines of a text                                  *)

Tokens == DOMAIN LowerCase
BOM == "BOM"
Blanks == {" "}
Booleans == {"enable", "display", "outfile", "monthdir", "fileline"}

ASSUME TextAssumption ==
  /\ {"[", "]", "=", "#", BOM} \cup Blanks \subseteq Tokens
  /\ LowerCase \in [Tokens -> Tokens]
  /\ \A t \in Tokens : LowerCase[LowerCase[t]] = LowerCase[t]
  /\ Lines \subseteq Seq(Tokens)
  /\ DOMAIN Numbers \subseteq Tokens /\ \A t \in DOMAIN Numbers : Numbers[t] \in Int
  /\ DefaultPath \in Seq(Tokens)
  /\ MaxLines \in Nat

VARIABLES
  text,         (* the lines                                               *)
  line,         (* the number of lines parsed                              *)
  key,          (* the key of the section, <<>> before the first           *)
  values,       (* the entries, by key                                     *)
  result        (* "parsing", "parsed", or "refused": the text is empty    *)

vars == <<text, line, key, values, result>>

---------------------------------------------------------------------------
(* split, trim, tolower                                                    *)

Lower(s) == [i \in DOMAIN s |-> LowerCase[s[i]]]

\* At the first "=" only; a line without one is all name.
Split(s) ==
  LET at == {i \in DOMAIN s : s[i] = "="} IN
  IF at = {} THEN [first |-> s, second |-> <<>>]
  ELSE [first |-> SubSeq(s, 1, Min(at) - 1), second |-> SubSeq(s, Min(at) + 1, Len(s))]

\* A byte order mark in front goes first, then what is ignored at both ends.
Trim(s, ignored) ==
  LET kept == {i \in DOMAIN s : s[i] \notin ignored /\ ~(i = 1 /\ s[i] = BOM)} IN
  IF kept = {} THEN <<>> ELSE SubSeq(s, Min(kept), Max(kept))

Name(l) == Trim(Split(l).first, Blanks)
IsSection(l) == Name(l) # <<>> /\ Name(l)[1] = "["
IsSetting(l) == Name(l) # <<>> /\ Name(l)[1] \notin {"[", "#"}
KeyOf(l) == Lower(Trim(Name(l), {"[", "]"}))

\* Both sides of a setting are trimmed a second time.
Field(l) == Lower(Trim(Name(l), Blanks))
Value(l) == Trim(Trim(Split(l).second, Blanks), Blanks)

---------------------------------------------------------------------------
(* Entries                                                                 *)

LevelNames ==
  {<<"trace">>, <<"all">>, <<"debug">>, <<"info">>, <<"warn">>, <<"warning">>,
   <<"error">>, <<"fatal">>}
Level(v) ==
  CASE v \in {<<"trace">>, <<"all">>}     -> 0
    [] v = <<"debug">>                    -> 1
    [] v = <<"info">>                     -> 2
    [] v \in {<<"warn">>, <<"warning">>}  -> 3
    [] v = <<"error">>                    -> 4
    [] v = <<"fatal">>                    -> 5

\* Anything but "false" and "0" is true.
Truth(v) == v \notin {<<"false">>, <<"0">>}

\* atoi and atol: the number the value begins with, or zero.
Number(v) == IF v # <<>> /\ v[1] \in DOMAIN Numbers THEN Numbers[v[1]] ELSE 0

Entries ==
  [enable : BOOLEAN, display : BOOLEAN, outfile : BOOLEAN, monthdir : BOOLEAN,
   fileline : BOOLEAN, fromfile : BOOLEAN, level : 0..5, path : Seq(Tokens),
   limitsize : Int, reserve : Int]

\* log4x_value_t() as parse() enters it for a section.
NewEntry ==
  [enable |-> TRUE, display |-> TRUE, outfile |-> TRUE, monthdir |-> TRUE,
   fileline |-> TRUE, fromfile |-> TRUE, level |-> 1, path |-> DefaultPath,
   limitsize |-> 100, reserve |-> 86400]

Known == DOMAIN values

Init ==
  /\ text \in UNION {[1..n -> Lines] : n \in 0..MaxLines}
  /\ line = 0
  /\ key = <<>>
  /\ values = [k \in {} |-> NewEntry]
  /\ result = "parsing"

---------------------------------------------------------------------------
(* parse(line, number, key, values)                                        *)

Current == text[line + 1]

NextLine ==
  /\ result = "parsing"
  /\ line < Len(text)
  /\ line' = line + 1
  /\ UNCHANGED <<text, result>>

\* An empty name, or a comment.
SkipLine ==
  /\ NextLine
  /\ ~IsSection(Current) /\ ~IsSetting(Current)
  /\ UNCHANGED <<key, values>>

\* Slip: a section that comes again begins anew.
SectionRestarts ==
  /\ NextLine
  /\ IsSection(Current)
  /\ key' = KeyOf(Current)
  /\ values' = [k \in Known \cup {key'} |-> IF k = key' THEN NewEntry ELSE values[k]]

\* Slip: the key is entered as it is written.
SectionAsWritten ==
  /\ NextLine
  /\ IsSection(Current)
  /\ key' = Trim(Name(Current), {"[", "]"})
  /\ values' = [k \in Known \cup {key'} |-> IF k \in Known THEN values[k] ELSE NewEntry]

\* A section that comes again, for which a warning is given, goes on.
Section ==
  /\ NextLine
  /\ IsSection(Current)
  /\ key' = KeyOf(Current)
  /\ values' = [k \in Known \cup {key'} |-> IF k \in Known THEN values[k] ELSE NewEntry]

\* A setting before any section is dropped with a warning.
Stray ==
  /\ NextLine
  /\ IsSetting(Current)
  /\ key \notin Known
  /\ UNCHANGED <<key, values>>

Setting(f) ==
  /\ NextLine
  /\ IsSetting(Current)
  /\ key \in Known
  /\ Field(Current) = <<f>>
  /\ UNCHANGED key

\* Only the path keeps its case.
SetPath ==
  /\ Setting("path")
  /\ values' = [values EXCEPT ![key].path = Value(Current)]

\* A level that is none of the names changes nothing.
SetLevel ==
  /\ Setting("level")
  /\ LET v == Lower(Value(Current)) IN
     values' = IF v \in LevelNames THEN [values EXCEPT ![key].level = Level(v)] ELSE values

SetBoolean ==
  \E f \in Booleans :
    /\ Setting(f)
    /\ values' = [values EXCEPT ![key][f] = Truth(Lower(Value(Current)))]

\* No bound is put on either number.
SetNumber ==
  \E f \in {"limitsize", "reserve"} :
    /\ Setting(f)
    /\ values' = [values EXCEPT ![key][f] = Number(Lower(Value(Current)))]

\* "name", and fields there are none of, are accepted and ignored.
SetNothing ==
  /\ NextLine
  /\ IsSetting(Current)
  /\ key \in Known
  /\ Field(Current) \notin {<<f>> : f \in Booleans \cup {"path", "level", "limitsize", "reserve"}}
  /\ UNCHANGED <<key, values>>

\* parse(content, values) returns: -1 for an empty text, 0 for any other.
Return ==
  /\ result = "parsing"
  /\ line = Len(text)
  /\ result' = IF text = <<>> THEN "refused" ELSE "parsed"
  /\ UNCHANGED <<text, line, key, values>>

Next ==
  \/ SkipLine \/ Section \/ Stray
  \/ SetPath \/ SetLevel \/ SetBoolean \/ SetNumber \/ SetNothing
  \/ Return

Spec == Init /\ [][Next]_vars
===========================================================================
