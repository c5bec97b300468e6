-------------------------- MODULE ConfigTextProps --------------------------
(***************************************************************************)
(* What a text means, said of the whole text and not line by line.         *)
(***************************************************************************)
EXTENDS ConfigText

\* Every variable of ConfigText has its type; the keys are in lower case, as
\* those that the application passes must be.
TypeOK ==
  /\ text \in Seq(Lines)
  /\ line \in 0..Len(text)
  /\ key \in Seq(Tokens)
  /\ \A k \in Known : k \in Seq(Tokens) /\ Lower(k) = k /\ values[k] \in Entries
  /\ result \in {"parsing", "parsed", "refused"}

\* The section a line belongs to begins at the last section line before it.
SectionLines(i) == {j \in 1..i : IsSection(text[j])}
BelongsTo(i, k) ==
  IsSetting(text[i]) /\ SectionLines(i) # {} /\ KeyOf(text[Max(SectionLines(i))]) = k

\* Whether line i sets field f, and what to.
Sets(i, f) ==
  Field(text[i]) = <<f>> /\ (f = "level" => Lower(Value(text[i])) \in LevelNames)
Meaning(i, f) ==
  LET v == Value(text[i]) IN
  CASE f = "path"                      -> v
    [] f = "level"                     -> Level(Lower(v))
    [] f \in Booleans                  -> Truth(Lower(v))
    [] f \in {"limitsize", "reserve"}  -> Number(Lower(v))

\* The entries are those of the sections.  Each field of an entry is what the
\* last line says that sets it, in any of the sections with that key, or its
\* default in the code: sections may come again, in any case, and settings in
\* any order.  A level is one of the names parse() knows; a line with another
\* one counts for nothing.
LastLineWins ==
  /\ Known = {KeyOf(text[i]) : i \in SectionLines(line)}
  /\ \A k \in Known, f \in DOMAIN NewEntry \ {"fromfile"} :
       LET lines == {i \in 1..line : BelongsTo(i, k) /\ Sets(i, f)} IN
       values[k][f] = IF lines = {} THEN NewEntry[f] ELSE Meaning(Max(lines), f)

\* The same of what the comments of test/log.ini say: the levels it lists set
\* the level of the key, in the order it lists them.
ListedLevels == << <<"all">>, <<"debug">>, <<"info">>, <<"warn">>, <<"alarm">>, <<"fatal">> >>
ListedLevelsCount ==
  \A k \in Known :
    LET lines == {i \in 1..line : BelongsTo(i, k) /\ Field(text[i]) = <<"level">>} IN
    lines # {} =>
      \A n \in DOMAIN ListedLevels :
        Lower(Value(text[Max(lines)])) = ListedLevels[n] => values[k].level = n - 1

\* And the month directory is off where no line asks for it.
MonthdirDefaultsToFalse ==
  \A k \in Known :
    (\A i \in 1..line : ~(BelongsTo(i, k) /\ Sets(i, "monthdir"))) => ~values[k].monthdir

\* What the comments of test/log.ini say of the two.
CommentsHold == ListedLevelsCount /\ MonthdirDefaultsToFalse
===========================================================================
