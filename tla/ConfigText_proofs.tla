------------------------- MODULE ConfigText_proofs -------------------------
(***************************************************************************)
(* LastLineWins for texts of any lines.  The invariant adds what parse()   *)
(* relies on from line to line: the key it keeps is that of the last       *)
(* section, and no setting read so far belongs to a key that is not        *)
(* entered, so that a new entry may begin with the defaults.               *)
(***************************************************************************)
EXTENDS ConfigTextProps, SequenceTheorems, FiniteSetTheorems,
        WellFoundedInduction, TLAPS

Fields == DOMAIN NewEntry

\* SectionLines, BelongsTo, Sets and Meaning, of a given text t.
SectionsOf(t, i) == {j \in 1..i : IsSection(t[j])}
Owner(t, i) == KeyOf(t[Max(SectionsOf(t, i))])
Belongs(t, i, k) == IsSetting(t[i]) /\ SectionsOf(t, i) # {} /\ Owner(t, i) = k
SetsIn(t, i, f) ==
  Field(t[i]) = <<f>> /\ (f = "level" => Lower(Value(t[i])) \in LevelNames)
MeaningIn(t, i, f) ==
  CASE f = "path"                      -> Value(t[i])
    [] f = "level"                     -> Level(Lower(Value(t[i])))
    [] f \in Booleans                  -> Truth(Lower(Value(t[i])))
    [] f \in {"limitsize", "reserve"}  -> Number(Lower(Value(t[i])))

LinesFor(t, n, k, f) == {i \in 1..n : Belongs(t, i, k) /\ SetsIn(t, i, f)}

\* What the first n lines of t say of field f of key k.
Says(t, n, k, f) ==
  IF LinesFor(t, n, k, f) = {} THEN NewEntry[f]
  ELSE MeaningIn(t, Max(LinesFor(t, n, k, f)), f)

KeyIsLast ==
  SectionsOf(text, line) # {} => key = Owner(text, line) /\ key \in Known

SettingsAreEntered ==
  \A i \in 1..line :
    IsSetting(text[i]) /\ SectionsOf(text, i) # {} => Owner(text, i) \in Known

EntriesAreWhole ==
  /\ values = [k \in Known |-> values[k]]
  /\ \A k \in Known : values[k] = [f \in Fields |-> values[k][f]]

KnownAreSections == Known = {KeyOf(text[i]) : i \in SectionsOf(text, line)}

FieldsAreLast ==
  \A k \in Known, f \in Fields \ {"fromfile"} : values[k][f] = Says(text, line, k, f)

TextInv ==
  /\ line \in Nat
  /\ KeyIsLast /\ SettingsAreEntered
  /\ EntriesAreWhole
  /\ KnownAreSections /\ FieldsAreLast

---------------------------------------------------------------------------
(* Lines                                                                   *)

(* The largest of a set of lines that has the newest is the newest.        *)
LEMMA NewestIsMax ==
  ASSUME NEW n \in Nat, NEW S \in SUBSET (1..n), n \in S
  PROVE  Max(S) = n
<1>1. \A x \in S : n >= x
  OBVIOUS
<1>2. \A x \in S : (\A y \in S : x >= y) => x = n
  OBVIOUS
<1>3. QED
  BY <1>1, <1>2 DEF Max

(* What the next line does to the set of section lines.                    *)
LEMMA NextSections ==
  ASSUME NEW t, NEW n \in Nat
  PROVE  SectionsOf(t, n + 1) =
           IF IsSection(t[n + 1]) THEN SectionsOf(t, n) \cup {n + 1}
           ELSE SectionsOf(t, n)
<1>1. 1..(n + 1) = (1..n) \cup {n + 1}
  OBVIOUS
<1>2. QED
  BY <1>1 DEF SectionsOf

(* A line that is not a section has the owner of the line before it; a     *)
(* section is its own.                                                     *)
LEMMA NextOwner ==
  ASSUME NEW t, NEW n \in Nat
  PROVE  Owner(t, n + 1) = IF IsSection(t[n + 1]) THEN KeyOf(t[n + 1]) ELSE Owner(t, n)
<1>1. CASE IsSection(t[n + 1])
  <2>1. SectionsOf(t, n + 1) \subseteq 1..(n + 1) /\ n + 1 \in SectionsOf(t, n + 1)
    BY <1>1 DEF SectionsOf
  <2>2. Max(SectionsOf(t, n + 1)) = n + 1
    BY <2>1, NewestIsMax
  <2>3. QED
    BY <1>1, <2>2 DEF Owner
<1>2. CASE ~IsSection(t[n + 1])
  BY <1>2, NextSections DEF Owner
<1>3. QED
  BY <1>1, <1>2

(* What the next line says of a field, and what it leaves.                 *)
LEMMA NextSays ==
  ASSUME NEW t, NEW n \in Nat, NEW k, NEW f
  PROVE  Says(t, n + 1, k, f) =
           IF Belongs(t, n + 1, k) /\ SetsIn(t, n + 1, f) THEN MeaningIn(t, n + 1, f)
           ELSE Says(t, n, k, f)
<1>1. 1..(n + 1) = (1..n) \cup {n + 1}
  OBVIOUS
<1>2. CASE Belongs(t, n + 1, k) /\ SetsIn(t, n + 1, f)
  <2>1. /\ LinesFor(t, n + 1, k, f) \subseteq 1..(n + 1)
        /\ n + 1 \in LinesFor(t, n + 1, k, f)
    BY <1>2 DEF LinesFor
  <2>2. Max(LinesFor(t, n + 1, k, f)) = n + 1
    BY <2>1, NewestIsMax
  <2>3. QED
    BY <1>2, <2>1, <2>2 DEF Says
<1>3. CASE ~(Belongs(t, n + 1, k) /\ SetsIn(t, n + 1, f))
  <2>1. LinesFor(t, n + 1, k, f) = LinesFor(t, n, k, f)
    BY <1>1, <1>3 DEF LinesFor
  <2>2. QED
    BY <1>3, <2>1 DEF Says
<1>4. QED
  BY <1>2, <1>3

---------------------------------------------------------------------------
(* Steps                                                                   *)

(* A line that is no section keeps the invariant when it sets just the     *)
(* fields it says, in just the entry it belongs to.                        *)
LEMMA NotASection ==
  ASSUME TextInv, NextLine, ~IsSection(Current),
         key' = key, Known' = Known, EntriesAreWhole',
         \A k \in Known, f \in Fields \ {"fromfile"} :
           values'[k][f] = IF Belongs(text, line + 1, k) /\ SetsIn(text, line + 1, f)
                           THEN MeaningIn(text, line + 1, f) ELSE values[k][f]
  PROVE  TextInv'
<1>1. /\ line \in Nat
      /\ line' = line + 1 /\ line' \in Nat /\ text' = text
      /\ 1..(line + 1) = (1..line) \cup {line + 1}
      /\ ~IsSection(text[line + 1])
  BY DEF TextInv, NextLine, Current
<1>2. /\ SectionsOf(text, line + 1) = SectionsOf(text, line)
      /\ Owner(text, line + 1) = Owner(text, line)
  BY <1>1, NextSections, NextOwner
<1>3. KeyIsLast'
  BY <1>1, <1>2 DEF TextInv, KeyIsLast
<1>4. SettingsAreEntered'
  BY <1>1, <1>2 DEF TextInv, SettingsAreEntered, KeyIsLast
<1>5. KnownAreSections'
  BY <1>1, <1>2 DEF TextInv, KnownAreSections
<1>6. FieldsAreLast'
  BY <1>1, NextSays DEF TextInv, FieldsAreLast
<1>7. QED
  BY <1>1, <1>3, <1>4, <1>5, <1>6 DEF TextInv

(* A line that sets nothing, and changes nothing.                          *)
LEMMA NothingSet ==
  ASSUME TextInv, NextLine, ~IsSection(Current),
         UNCHANGED <<key, values>>,
         \A k \in Known, f \in Fields \ {"fromfile"} :
           ~ (Belongs(text, line + 1, k) /\ SetsIn(text, line + 1, f))
  PROVE  TextInv'
<1>1. Known' = Known
  BY DEF Known
<1>2. EntriesAreWhole'
  BY <1>1 DEF TextInv, EntriesAreWhole
<1>3. QED
  BY <1>1, <1>2, NotASection

(* A setting is in the section whose key parse() keeps.                    *)
LEMMA SettingBelongs ==
  ASSUME TextInv, NextLine, IsSetting(Current), key \in Known, NEW k
  PROVE  Belongs(text, line + 1, k) <=> k = key
<1>1. /\ line \in Nat
      /\ IsSetting(text[line + 1]) /\ ~IsSection(text[line + 1])
  BY DEF TextInv, Current, IsSetting, IsSection
<1>2. SectionsOf(text, line) # {} /\ key = Owner(text, line)
  BY DEF TextInv, KnownAreSections, KeyIsLast
<1>3. QED
  BY <1>1, <1>2, NextSections, NextOwner DEF Belongs

(* A line that sets one field.                                             *)
LEMMA OneSet ==
  ASSUME TextInv, NextLine, IsSetting(Current), key \in Known, key' = key,
         NEW g \in Fields, SetsIn(text, line + 1, g),
         values' = [values EXCEPT ![key][g] = MeaningIn(text, line + 1, g)]
  PROVE  TextInv'
<1>1. ~IsSection(Current)
  BY DEF IsSetting, IsSection
<1>2. /\ values = [k \in Known |-> values[k]]
      /\ \A k \in Known : values[k] = [f \in Fields |-> values[k][f]]
  BY DEF TextInv, EntriesAreWhole
<1>3. Known' = Known
  BY <1>2 DEF Known
<1>4. \A k \in Known, f \in Fields :
        values'[k][f] = IF k = key /\ f = g THEN MeaningIn(text, line + 1, g)
                        ELSE values[k][f]
  BY <1>2
<1>5. \A k \in Known : values'[k] = [f \in Fields |-> values'[k][f]]
  <2>1. TAKE k \in Known
  <2>2. CASE k = key
    <3>1. values'[key] = [values[key] EXCEPT ![g] = MeaningIn(text, line + 1, g)]
      BY <1>2
    <3>2. values[key] = [f \in Fields |-> values[key][f]]
      BY <1>2
    <3>3. QED
      BY <2>2, <3>1, <3>2
  <2>3. CASE k # key
    BY <1>2, <2>3
  <2>4. QED
    BY <2>2, <2>3
<1>6. EntriesAreWhole'
  <2>1. values' = [k \in Known |-> values'[k]]
    BY <1>2
  <2>2. QED
    BY <1>3, <1>5, <2>1 DEF EntriesAreWhole
<1>7. \A f : SetsIn(text, line + 1, f) => f = g
  BY DEF SetsIn
<1>8. ASSUME NEW k \in Known, NEW f \in Fields \ {"fromfile"}
      PROVE  values'[k][f] = IF Belongs(text, line + 1, k) /\ SetsIn(text, line + 1, f)
                             THEN MeaningIn(text, line + 1, f) ELSE values[k][f]
  <2>1. Belongs(text, line + 1, k) <=> k = key
    BY SettingBelongs
  <2>2. QED
    BY <1>4, <1>7, <1>8, <2>1
<1>9. QED
  BY <1>1, <1>3, <1>6, <1>8, NotASection

(* The fields of an entry, by name.                                        *)
LEMMA FieldNames ==
  Fields = Booleans \cup {"fromfile", "level", "path", "limitsize", "reserve"}
BY DEF Fields, NewEntry, Booleans

LEMMA SkipLineKeeps == TextInv /\ SkipLine => TextInv'
<1> SUFFICES ASSUME TextInv, SkipLine PROVE TextInv'
  OBVIOUS
<1>1. /\ NextLine /\ ~IsSection(Current) /\ ~IsSetting(text[line + 1])
      /\ UNCHANGED <<key, values>>
  BY DEF SkipLine, Current
<1>2. \A k : ~Belongs(text, line + 1, k)
  BY <1>1 DEF Belongs
<1>3. QED
  BY <1>1, <1>2, NothingSet

(* A stray setting belongs to no key that is entered: were there a section *)
(* before it, the key parse() keeps would be entered.                      *)
LEMMA StrayKeeps == TextInv /\ Stray => TextInv'
<1> SUFFICES ASSUME TextInv, Stray PROVE TextInv'
  OBVIOUS
<1>1. /\ NextLine /\ IsSetting(text[line + 1]) /\ key \notin Known
      /\ ~IsSection(Current) /\ ~IsSection(text[line + 1])
      /\ UNCHANGED <<key, values>> /\ line \in Nat
  BY DEF Stray, Current, IsSection, IsSetting, TextInv
<1>2. SectionsOf(text, line + 1) = {}
  BY <1>1, NextSections DEF TextInv, KeyIsLast
<1>3. \A k : ~Belongs(text, line + 1, k)
  BY <1>2 DEF Belongs
<1>4. QED
  BY <1>1, <1>3, NothingSet

LEMMA SetPathKeeps == TextInv /\ SetPath => TextInv'
<1> SUFFICES ASSUME TextInv, SetPath PROVE TextInv'
  OBVIOUS
<1>1. /\ NextLine /\ IsSetting(Current) /\ key \in Known /\ key' = key
      /\ SetsIn(text, line + 1, "path")
      /\ values' = [values EXCEPT ![key].path = Value(text[line + 1])]
  BY DEF SetPath, Setting, SetsIn, Current
<1>2. MeaningIn(text, line + 1, "path") = Value(text[line + 1])
  BY DEF MeaningIn, Booleans
<1>3. QED
  BY <1>1, <1>2, OneSet, FieldNames

LEMMA SetLevelKeeps == TextInv /\ SetLevel => TextInv'
<1> SUFFICES ASSUME TextInv, SetLevel PROVE TextInv'
  OBVIOUS
<1> DEFINE v == Lower(Value(text[line + 1]))
<1>1. /\ NextLine /\ IsSetting(Current) /\ key \in Known /\ key' = key
      /\ Field(text[line + 1]) = <<"level">>
      /\ values' = IF v \in LevelNames THEN [values EXCEPT ![key].level = Level(v)]
                   ELSE values
  BY DEF SetLevel, Setting, Current
<1>2. CASE v \in LevelNames
  <2>1. SetsIn(text, line + 1, "level")
    BY <1>1, <1>2 DEF SetsIn
  <2>2. MeaningIn(text, line + 1, "level") = Level(v)
    BY DEF MeaningIn, Booleans
  <2>3. QED
    BY <1>1, <1>2, <2>1, <2>2, OneSet, FieldNames
<1>3. CASE v \notin LevelNames
  <2>1. \A f : ~SetsIn(text, line + 1, f)
    BY <1>1, <1>3 DEF SetsIn
  <2>2. ~IsSection(Current) /\ UNCHANGED <<key, values>>
    BY <1>1, <1>3 DEF IsSetting, IsSection
  <2>3. QED
    BY <1>1, <2>1, <2>2, NothingSet
<1>4. QED
  BY <1>2, <1>3

LEMMA SetBooleanKeeps == TextInv /\ SetBoolean => TextInv'
<1> SUFFICES ASSUME TextInv, NEW f \in Booleans, Setting(f),
                    values' = [values EXCEPT ![key][f] = Truth(Lower(Value(Current)))]
             PROVE  TextInv'
  BY DEF SetBoolean
<1>1. /\ NextLine /\ IsSetting(Current) /\ key \in Known /\ key' = key
      /\ Field(text[line + 1]) = <<f>>
  BY DEF Setting, Current
<1>2. SetsIn(text, line + 1, f)
  BY <1>1 DEF SetsIn, Booleans
<1>3. MeaningIn(text, line + 1, f) = Truth(Lower(Value(Current)))
  BY DEF MeaningIn, Booleans, Current
<1>4. QED
  BY <1>1, <1>2, <1>3, OneSet, FieldNames

LEMMA SetNumberKeeps == TextInv /\ SetNumber => TextInv'
<1> SUFFICES ASSUME TextInv, NEW f \in {"limitsize", "reserve"}, Setting(f),
                    values' = [values EXCEPT ![key][f] = Number(Lower(Value(Current)))]
             PROVE  TextInv'
  BY DEF SetNumber
<1>1. /\ NextLine /\ IsSetting(Current) /\ key \in Known /\ key' = key
      /\ Field(text[line + 1]) = <<f>>
  BY DEF Setting, Current
<1>2. SetsIn(text, line + 1, f)
  BY <1>1 DEF SetsIn
<1>3. MeaningIn(text, line + 1, f) = Number(Lower(Value(Current)))
  BY DEF MeaningIn, Booleans, Current
<1>4. QED
  BY <1>1, <1>2, <1>3, OneSet, FieldNames

LEMMA SetNothingKeeps == TextInv /\ SetNothing => TextInv'
<1> SUFFICES ASSUME TextInv, SetNothing PROVE TextInv'
  OBVIOUS
<1>1. /\ NextLine /\ ~IsSection(Current) /\ UNCHANGED <<key, values>>
      /\ \A f \in Booleans \cup {"path", "level", "limitsize", "reserve"} :
           Field(text[line + 1]) # <<f>>
  BY DEF SetNothing, Current, IsSection, IsSetting
<1>2. \A f \in Fields \ {"fromfile"} : ~SetsIn(text, line + 1, f)
  BY <1>1, FieldNames DEF SetsIn
<1>3. QED
  BY <1>1, <1>2, NothingSet

(* A section keeps the entry it finds.  A new one has the defaults, which  *)
(* is right because no setting before it belongs to its key.               *)
LEMMA SectionKeeps == TextInv /\ Section => TextInv'
<1> SUFFICES ASSUME TextInv, Section PROVE TextInv'
  OBVIOUS
<1>1. /\ line \in Nat
      /\ line' = line + 1 /\ line' \in Nat /\ text' = text
      /\ 1..(line + 1) = (1..line) \cup {line + 1}
      /\ IsSection(text[line + 1]) /\ ~IsSetting(text[line + 1])
      /\ key' = KeyOf(text[line + 1])
      /\ values' = [k \in Known \cup {key'} |-> IF k \in Known THEN values[k] ELSE NewEntry]
  BY DEF TextInv, Section, NextLine, Current, IsSection, IsSetting
<1>2. /\ SectionsOf(text, line + 1) = SectionsOf(text, line) \cup {line + 1}
      /\ Owner(text, line + 1) = KeyOf(text[line + 1])
  BY <1>1, NextSections, NextOwner
<1>3. Known' = Known \cup {key'}
  BY <1>1 DEF Known
<1>4. KeyIsLast'
  BY <1>1, <1>2, <1>3 DEF KeyIsLast
<1>5. SettingsAreEntered'
  BY <1>1, <1>2, <1>3 DEF TextInv, SettingsAreEntered
<1>6. EntriesAreWhole'
  <2>1. \A k \in Known' : values'[k] = IF k \in Known THEN values[k] ELSE NewEntry
    BY <1>1, <1>3
  <2>2. NewEntry = [f \in Fields |-> NewEntry[f]]
    BY DEF Fields, NewEntry
  <2>3. \A k \in Known : values[k] = [f \in Fields |-> values[k][f]]
    BY DEF TextInv, EntriesAreWhole
  <2>4. \A k \in Known' : values'[k] = [f \in Fields |-> values'[k][f]]
    <3>1. TAKE k \in Known'
    <3>2. CASE k \in Known
      BY <2>1, <2>3, <3>2
    <3>3. CASE k \notin Known
      BY <2>1, <2>2, <3>3
    <3>4. QED
      BY <3>2, <3>3
  <2>5. values' = [k \in Known' |-> values'[k]]
    BY <1>1, <1>3
  <2>6. QED
    BY <2>4, <2>5 DEF EntriesAreWhole
<1>7. KnownAreSections'
  BY <1>1, <1>2, <1>3 DEF TextInv, KnownAreSections
<1>8. ASSUME NEW k \in Known', NEW f \in Fields \ {"fromfile"}
      PROVE  values'[k][f] = Says(text, line + 1, k, f)
  <2>1. ~Belongs(text, line + 1, k)
    BY <1>1 DEF Belongs
  <2>2. Says(text, line + 1, k, f) = Says(text, line, k, f)
    BY <1>1, <2>1, NextSays
  <2>3. CASE k \in Known
    <3>1. values[k][f] = Says(text, line, k, f)
      BY <1>8, <2>3 DEF TextInv, FieldsAreLast
    <3>2. values'[k] = values[k]
      BY <1>1, <2>3
    <3>3. QED
      BY <2>2, <3>1, <3>2
  <2>4. CASE k \notin Known
    <3>1. \A i \in 1..line : ~Belongs(text, i, k)
      BY <2>4 DEF TextInv, SettingsAreEntered, Belongs
    <3>2. Says(text, line, k, f) = NewEntry[f]
      BY <3>1 DEF Says, LinesFor
    <3>3. values'[k] = NewEntry
      BY <1>1, <1>3, <1>8, <2>4
    <3>4. QED
      BY <2>2, <3>2, <3>3
  <2>5. QED
    BY <2>3, <2>4
<1>9. FieldsAreLast'
  BY <1>1, <1>8 DEF FieldsAreLast
<1>10. QED
  BY <1>1, <1>4, <1>5, <1>6, <1>7, <1>9 DEF TextInv

---------------------------------------------------------------------------
(* The invariant, and what follows                                         *)

LEMMA InitText == Init => TextInv
<1> SUFFICES ASSUME Init PROVE TextInv
  OBVIOUS
<1>1. line = 0 /\ Known = {} /\ values = [k \in Known |-> values[k]] /\ 1..0 = {}
  BY DEF Init, Known
<1>2. SectionsOf(text, line) = {}
  BY <1>1 DEF SectionsOf
<1>3. QED
  BY <1>1, <1>2 DEF TextInv, KeyIsLast, SettingsAreEntered, EntriesAreWhole,
                    KnownAreSections, FieldsAreLast

LEMMA StutterText == TextInv /\ UNCHANGED <<text, line, key, values>> => TextInv'
BY ZenonT(30)
   DEF TextInv, KeyIsLast, SettingsAreEntered, EntriesAreWhole, KnownAreSections,
       FieldsAreLast, Known

LEMMA NextText == TextInv /\ [Next]_vars => TextInv'
<1> SUFFICES ASSUME TextInv, [Next]_vars PROVE TextInv'
  OBVIOUS
<1>1. CASE SkipLine  BY <1>1, SkipLineKeeps
<1>2. CASE Section  BY <1>2, SectionKeeps
<1>3. CASE Stray  BY <1>3, StrayKeeps
<1>4. CASE SetPath  BY <1>4, SetPathKeeps
<1>5. CASE SetLevel  BY <1>5, SetLevelKeeps
<1>6. CASE SetBoolean  BY <1>6, SetBooleanKeeps
<1>7. CASE SetNumber  BY <1>7, SetNumberKeeps
<1>8. CASE SetNothing  BY <1>8, SetNothingKeeps
<1>9. CASE Return  BY <1>9, StutterText DEF Return
<1>10. CASE UNCHANGED vars  BY <1>10, StutterText DEF vars
<1>11. QED
  BY <1>1, <1>2, <1>3, <1>4, <1>5, <1>6, <1>7, <1>8, <1>9, <1>10 DEF Next

(* What the invariant says of the first lines is what LastLineWins says.   *)
LEMMA TextInvLast == TextInv => LastLineWins
<1> SUFFICES ASSUME TextInv PROVE LastLineWins
  OBVIOUS
<1>1. \A i : SectionLines(i) = SectionsOf(text, i)
  BY DEF SectionLines, SectionsOf
<1>2. Known = {KeyOf(text[i]) : i \in SectionLines(line)}
  BY <1>1 DEF TextInv, KnownAreSections
<1>3. ASSUME NEW k \in Known, NEW f \in DOMAIN NewEntry \ {"fromfile"}
      PROVE  LET lines == {i \in 1..line : BelongsTo(i, k) /\ Sets(i, f)} IN
             values[k][f] = IF lines = {} THEN NewEntry[f] ELSE Meaning(Max(lines), f)
  <2>1. {i \in 1..line : BelongsTo(i, k) /\ Sets(i, f)} = LinesFor(text, line, k, f)
    BY <1>1 DEF BelongsTo, Sets, LinesFor, Belongs, SetsIn, Owner
  <2>2. \A i : Meaning(i, f) = MeaningIn(text, i, f)
    BY DEF Meaning, MeaningIn
  <2>3. values[k][f] = Says(text, line, k, f)
    BY <1>3 DEF TextInv, FieldsAreLast, Fields
  <2>4. QED
    BY <2>1, <2>2, <2>3 DEF Says
<1>4. QED
  BY <1>2, <1>3 DEF LastLineWins

(* For every text, parse() gives each key it enters the defaults changed   *)
(* by the last line that sets each field, whatever sections come again and *)
(* whatever lines mean nothing.                                            *)
THEOREM TextMeansItsLastLines == Spec => []LastLineWins
<1>1. Init => TextInv
  BY InitText
<1>2. TextInv /\ [Next]_vars => TextInv'
  BY NextText
<1>3. TextInv => LastLineWins
  BY TextInvLast
<1>4. QED
  BY <1>1, <1>2, <1>3, PTL DEF Spec
---------------------------------------------------------------------------
(* Types                                                                   *)

Smallest(x, C) == x \in C /\ \A y \in C : y \subseteq x => y = x

(* A set of finite sets that is not empty has a smallest one.              *)
LEMMA SmallestSet ==
  ASSUME NEW n \in Nat, NEW C \in SUBSET SUBSET (1..n), C # {}
  PROVE  \E x : Smallest(x, C)
<1>1. IsWellFoundedOn(StrictSubsetOrdering(1..n), FiniteSubsetsOf(1..n))
  BY FS_StrictSubsetOrderingWellFounded
<1>2. FiniteSubsetsOf(1..n) = SUBSET (1..n)
  BY FS_FiniteSubsetsOfFinite, FS_Interval
<1>3. PICK x \in C : \A y \in C : <<y, x>> \notin StrictSubsetOrdering(1..n)
  <2>1. C \subseteq FiniteSubsetsOf(1..n)
    BY <1>2
  <2>2. QED
    BY <1>1, <2>1, WFMin
<1>4. ASSUME NEW y \in C, y \subseteq x PROVE y = x
  <2>1. <<y, x>> \in (SUBSET (1..n)) \X (SUBSET (1..n))
    OBVIOUS
  <2>2. QED
    BY <1>3, <1>4, <2>1 DEF StrictSubsetOrdering
<1>5. QED
  BY <1>4 DEF Smallest

(* The least and the greatest of a set of places are among them.           *)
LEMMA LeastIsIn ==
  ASSUME NEW n \in Nat, NEW S \in SUBSET (1..n), S # {}
  PROVE  Min(S) \in S
<1> DEFINE C == {1..x : x \in S}
<1>1. PICK D : D = C
  OBVIOUS
<1>2. PICK c : Smallest(c, D)
  <2>1. D \in SUBSET SUBSET (1..n)
    <3>1. \A x \in S : 1..x \subseteq 1..n
      OBVIOUS
    <3>2. QED
      BY <1>1, <3>1
  <2>2. D # {}
    BY <1>1
  <2>3. QED
    BY <2>1, <2>2, SmallestSet
<1>3. PICK x \in S : c = 1..x
  BY <1>1, <1>2 DEF Smallest
<1>4. ASSUME NEW y \in S PROVE x =< y
  <2>1. SUFFICES ASSUME y < x PROVE FALSE
    OBVIOUS
  <2>2. 1..y \subseteq 1..x /\ x \in 1..x /\ x \notin 1..y
    BY <2>1
  <2>3. 1..y \in D
    BY <1>1
  <2>4. QED
    BY <1>2, <1>3, <2>2, <2>3 DEF Smallest
<1>5. QED
  BY <1>4 DEF Min

LEMMA GreatestIsIn ==
  ASSUME NEW n \in Nat, NEW S \in SUBSET (1..n), S # {}
  PROVE  Max(S) \in S
<1> DEFINE C == {x..n : x \in S}
<1>1. PICK D : D = C
  OBVIOUS
<1>2. PICK c : Smallest(c, D)
  <2>1. D \in SUBSET SUBSET (1..n)
    <3>1. \A x \in S : x..n \subseteq 1..n
      OBVIOUS
    <3>2. QED
      BY <1>1, <3>1
  <2>2. D # {}
    BY <1>1
  <2>3. QED
    BY <2>1, <2>2, SmallestSet
<1>3. PICK x \in S : c = x..n
  BY <1>1, <1>2 DEF Smallest
<1>4. ASSUME NEW y \in S PROVE x >= y
  <2>1. SUFFICES ASSUME x < y PROVE FALSE
    OBVIOUS
  <2>2. y..n \subseteq x..n /\ x \in x..n /\ x \notin y..n
    BY <2>1
  <2>3. y..n \in D
    BY <1>1
  <2>4. QED
    BY <1>2, <1>3, <2>2, <2>3 DEF Smallest
<1>5. QED
  BY <1>4 DEF Max

(* A part of a sequence of tokens.                                         *)
LEMMA PartTyped ==
  ASSUME NEW T, NEW s \in Seq(T), NEW m \in Nat \ {0}, NEW n \in Int, n <= Len(s)
  PROVE  SubSeq(s, m, n) \in Seq(T)
<1>1. \A i \in m..n : i \in 1..Len(s)
  BY LenProperties
<1>2. \A i \in m..n : s[i] \in T
  BY <1>1, ElementOfSeq
<1>3. QED
  BY <1>2, SubSeqProperties

LEMMA SplitTyped ==
  ASSUME NEW T, NEW s \in Seq(T)
  PROVE  Split(s).first \in Seq(T) /\ Split(s).second \in Seq(T)
<1>1. PICK at : at = {i \in DOMAIN s : s[i] = "="}
  OBVIOUS
<1>2. at \in SUBSET (1..Len(s)) /\ Len(s) \in Nat
  BY <1>1, LenProperties
<1>3. CASE at = {}
  <2>1. Split(s) = [first |-> s, second |-> <<>>]
    BY <1>1, <1>3, Zenon DEF Split
  <2>2. QED
    BY <2>1, EmptySeq
<1>4. CASE at # {}
  <2>1. Split(s) = [first |-> SubSeq(s, 1, Min(at) - 1),
                    second |-> SubSeq(s, Min(at) + 1, Len(s))]
    BY <1>1, <1>4, Zenon DEF Split
  <2>2. Min(at) \in 1..Len(s)
    BY <1>2, <1>4, LeastIsIn
  <2>3. SubSeq(s, 1, Min(at) - 1) \in Seq(T) /\ SubSeq(s, Min(at) + 1, Len(s)) \in Seq(T)
    BY <1>2, <2>2, PartTyped
  <2>4. QED
    BY <2>1, <2>3
<1>5. QED
  BY <1>3, <1>4

LEMMA TrimTyped ==
  ASSUME NEW T, NEW s \in Seq(T), NEW ignored
  PROVE  Trim(s, ignored) \in Seq(T)
<1>1. PICK kept : kept = {i \in DOMAIN s : s[i] \notin ignored /\ ~(i = 1 /\ s[i] = BOM)}
  OBVIOUS
<1>2. kept \in SUBSET (1..Len(s)) /\ Len(s) \in Nat
  BY <1>1, LenProperties
<1>3. CASE kept = {}
  <2>1. Trim(s, ignored) = <<>>
    BY <1>1, <1>3, Zenon DEF Trim
  <2>2. QED
    BY <2>1, EmptySeq
<1>4. CASE kept # {}
  <2>1. Trim(s, ignored) = SubSeq(s, Min(kept), Max(kept))
    BY <1>1, <1>4, Zenon DEF Trim
  <2>2. Min(kept) \in 1..Len(s) /\ Max(kept) \in 1..Len(s)
    BY <1>2, <1>4, LeastIsIn, GreatestIsIn
  <2>3. QED
    BY <1>2, <2>1, <2>2, PartTyped
<1>5. QED
  BY <1>3, <1>4

(* Lower case stays lower case.                                            *)
LEMMA LowerTyped ==
  ASSUME NEW s \in Seq(Tokens)
  PROVE  Lower(s) \in Seq(Tokens) /\ Lower(Lower(s)) = Lower(s)
<1>1. Len(s) \in Nat /\ DOMAIN s = 1..Len(s) /\ \A i \in 1..Len(s) : s[i] \in Tokens
  BY LenProperties, ElementOfSeq
<1>2. /\ \A x \in Tokens : LowerCase[x] \in Tokens
      /\ \A x \in Tokens : LowerCase[LowerCase[x]] = LowerCase[x]
  BY TextAssumption, Zenon
<1>3. Lower(s) \in [1..Len(s) -> Tokens]
  BY <1>1, <1>2 DEF Lower
<1>4. Lower(s) \in Seq(Tokens)
  BY <1>1, <1>3, IsASeq
<1>5. DOMAIN Lower(s) = 1..Len(s) /\ \A i \in 1..Len(s) : Lower(s)[i] = LowerCase[s[i]]
  BY <1>1 DEF Lower
<1>6. Lower(Lower(s)) = [i \in 1..Len(s) |-> LowerCase[Lower(s)[i]]]
  BY <1>5 DEF Lower
<1>7. \A i \in 1..Len(s) : LowerCase[Lower(s)[i]] = LowerCase[s[i]]
  BY <1>1, <1>2, <1>5
<1>8. Lower(Lower(s)) = [i \in 1..Len(s) |-> LowerCase[s[i]]]
  BY <1>6, <1>7
<1>9. QED
  BY <1>1, <1>4, <1>8 DEF Lower

(* Keys and values of lines.                                               *)
LEMMA LineTyped ==
  ASSUME NEW l \in Seq(Tokens)
  PROVE  /\ KeyOf(l) \in Seq(Tokens) /\ Lower(KeyOf(l)) = KeyOf(l)
         /\ Value(l) \in Seq(Tokens) /\ Lower(Value(l)) \in Seq(Tokens)
<1>1. Name(l) \in Seq(Tokens)
  BY SplitTyped, TrimTyped DEF Name
<1>2. KeyOf(l) \in Seq(Tokens) /\ Lower(KeyOf(l)) = KeyOf(l)
  BY <1>1, TrimTyped, LowerTyped DEF KeyOf
<1>3. Value(l) \in Seq(Tokens)
  BY SplitTyped, TrimTyped DEF Value
<1>4. QED
  BY <1>2, <1>3, LowerTyped

EntriesTyped ==
  \A k \in Known : k \in Seq(Tokens) /\ Lower(k) = k /\ values[k] \in Entries

(* The value a setting has is of the type of its field.                    *)
FieldTyped(f, v) ==
  /\ f = "path" => v \in Seq(Tokens)
  /\ f = "level" => v \in 0..5
  /\ f \in Booleans => v \in BOOLEAN
  /\ f \in {"limitsize", "reserve"} => v \in Int

LEMMA NewEntryTyped == NewEntry \in Entries
<1>1. DefaultPath \in Seq(Tokens)
  BY TextAssumption
<1>2. QED
  BY <1>1 DEF NewEntry, Entries

LEMMA EntryTyped ==
  ASSUME NEW e \in Entries, NEW f, NEW v, FieldTyped(f, v),
         f \in Booleans \cup {"path", "level", "limitsize", "reserve"}
  PROVE  [e EXCEPT ![f] = v] \in Entries
<1>1. CASE f = "path"  BY <1>1 DEF FieldTyped, Entries
<1>2. CASE f = "level"  BY <1>2 DEF FieldTyped, Entries
<1>3. CASE f = "limitsize"  BY <1>3 DEF FieldTyped, Entries
<1>4. CASE f = "reserve"  BY <1>4 DEF FieldTyped, Entries
<1>5. CASE f \in Booleans
  <2>1. v \in BOOLEAN
    BY <1>5 DEF FieldTyped
  <2>2. CASE f = "enable"  BY <2>1, <2>2 DEF Entries
  <2>3. CASE f = "display"  BY <2>1, <2>3 DEF Entries
  <2>4. CASE f = "outfile"  BY <2>1, <2>4 DEF Entries
  <2>5. CASE f = "monthdir"  BY <2>1, <2>5 DEF Entries
  <2>6. CASE f = "fileline"  BY <2>1, <2>6 DEF Entries
  <2>7. QED
    BY <1>5, <2>2, <2>3, <2>4, <2>5, <2>6 DEF Booleans
<1>6. QED
  BY <1>1, <1>2, <1>3, <1>4, <1>5

LEMMA SetTyped ==
  ASSUME EntriesTyped, key \in Known, NEW f, NEW v, FieldTyped(f, v),
         f \in Booleans \cup {"path", "level", "limitsize", "reserve"},
         values' = [values EXCEPT ![key][f] = v]
  PROVE  EntriesTyped'
<1>1. [values[key] EXCEPT ![f] = v] \in Entries
  BY EntryTyped DEF EntriesTyped
<1>2. Known' = Known /\ \A k \in Known : values'[k] \in Entries
  BY <1>1 DEF EntriesTyped, Known
<1>3. QED
  BY <1>2 DEF EntriesTyped

(* The line that is read.                                                  *)
LEMMA LineRead ==
  ASSUME TypeOK, NextLine
  PROVE  /\ Current \in Seq(Tokens)
         /\ text' \in Seq(Lines) /\ line' \in 0..Len(text')
         /\ result' \in {"parsing", "parsed", "refused"}
<1>1. /\ text \in Seq(Lines) /\ line \in 0..Len(text) /\ line < Len(text)
      /\ text' = text /\ line' = line + 1 /\ result' = result
  BY DEF TypeOK, NextLine
<1>2. Len(text) \in Nat
  BY <1>1, LenProperties
<1>3. line + 1 \in 1..Len(text)
  BY <1>1, <1>2
<1>4. Current \in Lines
  BY <1>1, <1>3, ElementOfSeq DEF Current
<1>5. Lines \subseteq Seq(Tokens)
  BY TextAssumption
<1>6. QED
  BY <1>1, <1>3, <1>4, <1>5 DEF TypeOK

LEMMA SettingTypes ==
  ASSUME NEW l \in Seq(Tokens)
  PROVE  /\ FieldTyped("path", Value(l))
         /\ Lower(Value(l)) \in LevelNames => FieldTyped("level", Level(Lower(Value(l))))
         /\ \A f \in Booleans : FieldTyped(f, Truth(Lower(Value(l))))
         /\ \A f \in {"limitsize", "reserve"} : FieldTyped(f, Number(Lower(Value(l))))
<1>1. FieldTyped("path", Value(l))
  BY LineTyped DEF FieldTyped, Booleans
<1>2. ASSUME NEW v \in LevelNames PROVE Level(v) \in 0..5
  BY DEF LevelNames, Level
<1>3. ASSUME NEW v \in LevelNames PROVE FieldTyped("level", Level(v))
  BY <1>2 DEF FieldTyped, Booleans
<1>4. ASSUME NEW f \in Booleans, NEW v PROVE FieldTyped(f, Truth(v))
  <2>1. Truth(v) \in BOOLEAN
    BY DEF Truth
  <2>2. QED
    BY <2>1 DEF FieldTyped, Booleans
<1>5. ASSUME NEW v PROVE Number(v) \in Int
  BY TextAssumption DEF Number
<1>6. ASSUME NEW f \in {"limitsize", "reserve"}, NEW v PROVE FieldTyped(f, Number(v))
  BY <1>5 DEF FieldTyped, Booleans
<1>7. QED
  BY <1>1, <1>3, <1>4, <1>6

LEMMA TypesKept == TypeOK /\ [Next]_vars => TypeOK'
<1> SUFFICES ASSUME TypeOK, [Next]_vars PROVE TypeOK'
  OBVIOUS
<1>1. EntriesTyped /\ key \in Seq(Tokens)
  BY DEF TypeOK, EntriesTyped
<1>2. ASSUME NextLine, key' \in Seq(Tokens), EntriesTyped' PROVE TypeOK'
  BY <1>2, LineRead DEF TypeOK, EntriesTyped
<1>3. ASSUME UNCHANGED <<key, values>> PROVE key' \in Seq(Tokens) /\ EntriesTyped'
  BY <1>1, <1>3 DEF EntriesTyped, Known
<1>4. CASE SkipLine
  BY <1>2, <1>3, <1>4 DEF SkipLine
<1>5. CASE Section
  <2>1. /\ NextLine /\ key' = KeyOf(Current)
        /\ values' = [k \in Known \cup {key'} |-> IF k \in Known THEN values[k] ELSE NewEntry]
    BY <1>5 DEF Section
  <2>2. key' \in Seq(Tokens) /\ Lower(key') = key'
    BY <2>1, LineRead, LineTyped
  <2>3. Known' = Known \cup {key'}
    BY <2>1 DEF Known
  <2>4. \A k \in Known' : values'[k] \in Entries
    BY <1>1, <2>1, <2>3, NewEntryTyped DEF EntriesTyped
  <2>5. EntriesTyped'
    BY <1>1, <2>2, <2>3, <2>4 DEF EntriesTyped
  <2>6. QED
    BY <1>2, <2>1, <2>2, <2>5
<1>6. CASE Stray
  BY <1>2, <1>3, <1>6 DEF Stray
<1>7. ASSUME NEW f, NEW v, Setting(f), FieldTyped(f, v),
             f \in Booleans \cup {"path", "level", "limitsize", "reserve"},
             values' = [values EXCEPT ![key][f] = v]
      PROVE  TypeOK'
  <2>1. NextLine /\ key \in Known /\ key' = key
    BY <1>7 DEF Setting
  <2>2. EntriesTyped'
    BY <1>1, <1>7, <2>1, SetTyped
  <2>3. QED
    BY <1>1, <1>2, <2>1, <2>2
<1>8. CASE SetPath
  <2>1. NextLine /\ Setting("path") /\ values' = [values EXCEPT ![key].path = Value(Current)]
    BY <1>8 DEF SetPath, Setting
  <2>2. FieldTyped("path", Value(Current))
    BY <2>1, LineRead, SettingTypes
  <2>3. QED
    BY <1>7, <2>1, <2>2
<1>9. CASE SetLevel
  <2>1. PICK v : v = Lower(Value(Current))
    OBVIOUS
  <2>2. NextLine /\ Setting("level") /\ key' = key
        /\ values' = IF v \in LevelNames THEN [values EXCEPT ![key].level = Level(v)] ELSE values
    BY <1>9, <2>1 DEF SetLevel, Setting
  <2>3. CASE v \in LevelNames
    <3>1. FieldTyped("level", Level(v))
      BY <2>1, <2>2, <2>3, LineRead, SettingTypes
    <3>2. QED
      BY <1>7, <2>2, <2>3, <3>1
  <2>4. CASE v \notin LevelNames
    BY <1>2, <1>3, <2>2, <2>4
  <2>5. QED
    BY <2>3, <2>4
<1>10. CASE SetBoolean
  <2>1. PICK f \in Booleans :
          NextLine /\ Setting(f)
          /\ values' = [values EXCEPT ![key][f] = Truth(Lower(Value(Current)))]
    BY <1>10 DEF SetBoolean, Setting
  <2>2. FieldTyped(f, Truth(Lower(Value(Current))))
    BY <2>1, LineRead, SettingTypes
  <2>3. QED
    BY <1>7, <2>1, <2>2
<1>11. CASE SetNumber
  <2>1. PICK f \in {"limitsize", "reserve"} :
          NextLine /\ Setting(f)
          /\ values' = [values EXCEPT ![key][f] = Number(Lower(Value(Current)))]
    BY <1>11 DEF SetNumber, Setting
  <2>2. FieldTyped(f, Number(Lower(Value(Current))))
    BY <2>1, LineRead, SettingTypes
  <2>3. QED
    BY <1>7, <2>1, <2>2
<1>12. CASE SetNothing
  BY <1>2, <1>3, <1>12 DEF SetNothing
<1>13. CASE Return
  <2>1. result' \in {"parsed", "refused"} /\ UNCHANGED <<text, line, key, values>>
    BY <1>13 DEF Return
  <2>2. QED
    BY <1>3, <2>1 DEF TypeOK, EntriesTyped
<1>14. CASE UNCHANGED vars
  <2>1. UNCHANGED <<text, line, key, values, result>>
    BY <1>14 DEF vars
  <2>2. QED
    BY <1>3, <2>1 DEF TypeOK, EntriesTyped
<1>15. QED
  BY <1>4, <1>5, <1>6, <1>8, <1>9, <1>10, <1>11, <1>12, <1>13, <1>14 DEF Next

LEMMA TypesAtFirst == Init => TypeOK
<1> SUFFICES ASSUME Init PROVE TypeOK
  OBVIOUS
<1>1. PICK n \in 0..MaxLines : text \in [1..n -> Lines]
  BY DEF Init
<1>2. n \in Nat
  BY <1>1, TextAssumption
<1>3. text \in Seq(Lines)
  BY <1>1, <1>2, IsASeq
<1>4. Len(text) \in Nat /\ <<>> \in Seq(Tokens) /\ Known = {} /\ line = 0
      /\ key = <<>> /\ result = "parsing"
  BY <1>3, LenProperties, EmptySeq DEF Init, Known
<1>5. QED
  BY <1>3, <1>4 DEF TypeOK

(* For every text, the entries parse() leaves have fields of their types,  *)
(* under keys in lower case: the level is one of the six the record's      *)
(* table has names for, and the sizes any integers.                        *)
THEOREM TypeCorrect == Spec => []TypeOK
<1>1. Init => TypeOK
  BY TypesAtFirst
<1>2. TypeOK /\ [Next]_vars => TypeOK'
  BY TypesKept
<1>3. QED
  BY <1>1, <1>2, PTL DEF Spec
===========================================================================
