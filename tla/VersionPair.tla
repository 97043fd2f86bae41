----------------------------- MODULE VersionPair -----------------------------
(***************************************************************************)
(* Does a conpty.dll belong to an OpenConsole.exe?  read_product_version,  *)
(* parse_version and versions_are_compatible of backend/bundle.rs, one     *)
(* step for every table entry and every dot-separated field read.          *)
(*                                                                         *)
(* A file's version resource has one ProductVersion for every translation, *)
(* perhaps missing or blank.  A field of it is a number with an optional   *)
(* label behind it; padding is taken off before and plays no role.         *)
(***************************************************************************)
EXTENDS Integers, Sequences

CONSTANTS
  Components,         \* fields that count; 4 in the code
  MaxValue,           \* the largest u64
  Labels,             \* what may follow the digits of a field
  MaxFields           \* bound: fields of a version

(* MCTools assumes these of the constants, and its run evaluates them.      *)
ConstantsFit ==
  {Components, MaxValue, MaxFields} \subseteq Nat \ {0} /\ "" \notin Labels

(* A field: its leading digits, -1 without any, and what follows them.  One *)
(* value stands for all that overflow.                                     *)
Fields == [digits : 0 .. MaxValue + 1, label : {""}]
            \cup [digits : {-1, 1}, label : Labels]

(* One that is surplus to the components is bounded to a plain one.        *)
Texts ==
  {t \in UNION {[1 .. n -> Fields] : n \in 1 .. MaxFields} :
     \A i \in Components + 1 .. Len(t) : t[i].label = ""}
Blank  == <<>>

(* The tables: bounded to two translations for the DLL and one for the     *)
(* host, with texts of one field where there are two.                      *)
Second   == <<[digits |-> 0, label |-> ""]>>
OneEntry == {<<>>, <<Blank>>} \cup {<<t>> : t \in Texts}
Files    == [dll : OneEntry \cup UNION {{<<Blank, <<f>>>>, <<<<f>>, Second>>} : f \in Fields},
             host : OneEntry]

VARIABLES
  input,              \* the translation tables of "dll" and "host"
  at,                 \* the file being read, "compare" or "decided"
  work                \* entry, field, parts, seen: where the reading is and what it has;
                      \* dll, host: what was parsed, or <<>>; compatible

vars == <<input, at, work>>

Zeroes == [i \in 1 .. Components |-> 0]

Init ==
  /\ input \in Files
  /\ at = "dll"
  /\ work = [entry |-> 1, field |-> 1, parts |-> Zeroes, seen |-> 0,
             dll |-> <<>>, host |-> <<>>, compatible |-> FALSE]

Reading == at \in {"dll", "host"}
Table   == input[at]

(* Another translation is left to ask.                                     *)
MoreEntries == work.entry <= Len(Table)

(* The next file, with the locals of read_product_version gone.            *)
NextFile(v) ==
  /\ work' = [work EXCEPT ![at] = v, !.entry = 1, !.field = 1, !.parts = Zeroes, !.seen = 0]
  /\ at' = IF at = "dll" THEN "host" ELSE "compare"
  /\ UNCHANGED input

(* A translation without a value, or with a blank one, is passed over.     *)
SkipEntry ==
  /\ Reading /\ MoreEntries /\ Table[work.entry] = Blank
  /\ work' = [work EXCEPT !.entry = @ + 1]
  /\ UNCHANGED <<input, at>>

Unreadable == Reading /\ ~MoreEntries /\ NextFile(<<>>)

Text    == Table[work.entry]
HasText == Reading /\ MoreEntries /\ Text # Blank
Parsing == HasText /\ work.field <= Len(Text) /\ work.seen < Components

(* str::parse::<u64> of a whole field, or of its leading digits.           *)
IsNumber(f) == f.label = "" /\ f.digits \in 0 .. MaxValue
HasDigits(f) == f.digits \in 0 .. MaxValue

Take(digits, next) ==
  work' = [work EXCEPT !.parts[work.seen + 1] = digits, !.seen = @ + 1, !.field = next]

NumericField ==
  /\ Parsing /\ IsNumber(Text[work.field])
  /\ Take(Text[work.field].digits, work.field + 1)
  /\ UNCHANGED <<input, at>>

(* Mutant: the digits before a label are thrown away with it.              *)
DropDigits(f) == FALSE

KeepDigits(f) == HasDigits(f)

(* Any other field contributes its digits and ends the version.            *)
LabelledField ==
  /\ Parsing /\ ~IsNumber(Text[work.field])
  /\ IF KeepDigits(Text[work.field])
       THEN Take(Text[work.field].digits, Len(Text) + 1)
       ELSE work' = [work EXCEPT !.field = Len(Text) + 1]
  /\ UNCHANGED <<input, at>>

AnySeen == work.seen > 0

Parsed == HasText /\ ~Parsing /\ NextFile(IF AnySeen THEN work.parts ELSE <<>>)

(* versions_are_compatible.                                                *)
Compare ==
  /\ at = "compare" /\ at' = "decided"
  /\ work' = [work EXCEPT !.compatible = work.dll # <<>> /\ work.dll = work.host]
  /\ UNCHANGED input

Decided == at = "decided" /\ UNCHANGED vars

Next ==
  SkipEntry \/ Unreadable \/ NumericField \/ LabelledField \/ Parsed \/ Compare \/ Decided

Spec == Init /\ [][Next]_vars

-----------------------------------------------------------------------------
(* The text a file is judged by: its first translation that has one.       *)
Stated(f) ==
  LET present == {i \in 1 .. Len(input[f]) : input[f][i] # Blank} IN
  IF present = {} THEN Blank
  ELSE input[f][CHOOSE i \in present : \A j \in present : i <= j]

(* A release number: all fields plain, none too large.                     *)
Plain(t) == \A i \in 1 .. Len(t) : IsNumber(t[i])
Number(t, i) == IF i <= Len(t) THEN t[i].digits ELSE 0

(* Two files that state plain release numbers are taken for a pair exactly *)
(* if the numbers agree up to missing zeroes and a surplus component.      *)
ReleasesDecide(d, h) ==
  d # Blank /\ h # Blank /\ Plain(d) /\ Plain(h)
    => work.compatible = (\A i \in 1 .. Components : Number(d, i) = Number(h, i))

(* Files whose digits differ before any label are no pair, wherever the    *)
(* labels are: 1.24.1234-hotfix is not 1.24.9999-beta.                     *)
DigitsTellApart(d, h) ==
  \A i \in 1 .. Components :
    /\ i <= Len(d) /\ i <= Len(h)
    /\ Plain(SubSeq(d, 1, i - 1)) /\ Plain(SubSeq(h, 1, i - 1))
    /\ HasDigits(d[i]) /\ HasDigits(h[i]) /\ d[i].digits # h[i].digits
    => ~work.compatible

(* A DLL and a host are only taken for a pair if their release numbers     *)
(* prove it: plain numbers decide, digits tell labelled builds apart, and  *)
(* a file that states no number belongs to nothing, not even to its like.  *)
PairIsProven ==
  LET d == Stated("dll")
      h == Stated("host")
  IN  at = "decided" =>
        /\ ReleasesDecide(d, h) /\ DigitsTellApart(d, h)
        /\ work.compatible => \A t \in {d, h} : t # Blank /\ HasDigits(t[1])
=============================================================================
