----------------------------- MODULE SourceTokens -----------------------------
(***************************************************************************)
(* What xtask source-policy looks for in attributes and in the tokens of   *)
(* macro calls, which the Rust parser leaves alone                         *)
(* (xtask/src/source_policy.rs:138-216): suppressed lints, ignored tests,  *)
(* attributes that cannot be parsed, and trait objects.                    *)
(*                                                                         *)
(* Attributes and the tokens of a macro call are trees, a name and a list: *)
(* the arguments of an attribute, the content of a group named by its      *)
(* bracket.  `dyn' is a keyword: a list that has it is none of attributes. *)
(***************************************************************************)
EXTENDS Integers, Sequences, SequencesExt

Leaf(n) == <<n, <<>>>>

(* An attribute without arguments, or with a trait object among them; a    *)
(* cfg_attr with any of them; a cfg_attr inside another, which stand for   *)
(* all that are deeper.                                                    *)
Plain    == {Leaf(n) : n \in {"allow", "expect", "ignore", "other"}} \cup {<<"other", <<Leaf("dyn")>>>>}
CfgAttrs == {<<"cfg_attr", l>> : l \in BoundedSeq(Plain \cup {Leaf("dyn")}, 3)}
Nested   == {<<"cfg_attr", <<Leaf("other"), c>>>> : c \in CfgAttrs}
              \cup {<<"cfg_attr", <<Leaf("other"), Leaf("other"), c>>>> : c \in CfgAttrs}
Attributes == Plain \cup CfgAttrs \cup Nested

(* Its list is no list of attributes.                                      *)
Malformed(m) == m[1] = "cfg_attr" /\ \E i \in DOMAIN m[2] : m[2][i] = Leaf("dyn")

(* What a cfg_attr has after its predicate.                                *)
Behind(m) == IF m[1] = "cfg_attr" THEN {m[2][i] : i \in 2 .. Len(m[2])} ELSE {}

(* inspect_attribute_meta, inspect_cfg_attr: a predicate is not looked at. *)
Inspect[m \in Attributes \cup {Leaf("dyn")}] ==
  \/ m[1] \in {"allow", "expect", "ignore"}
  \/ Malformed(m)
  \/ \E n \in Behind(m) : Inspect[n]

(* Token lists, and those in the groups among them: brackets with one      *)
(* attribute, brackets with something else, parentheses.                   *)
Groups ==
  {<<"[", <<m>>>> : m \in Plain \cup {<<"cfg_attr", <<Leaf("other"), Leaf("expect")>>>>}}
    \cup {<<"[", l>> : l \in {<<>>, <<Leaf("dyn")>>, <<Leaf("allow"), Leaf("x")>>}}
    \cup {<<"(", l>> : l \in {<<Leaf("x"), Leaf("dyn")>>, <<Leaf("#"), <<"[", <<Leaf("allow")>>>>>>}}
Trees  == {Leaf(t) : t \in {"dyn", "#", "!", "x"}} \cup Groups
TokenLists == BoundedSeq(Trees, 3) \cup {m[2] : m \in Attributes} \cup {g[2] : g \in Groups}

(* The attribute that a `#' may begin: its brackets are next, or after a   *)
(* `!', and hold one that can be parsed.                                   *)
AttributeAt(ts, i) ==
  IF i + 1 <= Len(ts) /\ ts[i + 1] = Leaf("!") THEN i + 2 ELSE i + 1
BeginsAttribute(ts, i) ==
  LET j == AttributeAt(ts, i)
  IN  ts[i] = Leaf("#") /\ j <= Len(ts) /\ ts[j][1] = "[" /\ Len(ts[j][2]) = 1

(* inspect_macro_tokens: `dyn', an attribute that Inspect reports, or       *)
(* either in a group.                                                      *)
InspectTokens[ts \in TokenLists] ==
  \E i \in 1 .. Len(ts) :
    \/ ts[i] = Leaf("dyn")
    \/ BeginsAttribute(ts, i) /\ Inspect[ts[AttributeAt(ts, i)][2][1]]
    \/ InspectTokens[ts[i][2]]

(* What is forbidden: an attribute that suppresses a lint or ignores a     *)
(* test, or cannot be parsed, by itself or however a cfg_attr selects it;  *)
(* a trait object or such an attribute, whatever group it is in.           *)
Selected(m) ==
  {m} \cup Behind(m) \cup UNION {Behind(n) : n \in Behind(m)}
Suppressing(m) ==
  \E n \in Selected(m) : n[1] \in {"allow", "expect", "ignore"} \/ Malformed(n)

Inner(lists)  == {l[2] : l \in UNION {Range(ts) : ts \in lists}}
Within(ts) ==
  LET one   == Inner({ts})
      two   == Inner(one)
      three == Inner(two)
  IN  {ts} \cup one \cup two \cup three \cup Inner(three)

SuppressedIn(ts) ==
  \E i, j \in 1 .. Len(ts) : \E m \in Attributes :
    /\ i < j /\ ts[i] = Leaf("#") /\ ts[j] = <<"[", <<m>>>> /\ Suppressing(m)
    /\ SubSeq(ts, i + 1, j - 1) \in {<<>>, <<Leaf("!")>>}
ForbiddenTokens(ts) ==
  \E l \in Within(ts) : Leaf("dyn") \in Range(l) \/ SuppressedIn(l)

(* visit_attribute: the attribute, and the tokens of its list.             *)
AttributeVerdicts ==
  {[found |-> Inspect[m] \/ InspectTokens[m[2]],
    forbidden |-> Suppressing(m) \/ ForbiddenTokens(m[2])] : m \in Attributes}

TokenVerdicts ==
  {[found |-> InspectTokens[ts], forbidden |-> ForbiddenTokens(ts)] : ts \in BoundedSeq(Trees, 3)}
===============================================================================
