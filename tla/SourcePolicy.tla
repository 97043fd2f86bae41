----------------------------- MODULE SourcePolicy -----------------------------
(***************************************************************************)
(* xtask source-policy (xtask/src/source_policy.rs): no trait objects, no  *)
(* ignored tests and no lint suppression in the project's Rust.            *)
(*                                                                         *)
(* The visitor walks a file's syntax tree.  The tree is chosen while it is *)
(* walked: what may come next is the end of the item the walk is in, or    *)
(* anything that can stand there.  The one trait object that is allowed is *)
(* the one the source method of an Error implementation returns.           *)
(***************************************************************************)
EXTENDS Integers, Sequences, SequencesExt, SourceTokens

CONSTANTS
  MaxDepth,           \* bound: items inside each other
  MaxNodes            \* bound: nodes of a file

(* MCTools assumes this of the constants, and its run evaluates it.         *)
ConstantsFit == {MaxDepth, MaxNodes} \subseteq Nat \ {0}

VARIABLES
  input,              \* is the file in a directory that is scanned?
  at,                 \* "files", "walk", "passed" or "refused"
  work                \* the walk: its open items, the visitor's two fields, its findings

vars == <<input, at, work>>

(* Directories: `top' says whether it lies directly in the repository.     *)
Directories == [name : {".git", "target", "vendor", "src"}, top : BOOLEAN]

Init ==
  /\ input \in Directories
  /\ at = "files"
  /\ work = [open |-> <<>>, inErrorImpl |-> FALSE, allowed |-> 0,
             nodes |-> 0, reported |-> {}, forbidden |-> {}]

(* collect_rust_files: vendored code is only found at the top, this tool's *)
(* build output anywhere.                                                  *)
Excluded(d) == IF d.top THEN d.name \in {".git", "target", "vendor"} ELSE d.name = "target"

CollectFiles ==
  /\ at = "files" /\ at' = IF Excluded(input) THEN "passed" ELSE "walk"
  /\ UNCHANGED <<input, work>>

(* The violations of a file that does not parse are one.                   *)
InvalidSyntax ==
  /\ at = "files" /\ ~Excluded(input) /\ at' = "refused"
  /\ UNCHANGED <<input, work>>

More == at = "walk" /\ work.nodes < MaxNodes
Node == work.nodes + 1

(* Open an item; the visitor saves the two fields it is about to change.   *)
Open(kind, ofError, inErrorImpl, allowed) ==
  /\ Len(work.open) < MaxDepth
  /\ work' = [work EXCEPT !.open = Append(@, [kind |-> kind, node |-> Node, ofError |-> ofError,
                                              inErrorImpl |-> work.inErrorImpl,
                                              allowed |-> work.allowed]),
                          !.inErrorImpl = inErrorImpl, !.allowed = allowed, !.nodes = Node]
  /\ UNCHANGED <<input, at>>

Directly(kind) == work.open # <<>> /\ Last(work.open).kind = kind

(* Of std::error::Error, spelled in full; another trait; none.             *)
Traits == {"std::error::Error", "core::error::Error", "Error", "none"}
IsStandardErrorPath(p) == p \in {"std::error::Error", "core::error::Error"}

(* Mutant: an impl inside a method of an Error impl counts as one.         *)
WithinErrorImpl(p) == work.inErrorImpl \/ IsStandardErrorPath(p)

EntersErrorImpl(p) == IsStandardErrorPath(p)

VisitItemImpl ==
  /\ More /\ ~Directly("impl")
  /\ \E p \in Traits :
       Open("impl", IsStandardErrorPath(p), EntersErrorImpl(p), work.allowed)

(* Signatures, as far as source_return_trait_object asks: a plain method   *)
(* `source(&self)' and nothing else, whose type, in any parentheses, is    *)
(* Option<&T> with T = dyn Error + 'static spelled in full.                *)
Signatures ==
  [name : {"source", "other"}, plain : BOOLEAN,
   receiver : {"&self", "&'a_self", "&mut_self", "none"},   \* _ for a space
   option : {"Option", "std::option::Option", "core::option::Option", "other"},
   reference : {"&", "&'a", "&mut", "none"},
   bounds : {{"std::error::Error", "'static"}, {"std::error::Error"}, {"Send", "'static"},
             {"std::error::Error", "'static", "Send"}}]
Ordinary == [name |-> "source", plain |-> TRUE, receiver |-> "&self", option |-> "Option",
             reference |-> "&", bounds |-> {"std::error::Error", "'static"}]

(* All that differ from the accepted one in one place.                     *)
Interesting ==
  {s \in Signatures : \E f \in DOMAIN Ordinary : \A g \in DOMAIN Ordinary \ {f} :
                        s[g] = Ordinary[g]}

Accepted ==
  {s \in Interesting : s.option # "other" /\ \A f \in DOMAIN s \ {"option"} : s[f] = Ordinary[f]}

(* source_return_trait_object: with the standard Error, 'static, no more.  *)
SourceReturn(s) ==
  /\ s.name = "source" /\ s.plain /\ s.receiver = "&self"
  /\ s.option \in {"Option", "std::option::Option", "core::option::Option"}
  /\ s.reference = "&"
  /\ \E p \in {"std::error::Error", "core::error::Error"} : s.bounds = {p, "'static"}

(* The method's node number stands for the address of the trait object in  *)
(* its return type.                                                        *)
VisitImplItemFn ==
  /\ More /\ Directly("impl")
  /\ \E s \in Interesting :
       Open("fn", Last(work.open).ofError /\ s \in Accepted,
            work.inErrorImpl, IF work.inErrorImpl /\ SourceReturn(s) THEN Node ELSE 0)

(* The end of an item restores what it had saved.                          *)
Close ==
  /\ at = "walk" /\ work.open # <<>>
  /\ work' = [work EXCEPT !.open = Front(@), !.inErrorImpl = Last(work.open).inErrorImpl,
                          !.allowed = Last(work.open).allowed]
  /\ UNCHANGED <<input, at>>

Report(found, forbidden) ==
  /\ work' = [work EXCEPT !.nodes = Node,
                          !.reported = IF found THEN @ \cup {Node} ELSE @,
                          !.forbidden = IF forbidden THEN @ \cup {Node} ELSE @]
  /\ UNCHANGED <<input, at>>

(* A trait object in the return type of the method the walk is in, or any  *)
(* other.                                                                  *)
VisitTypeTraitObject ==
  /\ More
  /\ \/ Report(TRUE, TRUE)
     \/ /\ Directly("fn")
        /\ Report(work.allowed # Last(work.open).node, ~Last(work.open).ofError)

(* Attributes anywhere, and the tokens of a macro call (SourceTokens).      *)
VisitAttribute == \E v \in AttributeVerdicts : More /\ Report(v.found, v.forbidden)
VisitMacro     == \E v \in TokenVerdicts : More /\ Report(v.found, v.forbidden)

(* The file has been walked.                                               *)
Conclude ==
  /\ at = "walk" /\ work.open = <<>>
  /\ at' = IF work.reported = {} THEN "passed" ELSE "refused"
  /\ UNCHANGED <<input, work>>

Ended == at \in {"passed", "refused"} /\ UNCHANGED vars

Next ==
  \/ CollectFiles \/ InvalidSyntax \/ VisitItemImpl \/ VisitImplItemFn \/ Close
  \/ VisitTypeTraitObject \/ VisitAttribute \/ VisitMacro \/ Conclude \/ Ended

Spec == Init /\ [][Next]_vars

-----------------------------------------------------------------------------
(* However items are nested, the visitor reports exactly the nodes that    *)
(* the policy forbids: every trait object but the one a source method of   *)
(* the standard Error returns, judged by the impl it is directly in, and   *)
(* every suppression, behind cfg_attr and in macros, too.                  *)
ReportsForbidden ==
  /\ work.reported = work.forbidden
  /\ at = "passed" => work.forbidden = {}
=============================================================================
