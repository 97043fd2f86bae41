---------------------------- MODULE WorkflowShells ----------------------------
(***************************************************************************)
(* xtask workflow-shells (xtask/src/workflow_shells.rs): hand every Bash   *)
(* block of a workflow to ShellCheck, found by indentation alone.          *)
(*                                                                         *)
(* A workflow is a sequence of steps as a valid YAML file has them; what   *)
(* the command sees of it are lines with an indentation.                   *)
(***************************************************************************)
EXTENDS Integers, Sequences, SequencesExt, FiniteSets

CONSTANT MaxSteps     \* bound: steps of a workflow

(* MCTools assumes this of the constant, and its run evaluates it.          *)
ConstantsFit == MaxSteps \in Nat \ {0}

VARIABLES
  input,              \* the steps, --default-shell and --expected-count
  at,                 \* "scan", "check", "passed" or "refused"
  work                \* line, blocks, failed: the locals of run

vars == <<input, at, work>>

Shells == {"unset", "bash", "pwsh"}

(* The shell is named before `run', on the step's first line, with a        *)
(* comment that is not indented behind it, with arguments or plainly, or   *)
(* after `run'.  The block is literal or folded, the command stands on the *)
(* same line, or `- run: |' begins the step.  A script may itself have a   *)
(* line that reads `run: |'.                                               *)
Steps ==
  [before : Shells, way : {"line"}, after : {"unset"}, style : {"|", ">", "inline"},
   body : {<<"text">>, <<"blank", "text">>, <<"text", "blank", "deeper">>, <<"text", "header">>}]
  \cup [before : {"bash", "pwsh"}, way : {"dash", "comment", "arguments"}, after : {"unset"},
        style : {"|"}, body : {<<"text">>}]
  \cup [before : {"unset"}, way : {"line"}, after : Shells, style : {"|", "-|"},
        body : {<<>>, <<"text">>}]

Inputs == [steps : BoundedSeq(Steps, MaxSteps), shell : {"bash", "none"},
           expected : 1 .. MaxSteps]

Init ==
  /\ input \in Inputs
  /\ at = "scan"
  /\ work = [line |-> 1, blocks |-> <<>>, failed |-> FALSE]

(* The lines of a step: a dash at 0, its keys at 1, its block at 2.  What  *)
(* shares a line with the dash is not matched by any pattern.              *)
Line(k, n)    == [kind |-> k, indent |-> n]
ShellLine(s)  == IF s = "unset" THEN <<>> ELSE <<Line(s, 1)>>
BodyLine(b)   ==
  CASE b = "blank" -> Line(b, 0) [] b = "text" -> Line(b, 2) [] b = "header" -> Line("|", 2)
    [] OTHER -> Line(b, 3)
Opening(s)    ==
  LET dash == Line("dash", 0)
      run  == Line(s.style, 1)
  IN  IF s.style = "-|" THEN <<dash>>
      ELSE CASE s.before = "unset" \/ s.way = "dash" -> <<dash, run>>
             [] s.way = "comment" -> <<dash, Line(s.before, 1), Line("comment", 0), run>>
             [] s.way = "arguments" -> <<dash, Line("arguments", 1), run>>
             [] OTHER -> <<dash, Line(s.before, 1), run>>
StepLines(s)  ==
  Opening(s) \o (IF s.style = "inline" THEN <<>> ELSE [i \in DOMAIN s.body |-> BodyLine(s.body[i])])
    \o ShellLine(s.after)
Lines == FlattenSeq([i \in DOMAIN input.steps |-> StepLines(input.steps[i])])

Blank(i)    == Lines[i].kind = "blank"
Indent(i)   == Lines[i].indent
IsHeader(i) == Lines[i].kind \in {"|", ">"}

(* The lines in front of a header that belong to its step, up to the first *)
(* one that is less indented; the earliest shell key among them counts.    *)
Above(h) ==
  LET stops == {i \in 1 .. h - 1 : ~Blank(i) /\ Indent(i) < Indent(h)}
  IN  {i \in 1 .. h - 1 : \A s \in stops : i > s}
ShellKeys(h) ==
  {i \in Above(h) : Lines[i].kind \in Shells /\ Indent(i) = Indent(h)}
ShellOf(h) ==
  IF ShellKeys(h) = {} THEN input.shell
  ELSE Lines[CHOOSE i \in ShellKeys(h) : \A j \in ShellKeys(h) : i <= j].kind

Refuse == at' = "refused" /\ UNCHANGED <<input, work>>

Scanning == at = "scan" /\ work.line <= Len(Lines)
Header   == Scanning /\ IsHeader(work.line)

Advance == work' = [work EXCEPT !.line = @ + 1] /\ UNCHANGED <<input, at>>

SkipLine   == Scanning /\ ~IsHeader(work.line) /\ Advance
SkipHeader == Header /\ ShellOf(work.line) # "bash" /\ Advance

IsLiteral == Lines[work.line].kind = "|"

RefuseFolded ==
  /\ Header /\ ShellOf(work.line) = "bash" /\ ~IsLiteral
  /\ Refuse

(* The block ends at the first line that is not deeper than its header.    *)
BlockEnd ==
  LET after == {i \in work.line + 1 .. Len(Lines) : ~Blank(i) /\ Indent(i) <= Indent(work.line)}
  IN  IF after = {} THEN Len(Lines) + 1 ELSE CHOOSE i \in after : \A j \in after : i <= j

Block == work.line + 1 .. BlockEnd - 1

(* The first line that is not blank sets the indentation, which is taken   *)
(* off every line: what is left are the lines and their extra depth.       *)
Content ==
  LET first == CHOOSE i \in Block : ~Blank(i) /\ \A j \in Block : j < i => Blank(j)
  IN  [k \in 1 .. Cardinality(Block) |->
         IF Blank(work.line + k) THEN Line("blank", 0)
         ELSE Line("text", Indent(work.line + k) - Indent(first))]

CollectBlock ==
  /\ Header /\ ShellOf(work.line) = "bash" /\ IsLiteral
  /\ IF \A i \in Block : Blank(i)
       THEN Refuse
       ELSE /\ work' = [work EXCEPT !.blocks = Append(@, Content), !.line = BlockEnd]
            /\ UNCHANGED <<input, at>>

(* Mutant: no more blocks than expected will do.                           *)
NotTooMany == Len(work.blocks) <= input.expected

CountMatches == Len(work.blocks) = input.expected

CompareCount ==
  /\ at = "scan" /\ work.line > Len(Lines)
  /\ IF CountMatches
       THEN /\ at' = "check" /\ work' = [work EXCEPT !.line = 1] /\ UNCHANGED input
       ELSE Refuse

(* run_shellcheck on the next block: clean, with diagnostics, or an error  *)
(* of the tool or the temporary file.  Diagnostics do not stop the others. *)
RunShellCheck ==
  /\ at = "check" /\ work.line <= Len(work.blocks)
  /\ \/ \E rejected \in BOOLEAN :
          work' = [work EXCEPT !.failed = @ \/ rejected, !.line = @ + 1] /\ UNCHANGED <<input, at>>
     \/ Refuse

Conclude ==
  /\ at = "check" /\ work.line > Len(work.blocks)
  /\ at' = IF work.failed THEN "refused" ELSE "passed"
  /\ UNCHANGED <<input, work>>

Ended == at \in {"passed", "refused"} /\ UNCHANGED vars

Next ==
  \/ SkipLine \/ SkipHeader \/ RefuseFolded \/ CollectBlock \/ CompareCount
  \/ RunShellCheck \/ Conclude \/ Ended

Spec == Init /\ [][Next]_vars

-----------------------------------------------------------------------------
(* What a step runs in Bash, and the script the runner gets for it.        *)
Shell(s) == IF s.before # "unset" THEN s.before
            ELSE IF s.after # "unset" THEN s.after ELSE input.shell
BashSteps == {i \in DOMAIN input.steps :
                Shell(input.steps[i]) = "bash" /\ input.steps[i].style # "inline"}
Script(s) == [i \in DOMAIN s.body |->
                CASE s.body[i] = "blank"  -> Line("blank", 0)
                  [] s.body[i] = "deeper" -> Line("text", 1)
                  [] OTHER                -> Line("text", 0)]

(* With the default shell "bash", a step in another shell counts as one in *)
(* Bash if the command misses its shell, or if a line of its script reads  *)
(* like a block of its own.                                                *)
Overcounts(s) ==
  /\ input.shell = "bash" /\ Shell(s) # "bash"
  /\ s.way # "line" \/ s.after # "unset" \/ "header" \in Range(s.body)

(* The indentation parser misses blocks and shells, but the count makes it *)
(* fail closed: if it states how many Bash blocks the workflow has, and no *)
(* step in another shell makes up for one that is missed, the command only *)
(* passes when it has fed ShellCheck each of their scripts as the runner   *)
(* would get it, in order, and ShellCheck had nothing to say about any.    *)
AllBashChecked ==
  at = "passed" /\ input.expected = Cardinality(BashSteps)
    /\ (\A i \in DOMAIN input.steps : ~Overcounts(input.steps[i])) =>
    /\ Len(work.blocks) = Cardinality(BashSteps) /\ ~work.failed
    /\ \A i \in BashSteps :
         /\ input.steps[i].style = "|"
         /\ work.blocks[Cardinality({j \in BashSteps : j <= i})] = Script(input.steps[i])
=============================================================================
