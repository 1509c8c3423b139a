---------------------------- MODULE LinearParser ----------------------------
(***************************************************************************)
(* The parser of the milestone-1 snapshot (sopvm-milestone-1/sopvm/sopvm/  *)
(* compiler/parser.py), a scan of a Markdown file line by line, behind     *)
(* "sopvm compile --check" of its CLI (sopvm-milestone-1/sopvm/cli).       *)
(*                                                                         *)
(* A line is what the parser tells apart: a fence ("---"), a blank line, a *)
(* title ("# ..."), an item ("<number>. ..."), anything else; titles and   *)
(* items say whether text follows.  A step's text is the sequence of the   *)
(* lines it was taken from.  Lines are counted from 1, as in diagnostics;  *)
(* a diagnostic is what it complains of and the line it is anchored to.    *)
(***************************************************************************)
EXTENDS Naturals, Sequences, FiniteSets

CONSTANT Calls  \* command lines: is --check given, what is at the path, the lines
                \* of the file, and what yaml.safe_load makes of the frontmatter

Line == [kind : {"fence", "blank", "other"}]
        \cup [kind : {"title"}, text : BOOLEAN]
        \cup [kind : {"item"}, number : Nat, text : BOOLEAN]

Fields == {"id", "version", "owner"}

ASSUME CallsAssumption ==
    \A c \in Calls :
        /\ c.check \in BOOLEAN
        /\ c.path \in {"missing", "directory", "binary", "text"}
        /\ c.lines \in Seq(Line)
        /\ c.path = "text" /\ c.yaml.result = "mapping" =>
               \A f \in Fields : c.yaml.fields[f] \in {"absent", "invalid", "valid"}

VARIABLES
    call,           \* the command line
    pc,             \* "start", "frontmatter", "title", "steps" or "done"
    i,              \* the line the scan has come to
    first,          \* the line after the title
    titleFailed,    \* title_failed
    steps,          \* the steps so far
    current,        \* the step being read: none or one
    expected,       \* expected_index
    seen,           \* seen_numbers
    errors,         \* the diagnostics so far
    outcome         \* how the command ended, and its exit code

vars == <<call, pc, i, first, titleFailed, steps, current, expected, seen, errors, outcome>>

lines == call.lines
End   == Len(lines) + 1

Diagnostic(what, line) == [what |-> what, line |-> line]

Running    == [how |-> "running", exit |-> 0]
Accepted   == [how |-> "accepted", exit |-> 0]
Rejected   == [how |-> "rejected", exit |-> 1]
Traceback  == [how |-> "traceback", exit |-> 1]
Refused    == [how |-> "refused", exit |-> 2]

Init ==
    /\ call \in Calls
    /\ pc = "start" /\ i = 1 /\ first = 1 /\ titleFailed = FALSE
    /\ steps = <<>> /\ current = <<>> /\ expected = 1 /\ seen = {}
    /\ errors = {} /\ outcome = Running

\* _cmd_compile before it calls the parser; a file that is not UTF-8 is refused
\* the same way when it is read.
Refuse ==
    /\ pc = "start"
    /\ ~ call.check \/ call.path # "text"
    /\ pc' = "done" /\ outcome' = Refused
    /\ UNCHANGED <<call, i, first, titleFailed, steps, current, expected, seen, errors>>

-----------------------------------------------------------------------------
(* The frontmatter. *)

Opens == lines # <<>> /\ lines[1].kind = "fence"

Closing == {l \in 2..Len(lines) : lines[l].kind = "fence"}

\* Without both fences nobody knows where the body begins: parse raises at once.
FindFrontmatter ==
    /\ pc = "start" /\ call.check /\ call.path = "text"
    /\ \/ /\ ~ Opens \/ Closing = {}
          /\ errors' = {Diagnostic(<<"frontmatter", IF Opens THEN "unterminated" ELSE "absent">>, 1)}
          /\ pc' = "done" /\ outcome' = Rejected /\ UNCHANGED i
       \/ /\ Opens
          /\ \E l \in Closing : i' = l /\ \A k \in Closing : l <= k
          /\ pc' = "frontmatter" /\ UNCHANGED <<errors, outcome>>
    /\ UNCHANGED <<call, first, titleFailed, steps, current, expected, seen>>

\* "absent", "invalid" or "valid"; what is no mapping has no fields.
Field(yaml, f) == IF yaml.result = "mapping" THEN yaml.fields[f] ELSE "absent"

FrontmatterErrors(yaml) ==
    (IF yaml.result = "mapping" THEN {} ELSE {Diagnostic(<<"frontmatter", yaml.result>>, 1)})
    \cup {Diagnostic(<<"missing", f>>, 1) : f \in {g \in Fields : Field(yaml, g) = "absent"}}
    \cup {Diagnostic(<<"invalid", f>>, 1) : f \in {g \in Fields : Field(yaml, g) = "invalid"}}

\* Exceptions nobody catches: safe_load raises something that is no YAMLError (a
\* date that does not exist is a ValueError), and difflib compares the name of a
\* missing field with keys that are no strings (a TypeError).
Crashes(yaml) ==
    \/ yaml.result = "exception"
    \/ yaml.result = "mapping" /\ ~ yaml.string_keys
          /\ \E f \in Fields : Field(yaml, f) = "absent"

CheckFrontmatter ==
    /\ pc = "frontmatter"
    /\ \/ /\ Crashes(call.yaml)
          /\ pc' = "done" /\ outcome' = Traceback /\ UNCHANGED errors
       \/ /\ ~ Crashes(call.yaml)
          /\ errors' = FrontmatterErrors(call.yaml)
          /\ pc' = "title" /\ UNCHANGED outcome
    /\ UNCHANGED <<call, i, first, titleFailed, steps, current, expected, seen>>

-----------------------------------------------------------------------------
(* The title: the first line after the frontmatter that is not blank.        *)

Title == {l \in (i + 1)..Len(lines) :
             lines[l].kind # "blank" /\ \A k \in (i + 1)..(l - 1) : lines[k].kind = "blank"}

\* Slip: the line below the end of a file without a body.
FindTitleBelow ==
    /\ pc = "title"
    /\ Title = {} /\ titleFailed' = TRUE
    /\ errors' = errors \cup {Diagnostic(<<"title", "missing">>, i + 2)}
    /\ first' = End
    /\ i' = first' /\ pc' = "steps"
    /\ UNCHANGED <<call, steps, current, expected, seen, outcome>>

\* A line that is no title is not consumed: it may be the first step.
FindTitle ==
    /\ pc = "title"
    /\ \/ /\ Title = {} /\ titleFailed' = TRUE
          /\ errors' = errors \cup {Diagnostic(<<"title", "missing">>, i + 1)}
          /\ first' = End
       \/ \E l \in Title :
             \/ /\ lines[l].kind # "title" /\ titleFailed' = TRUE
                /\ errors' = errors \cup {Diagnostic(<<"title", "no_heading">>, l)}
                /\ first' = l
             \/ /\ lines[l].kind = "title" /\ ~ lines[l].text /\ titleFailed' = TRUE
                /\ errors' = errors \cup {Diagnostic(<<"title", "empty">>, l)}
                /\ first' = l + 1
             \/ /\ lines[l].kind = "title" /\ lines[l].text
                /\ first' = l + 1
                /\ UNCHANGED <<errors, titleFailed>>
    /\ i' = first' /\ pc' = "steps"
    /\ UNCHANGED <<call, steps, current, expected, seen, outcome>>

-----------------------------------------------------------------------------
(* The steps. *)

Step(number, text, line) == [index |-> number, text |-> text, source_line |-> line]

\* flush_current.
Flushed == steps \o current

\* Slip: a number of its own is enough.
NumberingByDuplicates(number) ==
    IF number \in seen THEN {Diagnostic(<<"step", "duplicate">>, i)} ELSE {}

Numbering(number) ==
    IF number \in seen THEN {Diagnostic(<<"step", "duplicate">>, i)}
    ELSE IF number # expected THEN {Diagnostic(<<"step", "out_of_sequence">>, i)}
    ELSE {}

\* Slip: a gap does not move the count on.
ReadItemWithoutResync ==
    /\ pc = "steps" /\ i < End /\ lines[i].kind = "item"
    /\ LET number == lines[i].number
       IN  /\ errors' = errors \cup Numbering(number)
           /\ seen' = seen \cup {number}
           /\ expected' = IF number = expected THEN number + 1 ELSE expected
           /\ current' = <<Step(number, IF lines[i].text THEN <<i>> ELSE <<>>, i)>>
    /\ steps' = Flushed /\ i' = i + 1
    /\ UNCHANGED <<call, pc, first, titleFailed, outcome>>

\* A fresh number, expected or not, is what the next one is compared with.
ReadItem ==
    /\ pc = "steps" /\ i < End /\ lines[i].kind = "item"
    /\ LET number == lines[i].number
       IN  /\ errors' = errors \cup Numbering(number)
           /\ seen' = seen \cup {number}
           /\ expected' = IF number \in seen THEN expected ELSE number + 1
           /\ current' = <<Step(number, IF lines[i].text THEN <<i>> ELSE <<>>, i)>>
    /\ steps' = Flushed /\ i' = i + 1
    /\ UNCHANGED <<call, pc, first, titleFailed, outcome>>

\* Slip: a blank line does not end the step.
ReadBlankWithin ==
    /\ pc = "steps" /\ i < End /\ lines[i].kind = "blank"
    /\ i' = i + 1
    /\ UNCHANGED <<call, pc, first, titleFailed, steps, current, expected, seen, errors, outcome>>

ReadBlank ==
    /\ pc = "steps" /\ i < End /\ lines[i].kind = "blank"
    /\ steps' = Flushed /\ current' = <<>> /\ i' = i + 1
    /\ UNCHANGED <<call, pc, first, titleFailed, expected, seen, errors, outcome>>

\* Any other line, fences and further titles included, continues a step or is out
\* of place.
ReadOther ==
    /\ pc = "steps" /\ i < End /\ lines[i].kind \notin {"item", "blank"}
    /\ \/ /\ current # <<>>
          /\ current' = <<[current[1] EXCEPT !.text = Append(@, i)]>>
          /\ UNCHANGED errors
       \/ /\ current = <<>>
          /\ errors' = errors \cup {Diagnostic(<<"body", "unexpected">>, i)}
          /\ UNCHANGED current
    /\ i' = i + 1
    /\ UNCHANGED <<call, pc, first, titleFailed, steps, expected, seen, outcome>>

\* Slip: the step that the end of the file ends is left behind.
FinishWithoutFlush ==
    /\ pc = "steps" /\ i >= End
    /\ errors' = errors \cup
          (IF ~ titleFailed /\ Flushed = <<>> THEN {Diagnostic(<<"body", "no_steps">>, first)} ELSE {})
    /\ outcome' = IF errors' = {} THEN Accepted ELSE Rejected
    /\ pc' = "done"
    /\ UNCHANGED <<call, i, first, titleFailed, steps, current, expected, seen>>

\* A missing title hides that there are no steps.  first never exceeds End, so the
\* min() around it is the identity.
Finish ==
    /\ pc = "steps" /\ i >= End
    /\ steps' = Flushed /\ current' = <<>>
    /\ errors' = errors \cup
          (IF ~ titleFailed /\ steps' = <<>> THEN {Diagnostic(<<"body", "no_steps">>, first)} ELSE {})
    /\ outcome' = IF errors' = {} THEN Accepted ELSE Rejected
    /\ pc' = "done"
    /\ UNCHANGED <<call, i, first, titleFailed, expected, seen>>

Next ==
    \/ Refuse
    \/ FindFrontmatter \/ CheckFrontmatter
    \/ FindTitle
    \/ ReadItem \/ ReadBlank \/ ReadOther
    \/ Finish

Spec == Init /\ [][Next]_vars

-----------------------------------------------------------------------------
(* The grammar of the module's docstring, declaratively, and wider where the *)
(* code is: an item may have no text (parser.py:10 asks for it, 43 and 246   *)
(* do not), and blank lines may come between the steps and below them.       *)

\* Items from line f on.
Items(f) == {l \in f..Len(lines) : lines[l].kind = "item"}

\* A line continues an item above it if no blank line comes between.
Continues(f, l) == \E k \in Items(f) : k < l /\ \A m \in k..l : lines[m].kind # "blank"

Numbered(f) ==
    /\ Items(f) # {}
    /\ \A l \in Items(f) : lines[l].number = Cardinality({k \in Items(f) : k <= l})

InWiderGrammar ==
    /\ Opens
    /\ \E l \in Closing, t \in 1..Len(lines) :
           /\ \A k \in Closing : l <= k
           /\ l < t /\ \A k \in (l + 1)..(t - 1) : lines[k].kind = "blank"
           /\ lines[t].kind = "title" /\ lines[t].text
           /\ Numbered(t + 1)
           /\ \A k \in (t + 1)..Len(lines) :
                  lines[k].kind \notin {"item", "blank"} => Continues(t + 1, k)
    /\ \A f \in Fields : Field(call.yaml, f) = "valid"

\* compile --check exits 0 for exactly the files in that grammar: sequential
\* numbers from 1, complete frontmatter, a title, and nothing but steps below it.
\* The grammar at parser.py:5-17 asks more: text of every step, and no blank lines
\* once the steps have begun.  Files without the one or with the others pass too.
ExitZeroIffWiderGrammar ==
    pc = "done" =>
        (outcome.exit = 0 <=> call.check /\ call.path = "text" /\ InWiderGrammar)

\* What a step was made of: its item, and without a gap the lines that follow.
IsBlock(step) ==
    /\ step.source_line \in first..Len(lines)
    /\ lines[step.source_line].kind = "item"
    /\ lines[step.source_line].number = step.index
    /\ \A j \in DOMAIN step.text :
           /\ step.text[j] =
                 step.source_line + j - (IF lines[step.source_line].text THEN 1 ELSE 0)
           /\ step.text[j] \in first..Len(lines)
           /\ lines[step.text[j]].kind # "blank"

Holds(step, l) == l = step.source_line \/ \E j \in DOMAIN step.text : step.text[j] = l

\* An accepted file is read whole and in order: its steps are numbered from 1
\* (ast.py:38-41), each is one block of the file, and every line below the title
\* that is not blank belongs to one (parser.py:207-262).
AcceptedIsWhole ==
    outcome = Accepted =>
        /\ steps # <<>>
        /\ \A k \in DOMAIN steps : steps[k].index = k /\ IsBlock(steps[k])
        /\ \A l \in first..Len(lines) :
               lines[l].kind # "blank" => \E k \in DOMAIN steps : Holds(steps[k], l)

Complaints(what) == {e.line : e \in {d \in errors : d.what = what}}

Fresh(l) == \A k \in Items(first) : k < l => lines[k].number # lines[l].number

\* The number of the nearest fresh item above l, 0 if there is none.
FreshBefore(l) ==
    LET above == {k \in Items(first) : k < l /\ Fresh(k)}
    IN  IF above = {} THEN 0
        ELSE lines[CHOOSE k \in above : \A m \in above : m <= k].number

\* One pass reports every line of the body that is wrong, each for what is wrong
\* with it, and no other: a gap in the numbers is one error at the item after it
\* and none at those that follow (test_parser.py:278), whatever else is wrong.
DiagnosticsAreExact ==
    pc = "done" /\ outcome.how \in {"accepted", "rejected"} /\ i > 1 =>
        /\ Complaints(<<"step", "duplicate">>) = {l \in Items(first) : ~ Fresh(l)}
        /\ Complaints(<<"step", "out_of_sequence">>) =
               {l \in Items(first) : Fresh(l) /\ lines[l].number # FreshBefore(l) + 1}
        /\ Complaints(<<"body", "unexpected">>) =
               {l \in first..Len(lines) : lines[l].kind \notin {"item", "blank"}
                                             /\ ~ Continues(first, l)}

\* Every diagnostic is anchored to a line of the file, or to the one below its
\* last line where something is missing at the end (errors.py:22, parser.py:175,
\* 269).
PointsIntoTheFile == \A e \in errors : e.line \in 1..End
=============================================================================
