------------------------ MODULE LinearParserProofs --------------------------
(***************************************************************************)
(* For files of any length: every diagnostic of the milestone-1 parser     *)
(* points into the file, and a file it accepts has been read whole.        *)
(***************************************************************************)
EXTENDS LinearParser, CommonProofs

StepRecords == [index : Nat, text : Seq(Nat), source_line : Nat]

\* Where the scan is, phase by phase.
Position ==
    /\ call \in Calls
    /\ pc \in {"start", "frontmatter", "title", "steps", "done"}
    /\ i \in Nat /\ first \in Nat
    /\ pc \in {"start", "frontmatter", "title"} =>
           steps = <<>> /\ current = <<>> /\ expected = 1 /\ seen = {} /\ ~ titleFailed
    /\ pc \in {"frontmatter", "title"} => i \in 1..Len(lines)
    /\ pc = "steps" => first \in 1..End /\ i \in first..End

\* The lines of a text file are a sequence of lines; End is the index after them.
LEMMA LinesType ==
  ASSUME call \in Calls
  PROVE  lines \in Seq(Line) /\ Len(lines) \in Nat /\ End = Len(lines) + 1
  BY CallsAssumption DEF lines, End

\* The parser is always at a line of the file, or at its end.
LEMMA PositionInvariant == Spec => []Position
  <1>1. Init => Position
    BY DEF Init, Position
  <1>2. ASSUME Position, [Next]_vars
        PROVE  Position'
    <2>0. lines \in Seq(Line) /\ Len(lines) \in Nat /\ End = Len(lines) + 1
      BY <1>2, LinesType DEF Position
    <2>1. CASE Refuse
      BY <1>2, <2>1 DEF Refuse, Position, lines, End
    <2>2. CASE FindFrontmatter
      BY <1>2, <2>0, <2>2 DEF FindFrontmatter, Position, lines, End, Closing
    <2>3. CASE CheckFrontmatter
      BY <1>2, <2>3 DEF CheckFrontmatter, Position, lines, End
    <2>4. CASE FindTitle
      <3>1. call' = call /\ pc = "title" /\ pc' = "steps" /\ i' = first'
        BY <2>4 DEF FindTitle
      <3>2. first' \in 1..End
        BY <1>2, <2>0, <2>4 DEF FindTitle, Position, Title
      <3>3. QED
        BY <1>2, <2>0, <3>1, <3>2 DEF Position, lines, End
    <2>5. CASE ReadItem \/ ReadBlank \/ ReadOther
      <3>1. /\ pc = "steps" /\ i < End /\ i' = i + 1
            /\ UNCHANGED <<call, pc, first>>
        BY <2>5 DEF ReadItem, ReadBlank, ReadOther
      <3>2. QED
        BY <1>2, <2>0, <3>1 DEF Position, lines, End
    <2>6. CASE Finish
      BY <1>2, <2>6 DEF Finish, Position, lines, End
    <2>7. CASE UNCHANGED vars
      BY <1>2, <2>7 DEF vars, Position, lines, End
    <2>8. QED
      BY <1>2, <2>1, <2>2, <2>3, <2>4, <2>5, <2>6, <2>7 DEF Next
  <1>3. QED
    BY <1>1, <1>2, PTL DEF Spec

\* Every diagnostic is anchored to a line of the file or to the one below its last
\* line, in files of any length.
THEOREM DiagnosticsPointIntoFile == Spec => []PointsIntoTheFile
  <1>1. Init => PointsIntoTheFile
    BY DEF Init, PointsIntoTheFile
  <1>2. ASSUME Position, PointsIntoTheFile, [Next]_vars
        PROVE  PointsIntoTheFile'
    <2>0. lines \in Seq(Line) /\ Len(lines) \in Nat /\ End = Len(lines) + 1
      BY <1>2, LinesType DEF Position
    <2>a. End' = End
      BY <1>2 DEF Next, vars, Refuse, FindFrontmatter, CheckFrontmatter, FindTitle, ReadItem,
                  ReadBlank, ReadOther, Finish, lines, End
    <2>b. \A what, l : Diagnostic(what, l).line = l
      BY DEF Diagnostic
    <2>1. CASE Refuse
      BY <1>2, <2>a, <2>1 DEF Refuse, PointsIntoTheFile
    <2>2. CASE FindFrontmatter
      <3>1. \A e \in errors' : e.line = 1 \/ e \in errors
        BY <2>2, <2>b DEF FindFrontmatter
      <3>2. QED
        BY <1>2, <2>0, <2>a, <3>1 DEF PointsIntoTheFile
    <2>3. CASE CheckFrontmatter
      <3>1. \A e \in FrontmatterErrors(call.yaml) : e.line = 1
        BY <2>b DEF FrontmatterErrors
      <3>2. \A e \in errors' : e.line = 1 \/ e \in errors
        BY <2>3, <3>1 DEF CheckFrontmatter
      <3>3. QED
        BY <1>2, <2>0, <2>a, <3>2 DEF PointsIntoTheFile
    <2>4. CASE FindTitle
      <3>1. \A l \in Title : l \in 1..End
        BY <1>2, <2>0, <2>4 DEF Title, Position, FindTitle
      <3>2. i + 1 \in 1..End
        BY <1>2, <2>0, <2>4 DEF Position, FindTitle
      <3>3. \A e \in errors' : e.line \in Title \cup {i + 1} \/ e \in errors
        BY <2>4, <2>b DEF FindTitle
      <3>4. QED
        BY <1>2, <2>a, <3>1, <3>2, <3>3 DEF PointsIntoTheFile
    <2>5. CASE ReadItem \/ ReadBlank \/ ReadOther
      <3>1. i \in 1..End
        BY <1>2, <2>0, <2>5 DEF Position, ReadItem, ReadBlank, ReadOther
      <3>2. \A n : \A e \in Numbering(n) : e.line = i
        BY <2>b DEF Numbering
      <3>3. \A e \in errors' : e.line = i \/ e \in errors
        BY <2>5, <2>b, <3>2 DEF ReadItem, ReadBlank, ReadOther
      <3>4. QED
        BY <1>2, <2>a, <3>1, <3>3 DEF PointsIntoTheFile
    <2>6. CASE Finish
      <3>1. first \in 1..End
        BY <1>2, <2>6 DEF Position, Finish
      <3>2. \A e \in errors' : e.line = first \/ e \in errors
        BY <2>6, <2>b DEF Finish
      <3>3. QED
        BY <1>2, <2>a, <3>1, <3>2 DEF PointsIntoTheFile
    <2>7. CASE UNCHANGED vars
      BY <1>2, <2>7 DEF vars, PointsIntoTheFile, lines, End
    <2>8. QED
      BY <1>2, <2>1, <2>2, <2>3, <2>4, <2>5, <2>6, <2>7 DEF Next
  <1>3. QED
    BY <1>1, <1>2, PositionInvariant, PTL DEF Spec

-----------------------------------------------------------------------------
\* IsBlock for lines and a first line that are given.
BlockIn(step, text, from) ==
    /\ step.source_line \in from..Len(text)
    /\ text[step.source_line].kind = "item"
    /\ text[step.source_line].number = step.index
    /\ \A j \in DOMAIN step.text :
           /\ step.text[j] =
                 step.source_line + j - (IF text[step.source_line].text THEN 1 ELSE 0)
           /\ step.text[j] \in from..Len(text)
           /\ text[step.text[j]].kind # "blank"

\* The line that would come next in a step.
NextOf(step, text) ==
    step.source_line + Len(step.text) + (IF text[step.source_line].text THEN 0 ELSE 1)

\* As long as nothing is wrong: the steps read so far are numbered and whole, the
\* open one ends where the scan is, and every line passed belongs to one of them.
Reading ==
    /\ steps \in Seq(StepRecords)
    /\ current = <<>> \/ \E c \in StepRecords : current = <<c>>
    /\ \A k \in DOMAIN steps : steps[k].index = k /\ BlockIn(steps[k], lines, first)
    /\ current # <<>> =>
           /\ current[1].index = Len(steps) + 1 /\ BlockIn(current[1], lines, first)
           /\ i = NextOf(current[1], lines)
    /\ expected = Len(steps) + Len(current) + 1
    /\ seen = 1..(Len(steps) + Len(current))
    /\ \A l \in first..(i - 1) :
           lines[l].kind # "blank" =>
               \/ \E k \in DOMAIN steps : Holds(steps[k], l)
               \/ current # <<>> /\ Holds(current[1], l)

WholeInv ==
    /\ pc = "steps" /\ errors = {} => Reading
    /\ pc = "steps" /\ titleFailed => errors # {}
    /\ outcome = Accepted => pc = "done"
    /\ AcceptedIsWhole

\* Flushing appends the open step.
LEMMA FlushedSteps ==
  ASSUME Reading
  PROVE  /\ Flushed \in Seq(StepRecords)
         /\ Len(Flushed) = Len(steps) + Len(current)
         /\ \A k \in DOMAIN Flushed :
                Flushed[k].index = k /\ BlockIn(Flushed[k], lines, first)
         /\ \A l \in first..(i - 1) :
                lines[l].kind # "blank" => \E k \in DOMAIN Flushed : Holds(Flushed[k], l)
  <1>1. CASE current = <<>>
    <2>1. Flushed = steps
      BY <1>1 DEF Flushed, Reading
    <2>2. QED
      BY <1>1, <2>1 DEF Reading
  <1>2. CASE current # <<>>
    <2>1. PICK c \in StepRecords : current = <<c>>
      BY <1>2 DEF Reading
    <2>2. /\ Flushed = Append(steps, c) /\ Flushed \in Seq(StepRecords)
          /\ Len(Flushed) = Len(steps) + 1 /\ Flushed[Len(steps) + 1] = c
          /\ \A k \in DOMAIN steps : k \in DOMAIN Flushed /\ Flushed[k] = steps[k]
          /\ \A k \in DOMAIN Flushed : k \in DOMAIN steps \/ k = Len(steps) + 1
          /\ Len(steps) + 1 \in DOMAIN Flushed
      BY <2>1 DEF Flushed, Reading
    <2>3. current[1] = c /\ Len(current) = 1
      BY <2>1
    <2>4. \A k \in DOMAIN Flushed : Flushed[k].index = k /\ BlockIn(Flushed[k], lines, first)
      BY <1>2, <2>2, <2>3 DEF Reading
    <2>5. ASSUME NEW l \in first..(i - 1), lines[l].kind # "blank"
          PROVE  \E k \in DOMAIN Flushed : Holds(Flushed[k], l)
      <3>1. CASE \E k \in DOMAIN steps : Holds(steps[k], l)
        BY <2>2, <3>1
      <3>2. CASE Holds(c, l)
        BY <2>2, <3>2
      <3>3. QED
        BY <1>2, <2>3, <2>5, <3>1, <3>2 DEF Reading
    <2>6. QED
      BY <2>2, <2>3, <2>4, <2>5
  <1>3. QED
    BY <1>1, <1>2

\* Every step of the parser keeps the steps whole.
LEMMA WholeInvariant == Spec => []WholeInv
  <1>1. Init => WholeInv
    BY DEF Init, WholeInv, AcceptedIsWhole, Running, Accepted
  <1>2. ASSUME Position, Position', WholeInv, [Next]_vars
        PROVE  WholeInv'
    <2>0. lines \in Seq(Line) /\ Len(lines) \in Nat /\ End = Len(lines) + 1
      BY <1>2, LinesType DEF Position
    <2> DEFINE Steady == pc # "done" /\ UNCHANGED outcome
    <2>a. Steady => outcome' # Accepted
      BY <1>2 DEF WholeInv
    <2>1. CASE Refuse
      BY <2>1 DEF Refuse, WholeInv, AcceptedIsWhole, Accepted, Refused
    <2>2. CASE FindFrontmatter
      <3>1. outcome' # Accepted /\ pc' # "steps"
        BY <2>2, <2>a DEF FindFrontmatter, Accepted, Rejected
      <3>2. QED
        BY <3>1 DEF WholeInv, AcceptedIsWhole, Accepted
    <2>3. CASE CheckFrontmatter
      <3>1. outcome' # Accepted /\ pc' # "steps"
        BY <2>3, <2>a DEF CheckFrontmatter, Accepted, Traceback
      <3>2. QED
        BY <3>1 DEF WholeInv, AcceptedIsWhole, Accepted
    <2>4. CASE FindTitle
      <3>1. outcome' # Accepted
        BY <2>4, <2>a DEF FindTitle
      <3>2. titleFailed' => errors' # {}
        BY <1>2, <2>4 DEF FindTitle, Position
      <3>3. /\ i' = first' /\ first' \in Nat
            /\ steps' = <<>> /\ current' = <<>> /\ expected' = 1 /\ seen' = {}
        BY <1>2, <2>4 DEF FindTitle, Position
      <3>4. Reading'
        <4>1. steps' \in Seq(StepRecords) /\ Len(steps') = 0 /\ Len(current') = 0
              /\ DOMAIN steps' = {}
          BY <3>3
        <4>a. \A a, b \in Nat : a = b => b..(a - 1) = {}
          OBVIOUS
        <4>2. first'..(i' - 1) = {}
          BY <3>3, <4>a
        <4>3. seen' = 1..(Len(steps') + Len(current')) /\ expected' = Len(steps') + Len(current') + 1
          BY <3>3, <4>1
        <4>4. QED
          BY <3>3, <4>1, <4>2, <4>3 DEF Reading
      <3>5. QED
        BY <3>1, <3>2, <3>4 DEF WholeInv, AcceptedIsWhole, Accepted
    <2>5. CASE ReadItem \/ ReadBlank \/ ReadOther
      <3>1. /\ pc = "steps" /\ i < End /\ i' = i + 1
            /\ UNCHANGED <<call, pc, first, titleFailed, outcome>>
            /\ errors \subseteq errors'
            /\ lines' = lines
        BY <2>5 DEF ReadItem, ReadBlank, ReadOther, lines
      <3>2. outcome' # Accepted
        BY <2>a, <3>1
      <3>3. first \in Nat \ {0} /\ i \in first..Len(lines) /\ lines[i] \in Line
        BY <1>2, <2>0, <3>1 DEF Position
      <3>4. ASSUME errors' = {}
            PROVE  Reading'
        <4>0. Reading /\ errors = {}
          BY <1>2, <3>1, <3>4 DEF WholeInv
        <4>a. first'..(i' - 1) = first..(i - 1) \cup {i}
          BY <3>1, <3>3
        <4>1. CASE ReadItem
          <5> DEFINE number == lines[i].number
                     c == Step(number, IF lines[i].text THEN <<i>> ELSE <<>>, i)
          <5>1. /\ lines[i].kind = "item" /\ steps' = Flushed /\ current' = <<c>>
                /\ Numbering(number) = {}
                /\ seen' = seen \cup {number}
                /\ expected' = IF number \in seen THEN expected ELSE number + 1
            BY <3>4, <4>1 DEF ReadItem
          <5>2. number \notin seen /\ number = expected
            BY <5>1 DEF Numbering
          <5>3. number \in Nat /\ lines[i].text \in BOOLEAN
            BY <3>3, <5>1 DEF Line
          <5>4. /\ c \in StepRecords /\ c.index = number /\ c.source_line = i
                /\ c.text = IF lines[i].text THEN <<i>> ELSE <<>>
            BY <3>3, <5>3 DEF Step, StepRecords
          <5> HIDE DEF c
          <5>5. BlockIn(c, lines, first)
            BY <3>3, <5>1, <5>4 DEF BlockIn
          <5>6. i' = NextOf(c, lines)
            <6>1. CASE lines[i].text
              BY <3>1, <3>3, <5>4, <6>1 DEF NextOf
            <6>2. CASE ~ lines[i].text
              BY <3>1, <3>3, <5>4, <6>2 DEF NextOf
            <6>3. QED
              BY <6>1, <6>2
          <5>7. number = Len(steps') + 1
            BY <4>0, <5>1, <5>2, FlushedSteps DEF Reading
          <5>8. current'[1] = c /\ Len(current') = 1 /\ current' # <<>>
            BY <5>1
          <5>9. Len(steps') \in Nat /\ steps' \in Seq(StepRecords)
            BY <4>0, <5>1, FlushedSteps
          <5>10. seen' = 1..(Len(steps') + Len(current'))
            BY <4>0, <5>1, <5>7, <5>8, <5>9, FlushedSteps DEF Reading
          <5>11. expected' = Len(steps') + Len(current') + 1
            BY <5>1, <5>2, <5>7, <5>8, <5>9
          <5>12. ASSUME NEW l \in first'..(i' - 1), lines[l].kind # "blank"
                 PROVE  (\E k \in DOMAIN steps' : Holds(steps'[k], l)) \/ Holds(c, l)
            BY <4>0, <4>a, <5>1, <5>4, <5>12, FlushedSteps DEF Holds
          <5>13. \A k \in DOMAIN steps' : steps'[k].index = k /\ BlockIn(steps'[k], lines, first)
            BY <4>0, <5>1, FlushedSteps
          <5>14. QED
            BY <3>1, <5>1, <5>4, <5>5, <5>6, <5>7, <5>8, <5>9, <5>10, <5>11, <5>12, <5>13
               DEF Reading
        <4>2. CASE ReadBlank
          <5>1. /\ lines[i].kind = "blank" /\ steps' = Flushed /\ current' = <<>>
                /\ UNCHANGED <<expected, seen>>
            BY <4>2 DEF ReadBlank
          <5>2. /\ steps' \in Seq(StepRecords) /\ Len(current') = 0
                /\ Len(steps') + Len(current') = Len(steps) + Len(current)
                /\ \A k \in DOMAIN steps' :
                       steps'[k].index = k /\ BlockIn(steps'[k], lines, first)
            BY <4>0, <5>1, FlushedSteps
          <5>3. \A l \in first'..(i' - 1) :
                    lines[l].kind # "blank" => \E k \in DOMAIN steps' : Holds(steps'[k], l)
            BY <4>0, <4>a, <5>1, FlushedSteps
          <5>4. QED
            BY <3>1, <4>0, <5>1, <5>2, <5>3 DEF Reading
        <4>3. CASE ReadOther
          <5>1. /\ lines[i].kind # "blank"
                /\ current # <<>> /\ current' = <<[current[1] EXCEPT !.text = Append(@, i)]>>
                /\ UNCHANGED <<steps, expected, seen>>
            BY <3>4, <4>3 DEF ReadOther
          <5>2. PICK c \in StepRecords : current = <<c>>
            BY <4>0, <5>1 DEF Reading
          <5> DEFINE d == [c EXCEPT !.text = Append(@, i)]
          <5>3. /\ d \in StepRecords /\ d.index = c.index /\ d.source_line = c.source_line
                /\ d.text = Append(c.text, i) /\ c.text \in Seq(Nat) /\ c.source_line \in Nat
            <6>1. c.text \in Seq(Nat) /\ Append(c.text, i) \in Seq(Nat)
              BY <3>3 DEF StepRecords
            <6>2. QED
              BY <6>1 DEF StepRecords
          <5>4. /\ current' = <<d>> /\ current'[1] = d /\ current[1] = c
                /\ Len(current') = 1 /\ Len(current) = 1
            BY <5>1, <5>2
          <5>5. /\ c.index = Len(steps) + 1 /\ BlockIn(c, lines, first)
                /\ i = NextOf(c, lines)
            BY <4>0, <5>1, <5>4 DEF Reading
          <5>6. /\ Len(d.text) = Len(c.text) + 1 /\ d.text[Len(c.text) + 1] = i
                /\ DOMAIN d.text = DOMAIN c.text \cup {Len(c.text) + 1}
                /\ \A j \in DOMAIN c.text : d.text[j] = c.text[j]
                /\ Len(c.text) \in Nat
            BY <3>3, <5>3
          <5> HIDE DEF d
          <5>7. BlockIn(d, lines, first)
            <6>1. i = c.source_line + (Len(c.text) + 1)
                        - (IF lines[c.source_line].text THEN 1 ELSE 0)
              <7>1. lines[c.source_line].text \in BOOLEAN
                BY <2>0, <3>3, <5>5 DEF BlockIn, Line
              <7>2. CASE lines[c.source_line].text
                BY <5>3, <5>5, <5>6, <7>2 DEF NextOf
              <7>3. CASE ~ lines[c.source_line].text
                BY <5>3, <5>5, <5>6, <7>3 DEF NextOf
              <7>4. QED
                BY <7>1, <7>2, <7>3
            <6>2. ASSUME NEW j \in DOMAIN d.text
                  PROVE  /\ d.text[j] = d.source_line + j
                                          - (IF lines[d.source_line].text THEN 1 ELSE 0)
                         /\ d.text[j] \in first..Len(lines)
                         /\ lines[d.text[j]].kind # "blank"
              <7>1. CASE j \in DOMAIN c.text
                BY <5>3, <5>5, <5>6, <7>1 DEF BlockIn
              <7>2. CASE j = Len(c.text) + 1
                BY <3>3, <5>1, <5>3, <5>6, <6>1, <7>2
              <7>3. QED
                BY <5>6, <7>1, <7>2
            <6>3. QED
              BY <5>3, <5>5, <6>2 DEF BlockIn
          <5>8. i' = NextOf(d, lines)
            <6>1. NextOf(d, lines) = NextOf(c, lines) + 1
              <7>1. /\ NextOf(d, lines) = c.source_line + (Len(c.text) + 1)
                                             + (IF lines[c.source_line].text THEN 0 ELSE 1)
                    /\ NextOf(c, lines) = c.source_line + Len(c.text)
                                             + (IF lines[c.source_line].text THEN 0 ELSE 1)
                BY <5>3, <5>6 DEF NextOf
              <7>2. Len(c.text) \in Nat /\ c.source_line \in Nat
                BY <5>3, <5>6
              <7>3. CASE lines[c.source_line].text
                BY <7>1, <7>2, <7>3
              <7>4. CASE ~ lines[c.source_line].text
                BY <7>1, <7>2, <7>4
              <7>5. QED
                BY <7>3, <7>4
            <6>2. QED
              BY <3>1, <5>5, <6>1
          <5>9. \A l : Holds(c, l) \/ l = i => Holds(d, l)
            BY <5>3, <5>6 DEF Holds
          <5>10. ASSUME NEW l \in first'..(i' - 1), lines[l].kind # "blank"
                 PROVE  (\E k \in DOMAIN steps' : Holds(steps'[k], l)) \/ Holds(d, l)
            BY <4>0, <4>a, <5>1, <5>4, <5>9, <5>10 DEF Reading
          <5>11. steps' \in Seq(StepRecords) /\ current' # <<>>
                 /\ expected' = Len(steps') + Len(current') + 1
                 /\ seen' = 1..(Len(steps') + Len(current'))
                 /\ \A k \in DOMAIN steps' :
                        steps'[k].index = k /\ BlockIn(steps'[k], lines, first)
            BY <4>0, <5>1, <5>4 DEF Reading
          <5>12. QED
            BY <3>1, <5>1, <5>3, <5>4, <5>5, <5>7, <5>8, <5>10, <5>11 DEF Reading
        <4>4. QED
          BY <2>5, <4>1, <4>2, <4>3
      <3>5. pc' = "steps" /\ titleFailed' => errors' # {}
        BY <1>2, <3>1 DEF WholeInv
      <3>6. QED
        BY <3>2, <3>4, <3>5 DEF WholeInv, AcceptedIsWhole, Accepted
    <2>6. CASE Finish
      <3>1. /\ pc = "steps" /\ pc' = "done" /\ steps' = Flushed /\ errors \subseteq errors'
            /\ UNCHANGED <<call, first, i>> /\ lines' = lines /\ i >= End
            /\ outcome' = Accepted => errors' = {}
            /\ ~ titleFailed /\ errors' = {} => steps' # <<>>
        BY <2>6 DEF Finish, lines, Accepted, Rejected
      <3>2. ASSUME outcome' = Accepted
            PROVE  /\ steps' # <<>>
                   /\ \A k \in DOMAIN steps' :
                          steps'[k].index = k /\ BlockIn(steps'[k], lines, first)
                   /\ \A l \in first..Len(lines) :
                          lines[l].kind # "blank" => \E k \in DOMAIN steps' : Holds(steps'[k], l)
        <4>1. errors' = {} /\ errors = {} /\ Reading /\ ~ titleFailed
          BY <1>2, <3>1, <3>2 DEF WholeInv
        <4>2. i - 1 = Len(lines)
          BY <1>2, <2>0, <3>1 DEF Position
        <4>3. QED
          BY <3>1, <4>1, <4>2, FlushedSteps
      <3>3. AcceptedIsWhole'
        BY <3>1, <3>2 DEF AcceptedIsWhole, IsBlock, BlockIn, Holds, Accepted
      <3>4. QED
        BY <3>1, <3>3 DEF WholeInv
    <2>7. CASE UNCHANGED vars
      <3>1. /\ UNCHANGED <<pc, i, first, titleFailed, steps, current, expected, seen, errors, outcome>>
            /\ lines' = lines
        BY <2>7 DEF vars, lines
      <3>2. Reading => Reading'
        BY <3>1 DEF Reading
      <3>3. AcceptedIsWhole => AcceptedIsWhole'
        BY <3>1 DEF AcceptedIsWhole, IsBlock, Accepted
      <3>4. QED
        BY <1>2, <3>1, <3>2, <3>3 DEF WholeInv, Accepted
    <2>8. QED
      BY <1>2, <2>1, <2>2, <2>3, <2>4, <2>5, <2>6, <2>7 DEF Next
  <1>3. QED
    BY <1>1, <1>2, PositionInvariant, PTL DEF Spec

\* An accepted file of any length has been read whole and in order.
THEOREM AcceptedFilesAreWhole == Spec => []AcceptedIsWhole
  <1>1. WholeInv => AcceptedIsWhole
    BY DEF WholeInv
  <1>2. QED
    BY <1>1, WholeInvariant, PTL


-----------------------------------------------------------------------------
(* What the diagnostics say of the lines that have been read. *)

\* An item above line l, with no blank line in between.
Open(l) == \E k \in Items(first) : k < l /\ \A m \in k..(l - 1) : lines[m].kind # "blank"

Repeated(l)   == ~ Fresh(l)
OutOfTurn(l)  == Fresh(l) /\ lines[l].number # FreshBefore(l) + 1
Stray(l)      == lines[l].kind \notin {"item", "blank"} /\ ~ Open(l)

Body == first..Len(lines)

\* The diagnostics of the body are those of the lines read so far; the numbers that
\* have been seen are theirs; a step is open where the lines above say so.
Scanned ==
    /\ seen = {lines[k].number : k \in {l \in Items(first) : l < i}}
    /\ expected = FreshBefore(i) + 1
    /\ current # <<>> <=> Open(i)

Diagnosed ==
    /\ Complaints(<<"step", "duplicate">>) = {l \in Items(first) : l < i /\ Repeated(l)}
    /\ Complaints(<<"step", "out_of_sequence">>) = {l \in Items(first) : l < i /\ OutOfTurn(l)}
    /\ Complaints(<<"body", "unexpected">>) = {l \in Body : l < i /\ Stray(l)}

BodyErrors == {<<"step", "duplicate">>, <<"step", "out_of_sequence">>, <<"body", "unexpected">>}

\* Line t is the title of the file.
Heads(t) ==
    \E l \in Closing :
        /\ \A k \in Closing : l <= k
        /\ l < t /\ t \in 1..Len(lines)
        /\ \A k \in (l + 1)..(t - 1) : lines[k].kind = "blank"
        /\ lines[t].kind = "title" /\ lines[t].text

FieldsAreValid == \A f \in Fields : Field(call.yaml, f) = "valid"

ScanInv ==
    /\ pc \in {"start", "frontmatter"} => errors = {}
    /\ pc = "start" => i = 1
    /\ pc \in {"frontmatter", "title"} => i \in Closing /\ \A k \in Closing : i <= k
    /\ pc # "start" /\ pc # "done" => Opens /\ call.check /\ call.path = "text"
    /\ pc \in {"title", "steps"} =>
           /\ FrontmatterErrors(call.yaml) \subseteq errors
           /\ \A e \in errors : \/ e \in FrontmatterErrors(call.yaml) \/ e.what \in BodyErrors
                                \/ titleFailed
    /\ pc = "title" => errors = FrontmatterErrors(call.yaml)
    /\ pc = "steps" =>
           /\ Scanned /\ Diagnosed
           /\ titleFailed => errors # {} /\ \A t \in 1..Len(lines) : ~ Heads(t)
           /\ ~ titleFailed => Heads(first - 1)
    /\ pc # "done" => outcome = Running
    /\ pc = "done" /\ outcome.how \in {"accepted", "rejected"} /\ i > 1 =>
           Diagnosed /\ i >= End

\* The types that the lemmas below need: a file and its first line of steps.
Placed == lines \in Seq(Line) /\ first \in Nat \ {0}

\* At the steps, the index is between the first of their lines and the end.
LEMMA PlacedHere ==
  ASSUME Position, pc = "steps"
  PROVE  /\ Placed /\ Len(lines) \in Nat /\ End = Len(lines) + 1
         /\ i \in first..End /\ i \in Nat \ {0}
  <1>1. lines \in Seq(Line) /\ Len(lines) \in Nat /\ End = Len(lines) + 1
    BY LinesType DEF Position
  <1>2. first \in 1..End /\ i \in first..End
    BY DEF Position
  <1>3. QED
    BY <1>1, <1>2 DEF Placed

\* An item is a line of the file, and has a number.
LEMMA ItemsHere ==
  ASSUME Placed, NEW l \in Items(first)
  PROVE  /\ l \in first..Len(lines) /\ l \in 1..Len(lines) /\ l \in Nat
         /\ lines[l].kind = "item" /\ lines[l].number \in Nat
  <1>1. l \in first..Len(lines) /\ lines[l].kind = "item" /\ first \in Nat \ {0} /\ Len(lines) \in Nat
    BY DEF Items, Placed
  <1>2. l \in 1..Len(lines)
    BY <1>1
  <1>3. lines[l] \in Line
    BY <1>2 DEF Placed
  <1>4. lines[l].number \in Nat
    BY <1>1, <1>3 DEF Line
  <1>5. QED
    BY <1>1, <1>2, <1>4

\* The number that a fresh item is compared with, where no fresh item comes before.
LEMMA FreshBeforeFirst ==
  ASSUME Placed
  PROVE  FreshBefore(first) = 0
  <1>1. {k \in Items(first) : k < first /\ Fresh(k)} = {}
    <2>1. \A k \in Items(first) : k \in first..Len(lines)
      BY DEF Items
    <2>2. \A k \in Items(first) : ~ (k < first)
      BY <2>1 DEF Placed
    <2>3. QED
      BY <2>2
  <1>2. QED
    BY <1>1 DEF FreshBefore

\* And after one more line.
LEMMA FreshBeforeNext ==
  ASSUME Placed, NEW l \in first..Len(lines)
  PROVE  FreshBefore(l + 1) = IF l \in Items(first) /\ Fresh(l) THEN lines[l].number ELSE FreshBefore(l)
  <1> DEFINE above == {k \in Items(first) : k < l /\ Fresh(k)}
             next == {k \in Items(first) : k < l + 1 /\ Fresh(k)}
  <1>1. l \in Nat /\ \A k \in Items(first) : k \in Nat
    BY ItemsHere DEF Placed
  <1>2. CASE l \in Items(first) /\ Fresh(l)
    <2>1. l \in next /\ \A k \in next : k <= l
      BY <1>1, <1>2
    <2>2. \A k \in next : (\A m \in next : m <= k) => k = l
      <3> HIDE DEF next
      <3>1. \A k \in next : k \in Nat
        BY <1>1 DEF next
      <3>2. QED
        BY <1>1, <2>1, <3>1
    <2> HIDE DEF next
    <2>3. (CHOOSE k \in next : \A m \in next : m <= k) = l
      BY <2>1, <2>2
    <2>4. FreshBefore(l + 1) = IF next = {} THEN 0
                               ELSE lines[CHOOSE k \in next : \A m \in next : m <= k].number
      BY DEF FreshBefore, next
    <2>5. QED
      BY <1>2, <2>1, <2>3, <2>4
  <1>3. CASE ~ (l \in Items(first) /\ Fresh(l))
    <2>1. next = above
      BY <1>1, <1>3
    <2>2. /\ FreshBefore(l + 1) = IF next = {} THEN 0
                                  ELSE lines[CHOOSE k \in next : \A m \in next : m <= k].number
          /\ FreshBefore(l) = IF above = {} THEN 0
                              ELSE lines[CHOOSE k \in above : \A m \in above : m <= k].number
      BY DEF FreshBefore
    <2> HIDE DEF next, above
    <2>3. QED
      BY <1>3, <2>1, <2>2
  <1>4. QED
    BY <1>2, <1>3

\* Whether a step is open after one more line depends on that line.
LEMMA OpenNext ==
  ASSUME Placed, NEW l \in first..Len(lines)
  PROVE  /\ lines[l].kind = "item" => Open(l + 1)
         /\ lines[l].kind = "blank" => ~ Open(l + 1)
         /\ lines[l].kind \notin {"item", "blank"} => (Open(l + 1) <=> Open(l))
  <1>1. l \in Nat /\ \A k \in Items(first) : k \in Nat
    BY ItemsHere DEF Placed
  <1>2. \A k \in Nat : k < l + 1 <=> k < l \/ k = l
    BY <1>1
  <1>3. (l + 1) - 1 = l
    BY <1>1
  <1>4. CASE lines[l].kind = "item"
    <2>1. l \in Items(first) /\ l < l + 1
      BY <1>1, <1>4 DEF Items
    <2>2. \A m \in l..((l + 1) - 1) : lines[m].kind # "blank"
      BY <1>1, <1>4
    <2>3. QED
      BY <1>4, <2>1, <2>2 DEF Open
  <1>5. CASE lines[l].kind = "blank"
    <2>1. ASSUME NEW k \in Items(first), k < l + 1
          PROVE  l \in k..((l + 1) - 1)
      BY <1>1, <2>1
    <2>2. QED
      BY <1>5, <2>1 DEF Open
  <1>6. CASE lines[l].kind \notin {"item", "blank"}
    <2>1. \A k \in Items(first) : k # l
      BY <1>6 DEF Items
    <2>2. ASSUME NEW k \in Items(first), k < l
          PROVE  k..((l + 1) - 1) = k..(l - 1) \cup {l}
      BY <1>1, <2>2
    <2>3. \A k \in Items(first) :
             k < l => ((\A m \in k..((l + 1) - 1) : lines[m].kind # "blank")
                           <=> (\A m \in k..(l - 1) : lines[m].kind # "blank"))
      BY <1>6, <2>2
    <2>4. \A k \in Items(first) : k < l + 1 <=> k < l
      BY <1>1, <1>2, <2>1
    <2>5. QED
      BY <1>6, <2>3, <2>4 DEF Open
  <1>7. QED
    BY <1>4, <1>5, <1>6

\* Nothing is open where nothing has been read.
LEMMA OpenFirst ==
  ASSUME Placed
  PROVE  ~ Open(first)
  <1>1. \A k \in Items(first) : k \in first..Len(lines)
    BY DEF Items
  <1>2. \A k \in Items(first) : ~ (k < first)
    BY <1>1 DEF Placed
  <1>3. QED
    BY <1>2 DEF Open

\* New diagnostics are complaints of what they say.
LEMMA ComplaintsAdd ==
  ASSUME NEW D, errors' = errors \cup D, NEW w
  PROVE  Complaints(w)' = Complaints(w) \cup {e.line : e \in {d \in D : d.what = w}}
  BY DEF Complaints


\* Reading a line leaves the file and what is said of its lines alone.
LEMMA SameFile ==
  ASSUME UNCHANGED <<call, first>>
  PROVE  /\ lines' = lines /\ End' = End /\ Body' = Body /\ Items(first)' = Items(first)
         /\ \A l : /\ Fresh(l)' = Fresh(l) /\ FreshBefore(l)' = FreshBefore(l) /\ Open(l)' = Open(l)
                   /\ Repeated(l)' = Repeated(l) /\ OutOfTurn(l)' = OutOfTurn(l) /\ Stray(l)' = Stray(l)
         /\ \A t : Heads(t)' = Heads(t)
         /\ FrontmatterErrors(call.yaml)' = FrontmatterErrors(call.yaml)
  <1>1. lines' = lines
    BY DEF lines
  <1>2. End' = End /\ Body' = Body /\ Items(first)' = Items(first) /\ Closing' = Closing
    BY <1>1 DEF End, Body, Items, Closing
  <1>3. \A l : Fresh(l)' = Fresh(l) /\ Open(l)' = Open(l)
    BY <1>1, <1>2 DEF Fresh, Open
  <1>4. ASSUME NEW l
        PROVE  FreshBefore(l)' = FreshBefore(l)
    <2> DEFINE above == {k \in Items(first) : k < l /\ Fresh(k)}
    <2>1. above' = above
      BY <1>2, <1>3
    <2>2. FreshBefore(l) = IF above = {} THEN 0
                           ELSE lines[CHOOSE k \in above : \A m \in above : m <= k].number
      BY DEF FreshBefore
    <2>3. FreshBefore(l)' = IF above' = {} THEN 0
                            ELSE lines'[CHOOSE k \in above' : \A m \in above' : m <= k].number
      BY DEF FreshBefore
    <2> HIDE DEF above
    <2>4. QED
      BY <1>1, <2>1, <2>2, <2>3
  <1>5. \A l : Repeated(l)' = Repeated(l) /\ OutOfTurn(l)' = OutOfTurn(l) /\ Stray(l)' = Stray(l)
    BY <1>1, <1>3, <1>4 DEF Repeated, OutOfTurn, Stray
  <1>6. \A t : Heads(t)' = Heads(t)
    BY <1>1, <1>2 DEF Heads
  <1>7. FrontmatterErrors(call.yaml)' = FrontmatterErrors(call.yaml)
    BY DEF FrontmatterErrors, Field
  <1>8. QED
    BY <1>1, <1>2, <1>3, <1>4, <1>5, <1>6, <1>7

\* A line of the steps keeps the count of what has been read.
LEMMA ScannedStep ==
  ASSUME Position, pc = "steps", Scanned, ReadItem \/ ReadBlank \/ ReadOther
  PROVE  Scanned'
  <1>1. /\ i < End /\ i' = i + 1 /\ UNCHANGED <<call, first>>
    BY DEF ReadItem, ReadBlank, ReadOther
  <1>2. /\ Placed /\ i \in first..Len(lines) /\ i \in Nat
        /\ \A k \in Items(first) : k \in Nat /\ lines[k].number \in Nat
    BY <1>1, PlacedHere, ItemsHere
  <1>3. lines' = lines /\ Items(first)' = Items(first) /\ \A l : FreshBefore(l)' = FreshBefore(l) /\ Open(l)' = Open(l)
    BY <1>1, SameFile
  <1> DEFINE numbers(n) == {lines[k].number : k \in {l \in Items(first) : l < n}}
  <1>4. \A k \in Items(first) : k < i + 1 <=> k < i \/ k = i
    BY <1>2
  <1>5. CASE ReadItem
    <2> DEFINE number == lines[i].number
    <2>1. /\ lines[i].kind = "item" /\ i \in Items(first)
          /\ seen' = seen \cup {number} /\ current' # <<>>
          /\ expected' = IF number \in seen THEN expected ELSE number + 1
      BY <1>2, <1>5 DEF ReadItem, Items
    <2>2. number \in seen <=> ~ Fresh(i)
      BY <2>1 DEF Scanned, Fresh
    <2>3. numbers(i + 1) = numbers(i) \cup {number}
      BY <1>4, <2>1
    <2>4. seen' = numbers(i + 1)
      BY <2>1, <2>3 DEF Scanned
    <2>5. expected' = FreshBefore(i + 1) + 1
      BY <1>2, <2>1, <2>2, FreshBeforeNext DEF Scanned
    <2>6. current' # <<>> <=> Open(i + 1)
      BY <1>2, <2>1, OpenNext
    <2>7. QED
      BY <1>1, <1>3, <2>4, <2>5, <2>6 DEF Scanned
  <1>6. CASE ReadBlank \/ ReadOther
    <2>1. lines[i].kind # "item" /\ i \notin Items(first) /\ seen' = seen /\ expected' = expected
      BY <1>6 DEF ReadBlank, ReadOther, Items
    <2>2. numbers(i + 1) = numbers(i)
      BY <1>4, <2>1
    <2>3. seen' = numbers(i + 1) /\ expected' = FreshBefore(i + 1) + 1
      BY <1>2, <2>1, <2>2, FreshBeforeNext DEF Scanned
    <2>4. current' # <<>> <=> Open(i + 1)
      <3>1. CASE ReadBlank
        <4>1. lines[i].kind = "blank" /\ current' = <<>>
          BY <3>1 DEF ReadBlank
        <4>2. QED
          BY <1>2, <4>1, OpenNext
      <3>2. CASE ReadOther
        <4>1. lines[i].kind \notin {"item", "blank"} /\ (current' # <<>> <=> current # <<>>)
          BY <3>2 DEF ReadOther
        <4>2. QED
          BY <1>2, <4>1, OpenNext DEF Scanned
      <3>3. QED
        BY <1>6, <3>1, <3>2
    <2>5. QED
      BY <1>1, <1>3, <2>3, <2>4 DEF Scanned
  <1>7. QED
    BY <1>5, <1>6

\* A line of the steps is reported for what is wrong with it, and for nothing else.
LEMMA DiagnosedStep ==
  ASSUME Position, pc = "steps", Scanned, Diagnosed, ReadItem \/ ReadBlank \/ ReadOther
  PROVE  Diagnosed'
  <1>1. /\ i < End /\ i' = i + 1 /\ UNCHANGED <<call, first>>
    BY DEF ReadItem, ReadBlank, ReadOther
  <1>2. /\ Placed /\ i \in first..Len(lines) /\ i \in Nat
        /\ \A k \in Items(first) : k \in Nat /\ lines[k].number \in Nat
        /\ \A k \in Body : k \in Nat
    BY <1>1, PlacedHere, ItemsHere DEF Placed, Body
  <1>3. /\ Items(first)' = Items(first) /\ Body' = Body
        /\ \A l : Repeated(l)' = Repeated(l) /\ OutOfTurn(l)' = OutOfTurn(l) /\ Stray(l)' = Stray(l)
    BY <1>1, SameFile
  <1>4. /\ \A k \in Items(first) : k < i + 1 <=> k < i \/ k = i
        /\ \A k \in Body : k < i + 1 <=> k < i \/ k = i
    BY <1>2
  <1>5. i \in Body /\ (i \in Items(first) <=> lines[i].kind = "item")
    BY <1>2 DEF Body, Items
  <1> DEFINE D == IF ReadItem THEN Numbering(lines[i].number)
                  ELSE IF ReadOther /\ current = <<>> THEN {Diagnostic(<<"body", "unexpected">>, i)}
                  ELSE {}
             At(w) == {e.line : e \in {d \in D : d.what = w}}
  <1>6. errors' = errors \cup D
    BY DEF ReadItem, ReadBlank, ReadOther
  <1>7. \A what, l : Diagnostic(what, l).what = what /\ Diagnostic(what, l).line = l
    BY DEF Diagnostic
  <1>8. /\ <<"step", "duplicate">> # <<"step", "out_of_sequence">>
        /\ <<"step", "duplicate">> # <<"body", "unexpected">>
        /\ <<"step", "out_of_sequence">> # <<"body", "unexpected">>
    OBVIOUS
  <1>9. /\ At(<<"step", "duplicate">>) = IF i \in Items(first) /\ Repeated(i) THEN {i} ELSE {}
        /\ At(<<"step", "out_of_sequence">>) = IF i \in Items(first) /\ OutOfTurn(i) THEN {i} ELSE {}
        /\ At(<<"body", "unexpected">>) = IF Stray(i) THEN {i} ELSE {}
    <2>1. CASE ReadItem
      <3>1. lines[i].kind = "item" /\ ~ Stray(i) /\ i \in Items(first)
        BY <1>5, <2>1 DEF ReadItem, Stray
      <3>2. lines[i].number \in seen <=> Repeated(i)
        BY <3>1 DEF Scanned, Fresh, Repeated
      <3>3. Repeated(i) \/ (lines[i].number # expected <=> OutOfTurn(i))
        BY DEF Scanned, Repeated, OutOfTurn
      <3>4. OutOfTurn(i) => ~ Repeated(i)
        BY DEF Repeated, OutOfTurn
      <3>5. D = IF Repeated(i) THEN {Diagnostic(<<"step", "duplicate">>, i)}
                ELSE IF OutOfTurn(i) THEN {Diagnostic(<<"step", "out_of_sequence">>, i)}
                ELSE {}
        BY <2>1, <3>2, <3>3 DEF Numbering
      <3> HIDE DEF D
      <3>6. CASE Repeated(i)
        BY <1>7, <1>8, <3>1, <3>4, <3>5, <3>6
      <3>7. CASE ~ Repeated(i) /\ OutOfTurn(i)
        BY <1>7, <1>8, <3>1, <3>5, <3>7
      <3>8. CASE ~ Repeated(i) /\ ~ OutOfTurn(i)
        BY <3>1, <3>5, <3>8
      <3>9. QED
        BY <3>6, <3>7, <3>8
    <2>2. CASE ReadBlank
      <3>1. lines[i].kind = "blank" /\ ~ Stray(i) /\ i \notin Items(first)
        BY <1>5, <2>2 DEF ReadBlank, Stray
      <3>2. D = {}
        BY <3>1 DEF ReadItem, ReadOther
      <3> HIDE DEF D
      <3>3. QED
        BY <3>1, <3>2
    <2>3. CASE ReadOther
      <3>1. lines[i].kind \notin {"item", "blank"} /\ i \notin Items(first)
            /\ (Stray(i) <=> current = <<>>)
        BY <1>5, <2>3 DEF ReadOther, Stray, Scanned
      <3>2. D = IF Stray(i) THEN {Diagnostic(<<"body", "unexpected">>, i)} ELSE {}
        BY <2>3, <3>1 DEF ReadItem
      <3> HIDE DEF D
      <3>3. QED
        BY <1>7, <1>8, <3>1, <3>2
    <2>4. QED
      BY <2>1, <2>2, <2>3
  <1>10. \A w : Complaints(w)' = Complaints(w) \cup At(w)
    BY <1>6, ComplaintsAdd
  <1> HIDE DEF D, At
  <1>11. /\ {l \in Items(first) : l < i + 1 /\ Repeated(l)}
              = {l \in Items(first) : l < i /\ Repeated(l)}
                    \cup (IF i \in Items(first) /\ Repeated(i) THEN {i} ELSE {})
         /\ {l \in Items(first) : l < i + 1 /\ OutOfTurn(l)}
              = {l \in Items(first) : l < i /\ OutOfTurn(l)}
                    \cup (IF i \in Items(first) /\ OutOfTurn(i) THEN {i} ELSE {})
         /\ {l \in Body : l < i + 1 /\ Stray(l)}
              = {l \in Body : l < i /\ Stray(l)} \cup (IF Stray(i) THEN {i} ELSE {})
    <2>1. {l \in Items(first) : l < i + 1 /\ Repeated(l)}
              = {l \in Items(first) : l < i /\ Repeated(l)}
                    \cup (IF i \in Items(first) /\ Repeated(i) THEN {i} ELSE {})
      BY <1>4
    <2>2. {l \in Items(first) : l < i + 1 /\ OutOfTurn(l)}
              = {l \in Items(first) : l < i /\ OutOfTurn(l)}
                    \cup (IF i \in Items(first) /\ OutOfTurn(i) THEN {i} ELSE {})
      BY <1>4
    <2>3. {l \in Body : l < i + 1 /\ Stray(l)}
              = {l \in Body : l < i /\ Stray(l)} \cup (IF Stray(i) THEN {i} ELSE {})
      BY <1>4, <1>5
    <2>4. QED
      BY <2>1, <2>2, <2>3
  <1>12. /\ Complaints(<<"step", "duplicate">>)' = {l \in Items(first) : l < i + 1 /\ Repeated(l)}
         /\ Complaints(<<"step", "out_of_sequence">>)' = {l \in Items(first) : l < i + 1 /\ OutOfTurn(l)}
         /\ Complaints(<<"body", "unexpected">>)' = {l \in Body : l < i + 1 /\ Stray(l)}
    BY <1>9, <1>10, <1>11 DEF Diagnosed
  <1>13. QED
    BY <1>1, <1>3, <1>12 DEF Diagnosed


\* Where the steps begin nothing has been read.
LEMMA NothingRead ==
  Placed /\ i = first /\ seen = {} /\ expected = 1 /\ current = <<>>
         /\ (\A e \in errors : e.what \notin BodyErrors)
      => Scanned /\ Diagnosed
  <1> SUFFICES ASSUME Placed, i = first, seen = {}, expected = 1, current = <<>>,
                      \A e \in errors : e.what \notin BodyErrors
               PROVE  Scanned /\ Diagnosed
    OBVIOUS
  <1>1. \A l \in Items(first) \cup Body : ~ (l < i)
    <2>1. \A l \in Items(first) \cup Body : l \in first..Len(lines)
      BY DEF Items, Body
    <2>2. QED
      BY <2>1 DEF Placed
  <1>2. Scanned
    <2>1. {l \in Items(first) : l < i} = {}
      BY <1>1
    <2>2. seen = {lines[k].number : k \in {l \in Items(first) : l < i}}
      BY <2>1
    <2>3. QED
      BY <2>2, FreshBeforeFirst, OpenFirst DEF Scanned
  <1>3. \A w \in BodyErrors : Complaints(w) = {}
    BY DEF Complaints
  <1>4. Diagnosed
    BY <1>1, <1>3 DEF Diagnosed, BodyErrors
  <1>5. QED
    BY <1>2, <1>4

\* The diagnostics of the frontmatter and of the title are no diagnostics of the steps.
LEMMA OtherErrors ==
  /\ \A e \in FrontmatterErrors(call.yaml) : e.what \notin BodyErrors
  /\ \A w, l : Diagnostic(<<"title", w>>, l).what \notin BodyErrors
  /\ \A l : Diagnostic(<<"body", "no_steps">>, l).what \notin BodyErrors
  <1>1. \A what, l : Diagnostic(what, l).what = what
    BY DEF Diagnostic
  <1>2. \A w : /\ <<"frontmatter", w>> \notin BodyErrors /\ <<"missing", w>> \notin BodyErrors
               /\ <<"invalid", w>> \notin BodyErrors /\ <<"title", w>> \notin BodyErrors
    BY DEF BodyErrors
  <1>3. <<"body", "no_steps">> \notin BodyErrors
    BY DEF BodyErrors
  <1>4. \A e \in FrontmatterErrors(call.yaml) :
           \E w, l : \/ e = Diagnostic(<<"frontmatter", w>>, l) \/ e = Diagnostic(<<"missing", w>>, l)
                     \/ e = Diagnostic(<<"invalid", w>>, l)
    BY DEF FrontmatterErrors
  <1>5. ASSUME NEW e \in FrontmatterErrors(call.yaml)
        PROVE  e.what \notin BodyErrors
    <2>1. PICK w, l : \/ e = Diagnostic(<<"frontmatter", w>>, l) \/ e = Diagnostic(<<"missing", w>>, l)
                      \/ e = Diagnostic(<<"invalid", w>>, l)
      BY <1>4
    <2>2. CASE e = Diagnostic(<<"frontmatter", w>>, l)
      BY <1>1, <1>2, <2>2
    <2>3. CASE e = Diagnostic(<<"missing", w>>, l)
      BY <1>1, <1>2, <2>3
    <2>4. CASE e = Diagnostic(<<"invalid", w>>, l)
      BY <1>1, <1>2, <2>4
    <2>5. QED
      BY <2>1, <2>2, <2>3, <2>4
  <1>6. QED
    BY <1>1, <1>2, <1>3, <1>5

\* The title that the parser looks for is the one the grammar has.
LEMMA TitleHeads ==
  ASSUME Position, pc = "title", i \in Closing, \A k \in Closing : i <= k
  PROVE  /\ \A t : Heads(t) => t \in Title /\ lines[t].kind = "title" /\ lines[t].text
         /\ \A t \in Title : lines[t].kind = "title" /\ lines[t].text => Heads(t)
         /\ \A t, u \in Title : t = u
         /\ \A t \in Title : t \in 1..Len(lines)
  <1>1. /\ Len(lines) \in Nat /\ i \in 1..Len(lines) /\ \A k \in Closing : k \in 2..Len(lines)
    BY LinesType DEF Position, Closing
  <1>2. ASSUME NEW t, Heads(t)
        PROVE  t \in Title /\ lines[t].kind = "title" /\ lines[t].text
    <2>1. PICK l \in Closing :
             /\ \A k \in Closing : l <= k
             /\ l < t /\ t \in 1..Len(lines)
             /\ \A k \in (l + 1)..(t - 1) : lines[k].kind = "blank"
             /\ lines[t].kind = "title" /\ lines[t].text
      BY <1>2 DEF Heads
    <2>2. l = i
      BY <1>1, <2>1
    <2>3. t \in (i + 1)..Len(lines)
      BY <1>1, <2>1, <2>2
    <2>4. QED
      BY <2>1, <2>2, <2>3 DEF Title
  <1>3. \A t \in Title : t \in 1..Len(lines) /\ i < t
    BY <1>1 DEF Title
  <1>4. \A t \in Title : lines[t].kind = "title" /\ lines[t].text => Heads(t)
    BY <1>3 DEF Heads, Title
  <1>5. ASSUME NEW t \in Title, NEW u \in Title, t < u
        PROVE  FALSE
    <2>1. t \in (i + 1)..(u - 1) /\ lines[t].kind # "blank"
      BY <1>1, <1>3, <1>5 DEF Title
    <2>2. \A k \in (i + 1)..(u - 1) : lines[k].kind = "blank"
      BY DEF Title
    <2>3. QED
      BY <2>1, <2>2
  <1>6. \A t, u \in Title : t \in Nat /\ u \in Nat /\ ~ (t < u) /\ ~ (u < t)
    BY <1>1, <1>3, <1>5
  <1>7. \A t, u \in Title : t = u
    BY <1>6
  <1>8. QED
    BY <1>2, <1>3, <1>4, <1>7

\* What has to hold once the title has been looked for.
LEMMA TitleStep ==
  ASSUME Position, Position', ScanInv, FindTitle
  PROVE  ScanInv'
  <1>1. /\ pc = "title" /\ pc' = "steps" /\ i' = first' /\ call' = call
        /\ UNCHANGED <<steps, current, expected, seen, outcome>>
        /\ ~ titleFailed /\ current = <<>> /\ expected = 1 /\ seen = {}
        /\ i \in Closing /\ (\A k \in Closing : i <= k) /\ Opens /\ call.check /\ call.path = "text"
        /\ errors = FrontmatterErrors(call.yaml) /\ outcome = Running
    BY DEF FindTitle, Position, ScanInv
  <1>2. lines' = lines /\ Closing' = Closing /\ (Opens' <=> Opens) /\ (\A t : Heads(t)' = Heads(t))
        /\ FrontmatterErrors(call.yaml)' = FrontmatterErrors(call.yaml)
    BY <1>1 DEF lines, Closing, Opens, Heads, FrontmatterErrors, Field
  <1>3. /\ errors \subseteq errors'
        /\ \A e \in errors' : e \in errors \/ (titleFailed' /\ \E w, l : e = Diagnostic(<<"title", w>>, l))
        /\ titleFailed' => errors' # {}
        /\ titleFailed' = TRUE \/ titleFailed' = titleFailed
    <2>1. \/ titleFailed' = TRUE /\ \E w, l : errors' = errors \cup {Diagnostic(<<"title", w>>, l)}
          \/ UNCHANGED <<errors, titleFailed>>
      BY <1>1 DEF FindTitle
    <2>2. CASE titleFailed' = TRUE /\ \E w, l : errors' = errors \cup {Diagnostic(<<"title", w>>, l)}
      BY <2>2
    <2>3. CASE UNCHANGED <<errors, titleFailed>>
      BY <1>1, <2>3
    <2>4. QED
      BY <2>1, <2>2, <2>3
  <1>4. /\ titleFailed' => \A t \in 1..Len(lines) : ~ Heads(t)
        /\ ~ titleFailed' => Heads(first' - 1)
    <2>1. /\ \A t : Heads(t) => t \in Title /\ lines[t].kind = "title" /\ lines[t].text
          /\ \A t \in Title : lines[t].kind = "title" /\ lines[t].text => Heads(t)
          /\ \A t, u \in Title : t = u
          /\ \A t \in Title : t \in 1..Len(lines)
      BY <1>1, TitleHeads
    <2>2. CASE Title = {} /\ titleFailed'
      BY <2>1, <2>2
    <2>3. CASE \E l \in Title : lines[l].kind # "title" /\ titleFailed'
      BY <2>1, <2>3
    <2>4. CASE \E l \in Title : lines[l].kind = "title" /\ ~ lines[l].text /\ titleFailed'
      BY <2>1, <2>4
    <2>5. CASE \E l \in Title : /\ lines[l].kind = "title" /\ lines[l].text /\ first' = l + 1
                                /\ titleFailed' = titleFailed
      <3>1. PICK l \in Title : /\ lines[l].kind = "title" /\ lines[l].text /\ first' = l + 1
                               /\ titleFailed' = titleFailed
        BY <2>5
      <3>2. l \in Nat
        BY <2>1
      <3>3. first' - 1 = l
        BY <3>1, <3>2
      <3>4. Heads(l)
        BY <2>1, <3>1
      <3>5. QED
        BY <1>1, <3>1, <3>3, <3>4
    <2>6. QED
      BY <2>2, <2>3, <2>4, <2>5 DEF FindTitle
  <1>5. Scanned' /\ Diagnosed'
    <2>1. Placed'
      <3>1. lines' \in Seq(Line) /\ first' \in 1..End' /\ End' = Len(lines') + 1 /\ Len(lines') \in Nat
        BY <1>1, <1>2, LinesType DEF Position, End
      <3>2. QED
        BY <3>1 DEF Placed
    <2>2. \A e \in errors' : e.what \notin BodyErrors
      BY <1>1, <1>3, OtherErrors
    <2>3. BodyErrors' = BodyErrors
      BY DEF BodyErrors
    <2>4. (Placed /\ i = first /\ seen = {} /\ expected = 1 /\ current = <<>>
               /\ (\A e \in errors : e.what \notin BodyErrors))'
      BY <1>1, <2>1, <2>2, <2>3
    <2>5. QED
      BY <2>4, NothingRead, PTL
  <1>6. QED
    BY <1>1, <1>2, <1>3, <1>4, <1>5 DEF ScanInv

\* Every step of the parser keeps to it.
LEMMA ScanStep ==
  ASSUME Position, Position', ScanInv, [Next]_vars
  PROVE  ScanInv'
  <1>1. CASE Refuse
    BY <1>1 DEF Refuse, ScanInv, Refused
  <1>2. CASE FindFrontmatter
    <2>1. CASE pc' = "done"
      <3>1. i' = 1
        BY <1>2, <2>1 DEF FindFrontmatter, ScanInv
      <3>2. QED
        BY <2>1, <3>1 DEF ScanInv
    <2>2. CASE pc' # "done"
      <3>1. /\ pc = "start" /\ pc' = "frontmatter" /\ call' = call /\ errors' = errors
            /\ outcome' = outcome /\ Opens /\ call.check /\ call.path = "text"
            /\ i' \in Closing /\ \A k \in Closing : i' <= k
        BY <1>2, <2>2 DEF FindFrontmatter
      <3>2. Closing' = Closing /\ (Opens' <=> Opens)
        BY <3>1 DEF Closing, Opens, lines
      <3>3. QED
        BY <3>1, <3>2 DEF ScanInv
    <2>3. QED
      BY <2>1, <2>2
  <1>3. CASE CheckFrontmatter
    <2>1. CASE pc' = "done"
      BY <1>3, <2>1 DEF CheckFrontmatter, ScanInv, Traceback
    <2>2. CASE pc' # "done"
      <3>1. /\ pc = "frontmatter" /\ pc' = "title" /\ UNCHANGED <<call, i, outcome>>
            /\ errors' = FrontmatterErrors(call.yaml)
        BY <1>3, <2>2 DEF CheckFrontmatter
      <3>2. Closing' = Closing /\ (Opens' <=> Opens)
            /\ FrontmatterErrors(call.yaml)' = FrontmatterErrors(call.yaml)
        BY <3>1 DEF Closing, Opens, lines, FrontmatterErrors, Field
      <3>3. QED
        BY <3>1, <3>2 DEF ScanInv
    <2>3. QED
      BY <2>1, <2>2
  <1>4. CASE FindTitle
    BY <1>4, TitleStep
  <1>5. CASE ReadItem \/ ReadBlank \/ ReadOther
    <2>1. /\ pc = "steps" /\ UNCHANGED <<call, pc, first, titleFailed, outcome>>
          /\ errors \subseteq errors'
      BY <1>5 DEF ReadItem, ReadBlank, ReadOther
    <2>2. Scanned' /\ Diagnosed'
      BY <1>5, <2>1, ScannedStep, DiagnosedStep DEF ScanInv
    <2>3. \A e \in errors' : e \in errors \/ e.what \in BodyErrors
      <3>1. \A what, l : Diagnostic(what, l).what = what
        BY DEF Diagnostic
      <3>2. \A number : \A e \in Numbering(number) : e.what \in BodyErrors
        BY <3>1 DEF Numbering, BodyErrors
      <3>3. Diagnostic(<<"body", "unexpected">>, i).what \in BodyErrors
        BY <3>1 DEF BodyErrors
      <3>4. QED
        BY <1>5, <3>2, <3>3 DEF ReadItem, ReadBlank, ReadOther
    <2>4. /\ lines' = lines /\ \A t : Heads(t)' = Heads(t)
          /\ FrontmatterErrors(call.yaml)' = FrontmatterErrors(call.yaml)
          /\ (Opens' <=> Opens) /\ BodyErrors' = BodyErrors
      BY <2>1, SameFile DEF Opens, lines, BodyErrors
    <2>5. QED
      BY <2>1, <2>2, <2>3, <2>4 DEF ScanInv
  <1>6. CASE Finish
    <2> DEFINE D == IF ~ titleFailed /\ steps' = <<>> THEN {Diagnostic(<<"body", "no_steps">>, first)}
                    ELSE {}
    <2>1. /\ pc = "steps" /\ pc' = "done" /\ UNCHANGED <<call, first, i>> /\ i >= End
          /\ errors' = errors \cup D
      BY <1>6 DEF Finish
    <2>2. \A d \in D : d.what \notin BodyErrors
      BY OtherErrors
    <2> HIDE DEF D
    <2>3. ASSUME NEW w \in BodyErrors
          PROVE  Complaints(w)' = Complaints(w)
      <3>1. {e.line : e \in {d \in D : d.what = w}} = {}
        BY <2>2
      <3>2. Complaints(w)' = Complaints(w) \cup {e.line : e \in {d \in D : d.what = w}}
        BY <2>1, ComplaintsAdd
      <3>3. QED
        BY <3>1, <3>2
    <2>4. Diagnosed
      BY <2>1 DEF ScanInv
    <2>5. /\ Items(first)' = Items(first) /\ Body' = Body /\ End' = End
          /\ \A l : Repeated(l)' = Repeated(l) /\ OutOfTurn(l)' = OutOfTurn(l) /\ Stray(l)' = Stray(l)
      BY <2>1, SameFile
    <2>6. Diagnosed'
      BY <2>1, <2>3, <2>4, <2>5 DEF Diagnosed, BodyErrors
    <2>7. QED
      BY <2>1, <2>5, <2>6 DEF ScanInv
  <1>7. CASE UNCHANGED vars
    <2>1. UNCHANGED <<call, pc, i, first, titleFailed, steps, current, expected, seen, errors, outcome>>
      BY <1>7 DEF vars
    <2>2. /\ Items(first)' = Items(first) /\ Body' = Body /\ End' = End /\ lines' = lines
          /\ \A l : /\ Repeated(l)' = Repeated(l) /\ OutOfTurn(l)' = OutOfTurn(l) /\ Stray(l)' = Stray(l)
                    /\ FreshBefore(l)' = FreshBefore(l) /\ Open(l)' = Open(l)
          /\ \A t : Heads(t)' = Heads(t)
          /\ FrontmatterErrors(call.yaml)' = FrontmatterErrors(call.yaml)
      BY <2>1, SameFile
    <2>3. \A w : Complaints(w)' = Complaints(w)
      BY <2>1 DEF Complaints
    <2>4. (Scanned' <=> Scanned) /\ (Diagnosed' <=> Diagnosed)
          /\ Closing' = Closing /\ (Opens' <=> Opens) /\ BodyErrors' = BodyErrors
      BY <2>1, <2>2, <2>3 DEF Scanned, Diagnosed, Closing, Opens, BodyErrors
    <2>5. QED
      BY <2>1, <2>2, <2>4 DEF ScanInv
  <1>8. QED
    BY <1>1, <1>2, <1>3, <1>4, <1>5, <1>6, <1>7 DEF Next


\* ScanInv holds at every line of every file.
LEMMA ScanInvariant == Spec => []ScanInv
  <1>1. Init => ScanInv
    BY DEF Init, ScanInv
  <1>2. QED
    BY <1>1, ScanStep, PositionInvariant, PTL DEF Spec

\* Every line of the body that is wrong is reported for what is wrong with it, and
\* no other line, in files of any length and whatever else is wrong.
THEOREM DiagnosticsTellTheLines == Spec => []DiagnosticsAreExact
  <1>1. ASSUME Position, ScanInv
        PROVE  DiagnosticsAreExact
    <2>1. SUFFICES ASSUME pc = "done", outcome.how \in {"accepted", "rejected"}, i > 1
                   PROVE  /\ Complaints(<<"step", "duplicate">>) = {l \in Items(first) : ~ Fresh(l)}
                          /\ Complaints(<<"step", "out_of_sequence">>) =
                                 {l \in Items(first) : Fresh(l) /\ lines[l].number # FreshBefore(l) + 1}
                          /\ Complaints(<<"body", "unexpected">>) =
                                 {l \in first..Len(lines) : lines[l].kind \notin {"item", "blank"}
                                                               /\ ~ Continues(first, l)}
      BY DEF DiagnosticsAreExact
    <2>2. Diagnosed /\ i >= End /\ End = Len(lines) + 1 /\ Len(lines) \in Nat /\ i \in Nat /\ first \in Nat
      BY <1>1, <2>1, LinesType DEF ScanInv, Position
    <2>3. \A l \in Items(first) \cup Body : l \in first..Len(lines) /\ l < i /\ l \in Nat
      <3>1. \A l \in Items(first) \cup Body : l \in first..Len(lines)
        BY DEF Items, Body
      <3>2. QED
        BY <2>2, <3>1
    <2>4. ASSUME NEW l \in Body, lines[l].kind \notin {"item", "blank"}
          PROVE  Open(l) <=> Continues(first, l)
      <3>1. ASSUME NEW k \in Items(first), k < l
            PROVE  k..l = k..(l - 1) \cup {l}
        BY <2>3, <3>1
      <3>2. \A k \in Items(first) :
               k < l => ((\A m \in k..l : lines[m].kind # "blank")
                             <=> (\A m \in k..(l - 1) : lines[m].kind # "blank"))
        BY <2>4, <3>1
      <3>3. QED
        BY <3>2 DEF Open, Continues
    <2>5. /\ {l \in Items(first) : l < i /\ Repeated(l)} = {l \in Items(first) : ~ Fresh(l)}
          /\ {l \in Items(first) : l < i /\ OutOfTurn(l)}
                = {l \in Items(first) : Fresh(l) /\ lines[l].number # FreshBefore(l) + 1}
          /\ {l \in Body : l < i /\ Stray(l)}
                = {l \in first..Len(lines) : lines[l].kind \notin {"item", "blank"}
                                                /\ ~ Continues(first, l)}
      BY <2>3, <2>4 DEF Repeated, OutOfTurn, Stray, Body
    <2>6. QED
      BY <2>2, <2>5 DEF Diagnosed
  <1>2. QED
    BY <1>1, ScanInvariant, PositionInvariant, PTL

-----------------------------------------------------------------------------
(* What it takes to exit 0. *)

UpToLine(l) == {k \in Items(first) : k <= l}

\* How many items there are up to an item.
LEMMA CountItems ==
  ASSUME Placed, NEW l \in Items(first)
  PROVE  /\ Cardinality(UpToLine(l)) \in Nat
         /\ (\A k \in Items(first) : ~ (k < l)) => Cardinality(UpToLine(l)) = 1
         /\ \A m \in Items(first) :
                m < l => /\ Cardinality(UpToLine(m)) < Cardinality(UpToLine(l))
                         /\ (\A k \in Items(first) : k < l => k <= m) =>
                                Cardinality(UpToLine(l)) = Cardinality(UpToLine(m)) + 1
  <1> DEFINE below == {k \in Items(first) : k < l}
  <1>1. \A k \in Items(first) : k \in Nat /\ k >= 1
    <2>1. \A k \in Items(first) : k \in 1..Len(lines)
      BY ItemsHere
    <2>2. QED
      BY <2>1
  <1>2. \A m \in Items(first) : /\ IsFiniteSet(UpToLine(m)) /\ Cardinality(UpToLine(m)) \in Nat
    <2>1. \A m \in Items(first) : UpToLine(m) \subseteq 1..m /\ m \in Nat
      BY <1>1 DEF UpToLine
    <2>2. QED
      BY <2>1, CountBelow
  <1>3. below \subseteq UpToLine(l) /\ IsFiniteSet(below) /\ Cardinality(below) \in Nat
    <2>1. below \subseteq UpToLine(l)
      BY <1>1 DEF UpToLine
    <2>2. QED
      BY <1>2, <2>1, FS_Subset, FS_CardinalityType
  <1>4. UpToLine(l) = below \cup {l} /\ l \notin below
    BY <1>1 DEF UpToLine
  <1>5. Cardinality(UpToLine(l)) = Cardinality(below) + 1
    <2> HIDE DEF below
    <2>1. QED
      BY <1>3, <1>4, FS_AddElement
  <1>6. ASSUME \A k \in Items(first) : ~ (k < l)
        PROVE  Cardinality(UpToLine(l)) = 1
    <2>1. below = {}
      BY <1>6
    <2>2. Cardinality(below) = 0
      BY <2>1, FS_EmptySet
    <2>3. QED
      BY <1>5, <2>2
  <1>7. ASSUME NEW m \in Items(first), m < l
        PROVE  /\ Cardinality(UpToLine(m)) < Cardinality(UpToLine(l))
               /\ (\A k \in Items(first) : k < l => k <= m) =>
                      Cardinality(UpToLine(l)) = Cardinality(UpToLine(m)) + 1
    <2>1. UpToLine(m) \subseteq below
      BY <1>1, <1>7 DEF UpToLine
    <2>2. Cardinality(UpToLine(m)) <= Cardinality(below)
      BY <1>3, <2>1, FS_Subset
    <2>3. (\A k \in Items(first) : k < l => k <= m) => UpToLine(m) = below
      BY <2>1 DEF UpToLine
    <2> HIDE DEF below
    <2>4. QED
      BY <1>2, <1>3, <1>5, <2>2, <2>3
  <1>8. QED
    BY <1>2, <1>6, <1>7

\* What an item is compared with where every item above it is fresh: the one just
\* above.
LEMMA FreshBeforeIs ==
  ASSUME Placed, NEW l \in Items(first), \A k \in Items(first) : k < l => Fresh(k)
  PROVE  /\ (\A k \in Items(first) : ~ (k < l)) => FreshBefore(l) = 0
         /\ \A m \in Items(first) :
                m < l /\ (\A k \in Items(first) : k < l => k <= m) =>
                    FreshBefore(l) = lines[m].number
  <1> DEFINE above == {k \in Items(first) : k < l /\ Fresh(k)}
  <1>1. \A k \in Items(first) : k \in Nat
    BY ItemsHere
  <1>2. FreshBefore(l) = IF above = {} THEN 0
                         ELSE lines[CHOOSE k \in above : \A m \in above : m <= k].number
    BY DEF FreshBefore
  <1>3. (\A k \in Items(first) : ~ (k < l)) => above = {}
    OBVIOUS
  <1>4. ASSUME NEW m \in Items(first), m < l, \A k \in Items(first) : k < l => k <= m
        PROVE  FreshBefore(l) = lines[m].number
    <2>1. m \in above /\ \A k \in above : k \in Nat /\ k <= m
      BY <1>1, <1>4
    <2> HIDE DEF above
    <2>2. \A k \in above : (\A n \in above : n <= k) => k = m
      BY <2>1
    <2>3. (CHOOSE k \in above : \A n \in above : n <= k) = m
      BY <2>1, <2>2
    <2>4. QED
      BY <1>2, <2>1, <2>3
  <1>5. QED
    BY <1>2, <1>3, <1>4

\* An item has none above it, or one that is nearest.
LEMMA NearestItem ==
  ASSUME Placed, NEW l \in Items(first)
  PROVE  \/ \A k \in Items(first) : ~ (k < l)
         \/ \E m \in Items(first) : m < l /\ \A k \in Items(first) : k < l => k <= m
  <1> DEFINE above == {k \in Items(first) : k < l}
  <1>1. SUFFICES ASSUME above # {}
                 PROVE  \E m \in above : \A k \in above : k <= m
    OBVIOUS
  <1>2. Len(lines) \in Nat /\ above \in SUBSET (1..Len(lines))
    BY ItemsHere DEF Placed
  <1> HIDE DEF above
  <1>3. QED
    BY <1>1, <1>2, GreatestOf

\* The items are numbered from 1 if and only if none repeats a number or is out of
\* its turn.
LEMMA NumberedInTurn ==
  ASSUME Placed
  PROVE  (\A l \in Items(first) : lines[l].number = Cardinality(UpToLine(l)))
             <=> \A l \in Items(first) : ~ Repeated(l) /\ ~ OutOfTurn(l)
  <1>1. ASSUME \A l \in Items(first) : lines[l].number = Cardinality(UpToLine(l)),
               NEW l \in Items(first)
        PROVE  ~ Repeated(l) /\ ~ OutOfTurn(l)
    <2>1. \A k \in Items(first) : Fresh(k)
      <3>1. ASSUME NEW k \in Items(first), NEW m \in Items(first), m < k
            PROVE  lines[m].number # lines[k].number
        <4>1. /\ Cardinality(UpToLine(m)) < Cardinality(UpToLine(k))
              /\ Cardinality(UpToLine(m)) \in Nat /\ Cardinality(UpToLine(k)) \in Nat
          BY <3>1, CountItems
        <4>2. QED
          BY <1>1, <4>1
      <3>2. QED
        BY <3>1 DEF Fresh
    <2>2. CASE \A k \in Items(first) : ~ (k < l)
      <3>1. Cardinality(UpToLine(l)) = 1 /\ FreshBefore(l) = 0
        BY <2>1, <2>2, CountItems, FreshBeforeIs
      <3>2. QED
        BY <1>1, <2>1, <3>1 DEF Repeated, OutOfTurn
    <2>3. CASE \E m \in Items(first) : m < l /\ \A k \in Items(first) : k < l => k <= m
      <3>1. PICK m \in Items(first) : m < l /\ \A k \in Items(first) : k < l => k <= m
        BY <2>3
      <3>2. Cardinality(UpToLine(l)) = Cardinality(UpToLine(m)) + 1 /\ FreshBefore(l) = lines[m].number
        BY <2>1, <3>1, CountItems, FreshBeforeIs
      <3>3. QED
        BY <1>1, <2>1, <3>2 DEF Repeated, OutOfTurn
    <2>4. QED
      BY <2>2, <2>3, NearestItem
  <1>2. ASSUME \A l \in Items(first) : ~ Repeated(l) /\ ~ OutOfTurn(l)
        PROVE  \A l \in Items(first) : lines[l].number = Cardinality(UpToLine(l))
    <2> DEFINE wrong == {l \in Items(first) : lines[l].number # Cardinality(UpToLine(l))}
    <2>1. SUFFICES ASSUME wrong # {}
                   PROVE  FALSE
      OBVIOUS
    <2>2. wrong \subseteq Nat
      BY ItemsHere
    <2>3. PICK l \in wrong : \A k \in wrong : l <= k
      <3> HIDE DEF wrong
      <3>1. QED
        BY <2>1, <2>2, LeastOf
    <2>4. /\ l \in Items(first) /\ lines[l].number # Cardinality(UpToLine(l))
          /\ lines[l].number = FreshBefore(l) + 1
          /\ \A k \in Items(first) : Fresh(k)
      BY <1>2, <2>3 DEF Repeated, OutOfTurn
    <2>5. CASE \A k \in Items(first) : ~ (k < l)
      <3>1. Cardinality(UpToLine(l)) = 1 /\ FreshBefore(l) = 0
        BY <2>4, <2>5, CountItems, FreshBeforeIs
      <3>2. QED
        BY <2>4, <3>1
    <2>6. CASE \E m \in Items(first) : m < l /\ \A k \in Items(first) : k < l => k <= m
      <3>1. PICK m \in Items(first) : m < l /\ \A k \in Items(first) : k < l => k <= m
        BY <2>6
      <3>2. Cardinality(UpToLine(l)) = Cardinality(UpToLine(m)) + 1 /\ FreshBefore(l) = lines[m].number
        BY <2>4, <3>1, CountItems, FreshBeforeIs
      <3>3. m \notin wrong
        <4>1. m \in Nat /\ l \in Nat
          BY <2>4, ItemsHere
        <4>2. ~ (l <= m)
          BY <3>1, <4>1
        <4>3. QED
          BY <2>3, <4>2
      <3>4. QED
        BY <2>4, <3>2, <3>3
    <2>7. QED
      BY <2>4, <2>5, <2>6, NearestItem
  <1>3. QED
    BY <1>1, <1>2


\* The frontmatter has no diagnostic if and only if its fields are valid.
LEMMA FrontmatterIsValid ==
  ASSUME call \in Calls, call.path = "text"
  PROVE  FrontmatterErrors(call.yaml) = {} <=> FieldsAreValid
  <1>1. call.yaml.result = "mapping" =>
            \A f \in Fields : call.yaml.fields[f] \in {"absent", "invalid", "valid"}
    BY CallsAssumption
  <1>2. ASSUME FrontmatterErrors(call.yaml) = {}
        PROVE  FieldsAreValid
    <2>1. call.yaml.result = "mapping"
      BY <1>2 DEF FrontmatterErrors
    <2>2. \A f \in Fields : /\ Field(call.yaml, f) # "absent" /\ Field(call.yaml, f) # "invalid"
                            /\ Field(call.yaml, f) = call.yaml.fields[f]
      BY <1>2, <2>1 DEF FrontmatterErrors, Field
    <2>3. QED
      BY <1>1, <2>1, <2>2 DEF FieldsAreValid
  <1>3. ASSUME FieldsAreValid
        PROVE  FrontmatterErrors(call.yaml) = {}
    <2>1. \A f \in Fields : Field(call.yaml, f) = "valid"
      BY <1>3 DEF FieldsAreValid
    <2>2. call.yaml.result = "mapping"
      <3>1. "id" \in Fields
        BY DEF Fields
      <3>2. Field(call.yaml, "id") = "valid"
        BY <2>1, <3>1
      <3>3. QED
        BY <3>2 DEF Field
    <2>3. {g \in Fields : Field(call.yaml, g) = "absent"} = {}
          /\ {g \in Fields : Field(call.yaml, g) = "invalid"} = {}
      BY <2>1
    <2>4. QED
      BY <2>2, <2>3 DEF FrontmatterErrors
  <1>4. QED
    BY <1>2, <1>3

\* A file has one title at most.
LEMMA OneTitle ==
  ASSUME Position, NEW t, NEW u, Heads(t), Heads(u)
  PROVE  t = u
  <1>0. Len(lines) \in Nat /\ \A k \in Closing : k \in Nat
    BY LinesType DEF Position, Closing
  <1>1. PICK l \in Closing :
           /\ \A k \in Closing : l <= k
           /\ l < t /\ t \in 1..Len(lines)
           /\ \A k \in (l + 1)..(t - 1) : lines[k].kind = "blank"
           /\ lines[t].kind = "title"
    BY DEF Heads
  <1>2. PICK m \in Closing :
           /\ \A k \in Closing : m <= k
           /\ m < u /\ u \in 1..Len(lines)
           /\ \A k \in (m + 1)..(u - 1) : lines[k].kind = "blank"
           /\ lines[u].kind = "title"
    BY DEF Heads
  <1>3. l = m
    BY <1>0, <1>1, <1>2
  <1>4. t < u => t \in (m + 1)..(u - 1)
    BY <1>0, <1>1, <1>2, <1>3
  <1>5. u < t => u \in (l + 1)..(t - 1)
    BY <1>0, <1>1, <1>2, <1>3
  <1>6. ~ (t < u) /\ ~ (u < t)
    BY <1>1, <1>2, <1>4, <1>5
  <1>7. QED
    BY <1>0, <1>1, <1>2, <1>6

\* What the grammar asks of a file whose title has been found.
LEMMA GrammarBelow ==
  ASSUME Position, pc = "steps", Opens, Heads(first - 1)
  PROVE  InWiderGrammar <=> /\ FieldsAreValid /\ Items(first) # {}
                            /\ \A l \in Items(first) : ~ Repeated(l) /\ ~ OutOfTurn(l)
                            /\ \A l \in Body : ~ Stray(l)
  <1>1. /\ Placed /\ Len(lines) \in Nat /\ first \in Nat /\ (first - 1) + 1 = first
        /\ first - 1 \in 1..Len(lines)
    BY PlacedHere DEF Placed, Heads
  <1>2. Numbered(first) <=> /\ Items(first) # {}
                            /\ \A l \in Items(first) : ~ Repeated(l) /\ ~ OutOfTurn(l)
    BY <1>1, NumberedInTurn DEF Numbered, UpToLine
  <1>3. (\A k \in first..Len(lines) : lines[k].kind \notin {"item", "blank"} => Continues(first, k))
            <=> \A l \in Body : ~ Stray(l)
    <2>1. ASSUME NEW l \in Body, lines[l].kind \notin {"item", "blank"}
          PROVE  Open(l) <=> Continues(first, l)
      <3>1. l \in Nat /\ \A k \in Items(first) : k \in Nat
        BY <1>1, ItemsHere DEF Body
      <3>2. ASSUME NEW k \in Items(first), k < l
            PROVE  k..l = k..(l - 1) \cup {l}
        BY <3>1, <3>2
      <3>3. \A k \in Items(first) :
               k < l => ((\A m \in k..l : lines[m].kind # "blank")
                             <=> (\A m \in k..(l - 1) : lines[m].kind # "blank"))
        BY <2>1, <3>2
      <3>4. QED
        BY <3>3 DEF Open, Continues
    <2>2. QED
      BY <2>1 DEF Body, Stray
  <1> DEFINE Rest(t) == /\ Numbered(t + 1)
                        /\ \A k \in (t + 1)..Len(lines) :
                               lines[k].kind \notin {"item", "blank"} => Continues(t + 1, k)
  <1>4. InWiderGrammar <=> FieldsAreValid /\ \E t \in 1..Len(lines) : Heads(t) /\ Rest(t)
    <2>1. InWiderGrammar => FieldsAreValid /\ \E t \in 1..Len(lines) : Heads(t) /\ Rest(t)
      BY DEF InWiderGrammar, FieldsAreValid, Heads
    <2>2. ASSUME FieldsAreValid, NEW t \in 1..Len(lines), Heads(t), Rest(t)
          PROVE  InWiderGrammar
      BY <2>2 DEF InWiderGrammar, FieldsAreValid, Heads
    <2>3. QED
      BY <2>1, <2>2
  <1>5. \A t \in 1..Len(lines) : Heads(t) => t = first - 1
    BY OneTitle
  <1>6. InWiderGrammar <=> FieldsAreValid /\ Rest(first - 1)
    <2> HIDE DEF Rest
    <2>1. QED
      BY <1>1, <1>4, <1>5
  <1>7. Rest(first - 1) <=>
            /\ Numbered(first)
            /\ \A k \in first..Len(lines) :
                   lines[k].kind \notin {"item", "blank"} => Continues(first, k)
    BY <1>1
  <1>8. QED
    BY <1>2, <1>3, <1>6, <1>7

\* Where the scan ends it finds nothing to complain of if and only if the file is in
\* the wider grammar.
LEMMA FinishDecides ==
  ASSUME Position, WholeInv, ScanInv, Finish
  PROVE  errors' = {} <=> InWiderGrammar
  <1>1. /\ pc = "steps" /\ i >= End /\ steps' = Flushed
        /\ errors' = errors \cup
               (IF ~ titleFailed /\ steps' = <<>> THEN {Diagnostic(<<"body", "no_steps">>, first)} ELSE {})
    BY DEF Finish
  <1>2. /\ Opens /\ call \in Calls /\ call.path = "text" /\ Scanned /\ Diagnosed
        /\ FrontmatterErrors(call.yaml) \subseteq errors
        /\ \A e \in errors : \/ e \in FrontmatterErrors(call.yaml) \/ e.what \in BodyErrors
                             \/ titleFailed
        /\ titleFailed => errors # {} /\ \A t \in 1..Len(lines) : ~ Heads(t)
        /\ ~ titleFailed => Heads(first - 1)
        /\ errors = {} => Reading
    BY <1>1 DEF ScanInv, WholeInv, Position
  <1>3. CASE titleFailed
    <2>1. errors' # {}
      BY <1>1, <1>2, <1>3
    <2>2. ~ InWiderGrammar
      BY <1>2, <1>3 DEF InWiderGrammar, Heads
    <2>3. QED
      BY <2>1, <2>2
  <1>4. CASE ~ titleFailed
    <2>1. \A l \in Items(first) \cup Body : l < i
      <3>1. End = Len(lines) + 1 /\ Len(lines) \in Nat /\ i \in Nat /\ first \in Nat
        BY LinesType DEF Position
      <3>2. \A l \in Items(first) \cup Body : l \in first..Len(lines)
        BY DEF Items, Body
      <3>3. QED
        BY <1>1, <3>1, <3>2
    <2>2. /\ Complaints(<<"step", "duplicate">>) = {l \in Items(first) : Repeated(l)}
          /\ Complaints(<<"step", "out_of_sequence">>) = {l \in Items(first) : OutOfTurn(l)}
          /\ Complaints(<<"body", "unexpected">>) = {l \in Body : Stray(l)}
      BY <1>2, <2>1 DEF Diagnosed
    <2> DEFINE Clean == /\ \A l \in Items(first) : ~ Repeated(l) /\ ~ OutOfTurn(l)
                        /\ \A l \in Body : ~ Stray(l)
    <2>3. Clean <=> \A w \in BodyErrors : Complaints(w) = {}
      BY <2>2 DEF BodyErrors
    <2>4. (\A w \in BodyErrors : Complaints(w) = {}) <=> \A e \in errors : e.what \notin BodyErrors
      BY DEF Complaints
    <2>5. FrontmatterErrors(call.yaml) = {} <=> FieldsAreValid
      BY <1>2, FrontmatterIsValid
    <2> HIDE DEF Clean
    <2>6. errors = {} <=> FieldsAreValid /\ Clean
      BY <1>2, <1>4, <2>3, <2>4, <2>5
    <2>7. errors = {} => (Flushed = <<>> <=> Items(first) = {})
      <3>1. SUFFICES ASSUME errors = {}
                     PROVE  Flushed = <<>> <=> Items(first) = {}
        OBVIOUS
      <3>2. Reading /\ Flushed \in Seq(StepRecords) /\ Len(Flushed) = Len(steps) + Len(current)
        BY <1>2, <3>1, FlushedSteps
      <3>3. seen = 1..Len(Flushed) /\ Len(Flushed) \in Nat
        BY <3>2 DEF Reading
      <3>4. seen = {lines[k].number : k \in Items(first)}
        BY <1>2, <2>1 DEF Scanned
      <3>5. Items(first) = {} <=> seen = {}
        BY <3>4
      <3>6. Len(Flushed) = 0 <=> seen = {}
        BY <3>3
      <3>7. QED
        BY <3>2, <3>5, <3>6
    <2>8. errors' = {} <=> errors = {} /\ Flushed # <<>>
      BY <1>1, <1>4
    <2>9. InWiderGrammar <=> FieldsAreValid /\ Items(first) # {} /\ Clean
      BY <1>1, <1>2, <1>4, GrammarBelow DEF Clean
    <2>10. QED
      BY <2>6, <2>7, <2>8, <2>9
  <1>5. QED
    BY <1>3, <1>4

\* Frontmatter that parse dies of is not in the grammar.
LEMMA CrashesAreWrong ==
  ASSUME Crashes(call.yaml)
  PROVE  ~ FieldsAreValid
  <1>1. "id" \in Fields
    BY DEF Fields
  <1>2. \E f \in Fields : Field(call.yaml, f) = "absent"
    BY <1>1 DEF Crashes, Field
  <1>3. QED
    BY <1>2 DEF FieldsAreValid

\* compile --check exits 0 for exactly the files of the wider grammar, whatever their
\* length, their frontmatter and the command line.
THEOREM ExitZeroIsTheWiderGrammar == Spec => []ExitZeroIffWiderGrammar
  <1>1. Init => ExitZeroIffWiderGrammar
    BY DEF Init, ExitZeroIffWiderGrammar
  <1>2. ASSUME Position, WholeInv, ScanInv, ExitZeroIffWiderGrammar, [Next]_vars
        PROVE  ExitZeroIffWiderGrammar'
    <2> DEFINE Right == call.check /\ call.path = "text" /\ InWiderGrammar
    <2>1. SUFFICES ASSUME pc' = "done"
                   PROVE  outcome'.exit = 0 <=> Right'
      BY DEF ExitZeroIffWiderGrammar
    <2>2. Right' <=> Right
      <3>1. call' = call
        BY <1>2 DEF Next, vars, Refuse, FindFrontmatter, CheckFrontmatter, FindTitle, ReadItem,
                    ReadBlank, ReadOther, Finish
      <3>2. lines' = lines /\ \A f : Items(f)' = Items(f)
        BY <3>1 DEF lines, Items
      <3>3. /\ Closing' = Closing /\ (Opens' <=> Opens)
            /\ \A f : (Numbered(f)' <=> Numbered(f)) /\ \A l : (Continues(f, l)' <=> Continues(f, l))
        BY <3>2 DEF Closing, Opens, Numbered, Continues
      <3>4. InWiderGrammar' <=> InWiderGrammar
        BY <3>1, <3>2, <3>3 DEF InWiderGrammar
      <3>5. QED
        BY <3>1, <3>4
    <2>3. CASE Refuse
      BY <2>2, <2>3 DEF Refuse, Refused
    <2>4. CASE FindFrontmatter
      <3>1. outcome' = Rejected /\ (~ Opens \/ Closing = {})
        BY <2>1, <2>4 DEF FindFrontmatter
      <3>2. ~ InWiderGrammar
        BY <3>1 DEF InWiderGrammar
      <3>3. QED
        BY <2>2, <3>1, <3>2 DEF Rejected
    <2>5. CASE CheckFrontmatter
      <3>1. outcome' = Traceback /\ Crashes(call.yaml)
        BY <2>1, <2>5 DEF CheckFrontmatter
      <3>2. ~ InWiderGrammar
        BY <3>1, CrashesAreWrong DEF InWiderGrammar, FieldsAreValid
      <3>3. QED
        BY <2>2, <3>1, <3>2 DEF Traceback
    <2>6. CASE FindTitle \/ ReadItem \/ ReadBlank \/ ReadOther
      BY <2>1, <2>6 DEF FindTitle, ReadItem, ReadBlank, ReadOther
    <2>7. CASE Finish
      <3>1. errors' = {} <=> InWiderGrammar
        BY <1>2, <2>7, FinishDecides
      <3>2. call.check /\ call.path = "text" /\ outcome' = IF errors' = {} THEN Accepted ELSE Rejected
        BY <1>2, <2>7 DEF Finish, ScanInv
      <3>3. QED
        BY <2>2, <3>1, <3>2 DEF Accepted, Rejected
    <2>8. CASE UNCHANGED vars
      <3>1. pc' = pc /\ outcome' = outcome
        BY <2>8 DEF vars
      <3>2. QED
        BY <1>2, <2>1, <2>2, <3>1 DEF ExitZeroIffWiderGrammar
    <2>9. QED
      BY <1>2, <2>3, <2>4, <2>5, <2>6, <2>7, <2>8 DEF Next
  <1>3. QED
    BY <1>1, <1>2, PositionInvariant, WholeInvariant, ScanInvariant, PTL DEF Spec
=============================================================================
