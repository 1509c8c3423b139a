----------------------------- MODULE Telemetry ------------------------------
(***************************************************************************)
(* The log of telemetry events: _emit of the executor, JsonlSink           *)
(* (src/sopvm/telemetry/sink.py), which appends a line of JSON for every   *)
(* event, and "sopvm trace" (cli/main.py), which reads the events of one   *)
(* run back.  Several runs share a log file, one after the other or at the *)
(* same time, and a write may fail anywhere; such a failure is swallowed.  *)
(*                                                                         *)
(* The i-th event of run r is the pair of the two; what it says does not   *)
(* matter here.  A line of the file is the sequence of what was written    *)
(* into it; a record is appended with a single write, so that those of     *)
(* two processes do not mix.                                               *)
(***************************************************************************)
EXTENDS Integers, SequencesExt

CONSTANTS
    RunIds,         \* the runs that log into the file
    MaxEvents       \* bound: events of each of them

ASSUME TelemetryAssumption == MaxEvents \in Nat

VARIABLES
    offered,        \* how many events each run has handed to the sink
    failed,         \* how many of their writes failed
    file,           \* the lines of the file
    terminated,     \* does the file end with a line end?
    trace           \* what the last "sopvm trace" printed, and its exit code

telemetryVars == <<offered, failed, file, terminated, trace>>

\* No trace since the last event.
NoTrace == [exit |-> -1]

Record(r, i, whole) == [run_id |-> r, event |-> i, whole |-> whole]

\* How far a write gets: the line, the record without its line end, some of the
\* record, nothing.
Extents == {"line", "record", "part", "nothing"}

\* json.loads accepts a line: it is one whole record.
Parses(line) == Len(line) = 1 /\ line[1].whole

-----------------------------------------------------------------------------
Init ==
    /\ offered = [r \in RunIds |-> 0] /\ failed = [r \in RunIds |-> 0]
    /\ file = <<>> /\ terminated = TRUE
    /\ trace = NoTrace

\* Slips: the file is opened with "w"; the line end comes before the record.
WriteOver(record, extent) ==
    \/ extent = "nothing" /\ UNCHANGED <<file, terminated>>
    \/ /\ extent # "nothing"
       /\ file' = <<<<record>>>>
       /\ terminated' = (extent = "line")

WriteWithoutLineEnd(record, extent) ==
    \/ extent = "nothing" /\ UNCHANGED <<file, terminated>>
    \/ /\ extent # "nothing"
       /\ file' = IF file = <<>> THEN <<<<record>>>>
                  ELSE [file EXCEPT ![Len(file)] = Append(@, record)]
       /\ terminated' = FALSE

\* Opening the file for appending continues a line that has no end.
Write(record, extent) ==
    \/ extent = "nothing" /\ UNCHANGED <<file, terminated>>
    \/ /\ extent # "nothing"
       /\ file' = IF terminated THEN Append(file, <<record>>)
                  ELSE [file EXCEPT ![Len(file)] = Append(@, record)]
       /\ terminated' = (extent = "line")

\* An event of run r.  Whether the process dies within the write or the sink
\* swallows the exception, the file is left the same; a run that has died emits
\* nothing more.
Emit(r, extent) ==
    /\ offered[r] < MaxEvents
    /\ offered' = [offered EXCEPT ![r] = @ + 1]
    /\ failed' = [failed EXCEPT ![r] = IF extent = "line" THEN @ ELSE @ + 1]
    /\ Write(Record(r, offered[r] + 1, extent \in {"line", "record"}), extent)
    /\ trace' = NoTrace

\* The lines "sopvm trace" gets through before json.loads raises.
LinesRead ==
    LET damaged == SelectInSeq(file, LAMBDA line : ~ Parses(line))
    IN  IF damaged = 0 THEN file ELSE SubSeq(file, 1, damaged - 1)

\* Line by line, those of run r are printed.
Printing(printed, line, r) ==
    IF line[1].run_id = r THEN Append(printed, line[1].event) ELSE printed

EventsIn(lines, r) ==
    LET printed[n \in 0..Len(lines)] ==
            IF n = 0 THEN <<>> ELSE Printing(printed[n - 1], lines[n], r)
    IN  printed[Len(lines)]

\* Slips: the run is not compared; lines that do not parse are skipped.
TraceOfAll(r) ==
    LET printed == [n \in DOMAIN LinesRead |-> LinesRead[n][1].event]
    IN  trace' = [run_id |-> r, printed |-> printed,
                  exit |-> IF LinesRead = file /\ printed # <<>> THEN 0 ELSE 1]
        /\ UNCHANGED <<offered, failed, file, terminated>>

TraceSkipping(r) ==
    LET printed == EventsIn(SelectSeq(file, Parses), r)
    IN  trace' = [run_id |-> r, printed |-> printed,
                  exit |-> IF printed # <<>> THEN 0 ELSE 1]
        /\ UNCHANGED <<offered, failed, file, terminated>>

\* "sopvm trace": each event of the run is printed as its line is read.  It fails
\* on a line that does not parse, and when it has printed nothing; 1 stands for
\* the exit codes of all failures.
Trace(r) ==
    LET printed == EventsIn(LinesRead, r)
    IN  trace' = [run_id |-> r, printed |-> printed,
                  exit |-> IF LinesRead = file /\ printed # <<>> THEN 0 ELSE 1]
        /\ UNCHANGED <<offered, failed, file, terminated>>

Next == \E r \in RunIds : Trace(r) \/ \E extent \in Extents : Emit(r, extent)

Spec == Init /\ [][Next]_telemetryVars

-----------------------------------------------------------------------------
\* Lines are sequences of what was written, and a line without an end is there.
TypeOK ==
    /\ offered \in [RunIds -> 0..MaxEvents] /\ failed \in [RunIds -> Nat]
    /\ file \in Seq(Seq([run_id : RunIds, event : 1..MaxEvents, whole : BOOLEAN]))
    /\ terminated \in BOOLEAN
    /\ ~ terminated => file # <<>>

\* A trace may be short but it does not make anything up: what it prints are
\* events of that run and no other, each at most once and in the order in which
\* the run emitted them, whatever writes failed and whoever else wrote into the
\* file (sink.py:43, main.py:163).
TraceTellsTheTruth ==
    trace # NoTrace =>
        /\ \A n \in DOMAIN trace.printed : trace.printed[n] \in 1..offered[trace.run_id]
        /\ \A m, n \in DOMAIN trace.printed : m < n => trace.printed[m] < trace.printed[n]

\* A trace that exits with 0 is as complete as the writes of its own run were:
\* events missing from it are events whose own write failed, never the victims of
\* another run's (main.py:163 raises where a record was spoilt by the one before).
CleanTraceIsComplete ==
    trace.exit = 0 =>
        offered[trace.run_id] - Len(trace.printed) <= failed[trace.run_id]

\* As many events of each run as it has counted.
AllUpTo(count) == {e \in RunIds \X (1..MaxEvents) : e[2] <= count[e[1]]}

\* A failed write costs at most two events, its own and the one that is appended
\* to what it left behind; the log recovers with the next line (sink.py:43-44).
DamageIsBounded ==
    Cardinality(AllUpTo(offered))
        <= Cardinality({n \in DOMAIN file : Parses(file[n])}) + 2 * Cardinality(AllUpTo(failed))

\* What trace prints from finished lines it will print for ever: no later write,
\* failed or not, takes back a line that was ended before the first damage.
Settled(n) == (\A m \in 1..n : Parses(file[m])) /\ (n < Len(file) \/ terminated)

LogIsAppendOnly ==
    [][\A n \in DOMAIN file :
          Settled(n) => n \in DOMAIN file' /\ file'[n] = file[n] /\ Settled(n)']_telemetryVars
=============================================================================
