-------------------------- MODULE TelemetryProofs ---------------------------
(***************************************************************************)
(* What "sopvm trace" prints, what a failed write costs, and that the log  *)
(* never takes back what it has settled; for any number of runs and of     *)
(* events.                                                                 *)
(***************************************************************************)
EXTENDS Telemetry, CommonProofs

Records == [run_id : RunIds, event : 1..MaxEvents, whole : BOOLEAN]

\* A write leaves a sequence of lines; it opens a new one or goes on with the
\* last one, which lacks its line end.
LEMMA WriteTypes ==
  ASSUME TypeOK, NEW record \in Records, NEW extent \in Extents, Write(record, extent)
  PROVE  /\ file' \in Seq(Seq(Records)) /\ terminated' \in BOOLEAN
         /\ ~ terminated' => file' # <<>>
  <1>1. file \in Seq(Seq(Records)) /\ (~ terminated => file # <<>>) /\ terminated \in BOOLEAN
    BY DEF TypeOK, Records
  <1>2. CASE extent = "nothing"
    BY <1>1, <1>2 DEF Write
  <1>3. CASE extent # "nothing" /\ terminated
    <2>1. file' = Append(file, <<record>>) /\ terminated' \in BOOLEAN
      BY <1>3 DEF Write
    <2>2. <<record>> \in Seq(Records)
      OBVIOUS
    <2>3. Append(file, <<record>>) \in Seq(Seq(Records)) /\ Len(Append(file, <<record>>)) > 0
      BY <1>1, <2>2
    <2>4. QED
      BY <2>1, <2>3
  <1>4. CASE extent # "nothing" /\ ~ terminated
    <2>1. /\ file' = [file EXCEPT ![Len(file)] = Append(@, record)]
          /\ terminated' \in BOOLEAN
      BY <1>4 DEF Write
    <2>2. Len(file) \in DOMAIN file
      BY <1>1, <1>4
    <2>3. Append(file[Len(file)], record) \in Seq(Records)
      BY <1>1, <2>2
    <2>4. file' \in Seq(Seq(Records)) /\ Len(file') = Len(file)
      BY <1>1, <2>1, <2>2, <2>3
    <2>5. QED
      BY <1>1, <1>4, <2>1, <2>2, <2>4
  <1>5. QED
    BY <1>1, <1>2, <1>3, <1>4

\* What the counters and the lines of the log are, for any number of runs and
\* events.
LEMMA LogTypes == Spec => []TypeOK
  <1>1. Init => TypeOK
    BY TelemetryAssumption DEF Init, TypeOK
  <1>2. ASSUME TypeOK, [Next]_telemetryVars
        PROVE  TypeOK'
    <2>1. ASSUME NEW r \in RunIds, NEW extent \in Extents, Emit(r, extent)
          PROVE  TypeOK'
      <3>1. /\ offered' \in [RunIds -> 0..MaxEvents]
            /\ offered[r] + 1 \in 1..MaxEvents
        BY <2>1, <1>2, TelemetryAssumption DEF Emit, TypeOK
      <3>2. failed' \in [RunIds -> Nat]
        BY <2>1, <1>2 DEF Emit, TypeOK
      <3>3. PICK record \in Records : Write(record, extent)
        <4>1. Write(Record(r, offered[r] + 1, extent \in {"line", "record"}), extent)
          BY <2>1 DEF Emit
        <4>2. \A whole \in BOOLEAN : Record(r, offered[r] + 1, whole) \in Records
          BY <3>1 DEF Record, Records
        <4>3. (extent \in {"line", "record"}) \in BOOLEAN
          OBVIOUS
        <4>4. QED
          BY <4>1, <4>2, <4>3
      <3>4. /\ file' \in Seq(Seq(Records)) /\ terminated' \in BOOLEAN
            /\ ~ terminated' => file' # <<>>
        BY <3>3, <1>2, WriteTypes
      <3>5. QED
        BY <3>1, <3>2, <3>4 DEF TypeOK, Records
    <2>2. ASSUME NEW r \in RunIds, Trace(r)
          PROVE  TypeOK'
      BY <2>2, <1>2 DEF Trace, TypeOK
    <2>3. CASE UNCHANGED telemetryVars
      BY <2>3, <1>2 DEF telemetryVars, TypeOK
    <2>4. QED
      BY <1>2, <2>1, <2>2, <2>3 DEF Next
  <1>3. QED
    BY <1>1, <1>2, PTL DEF Spec

\* Whatever writes fail, in any number of runs: a line that was ended, with no
\* damage up to it, stays in its place and stays readable.
THEOREM SettledLinesStay == Spec => LogIsAppendOnly
  <1>1. ASSUME TypeOK, [Next]_telemetryVars,
               NEW n \in DOMAIN file, Settled(n)
        PROVE  n \in DOMAIN file' /\ file'[n] = file[n] /\ Settled(n)'
    <2>1. CASE UNCHANGED <<file, terminated>>
      BY <2>1, <1>1 DEF Settled, Parses
    <2>2. ASSUME NEW record, NEW extent \in Extents, Write(record, extent), extent # "nothing"
          PROVE  n \in DOMAIN file' /\ file'[n] = file[n] /\ Settled(n)'
      <3>1. file \in Seq(Seq(Records)) /\ n \in 1..Len(file)
        BY <1>1 DEF TypeOK, Records
      <3>2. CASE terminated
        <4>1. file' = Append(file, <<record>>)
          BY <2>2, <3>2 DEF Write
        <4>2. /\ Len(file') = Len(file) + 1 /\ DOMAIN file' = 1..Len(file')
              /\ \A m \in 1..Len(file) : file'[m] = file[m]
          BY <4>1, <3>1
        <4>3. QED
          <5>1. n \in 1..Len(file) /\ n \in DOMAIN file' /\ n < Len(file') /\ file'[n] = file[n]
            BY <4>2, <3>1
          <5>2. \A m \in 1..n : m \in 1..Len(file)
            BY <3>1
          <5>3. \A m \in 1..n : Parses(file'[m])
            BY <1>1, <4>2, <5>2 DEF Settled
          <5>4. QED
            BY <5>1, <5>3 DEF Settled, Parses
      <3>3. CASE ~ terminated
        <4>1. file' = [file EXCEPT ![Len(file)] = Append(@, record)]
          BY <2>2, <3>3 DEF Write
        <4>2. n < Len(file)
          BY <3>3, <1>1 DEF Settled
        <4>3. /\ Len(file') = Len(file) /\ DOMAIN file' = DOMAIN file
              /\ \A m \in 1..n : file'[m] = file[m]
          BY <4>1, <4>2, <3>1
        <4>4. QED
          BY <4>2, <4>3, <3>1, <1>1 DEF Settled, Parses
      <3>4. QED
        BY <3>2, <3>3
    <2>3. QED
      <3>1. ASSUME NEW r \in RunIds, NEW extent \in Extents, Emit(r, extent)
            PROVE  \/ UNCHANGED <<file, terminated>>
                   \/ extent # "nothing" /\ \E record : Write(record, extent)
        BY <3>1 DEF Emit, Write
      <3>2. ASSUME NEW r \in RunIds, Trace(r)
            PROVE  UNCHANGED <<file, terminated>>
        BY <3>2 DEF Trace
      <3>3. QED
        BY <1>1, <2>1, <2>2, <3>1, <3>2 DEF Next, telemetryVars
  <1>2. ASSUME TypeOK, [Next]_telemetryVars
        PROVE  [\A n \in DOMAIN file :
                   Settled(n) => n \in DOMAIN file' /\ file'[n] = file[n] /\ Settled(n)'
               ]_telemetryVars
    BY <1>1, <1>2
  <1>3. QED
    BY <1>2, LogTypes, PTL DEF Spec, LogIsAppendOnly

-----------------------------------------------------------------------------
\* What has been printed after each of the lines.
Prints(printed, lines, r) ==
    printed = [n \in 0..Len(lines) |->
                  IF n = 0 THEN <<>> ELSE Printing(printed[n - 1], lines[n], r)]

\* What a reader has printed after each line is defined for every file.
LEMMA PrintsExists ==
  ASSUME NEW lines, NEW r, Len(lines) \in Nat
  PROVE  \E printed : Prints(printed, lines, r)
  <1> DEFINE Fits(f, N) == f = [n \in 0..N |-> IF n = 0 THEN <<>>
                                                 ELSE Printing(f[n - 1], lines[n], r)]
  <1> DEFINE G == {N \in 0..Len(lines) : \E f : Fits(f, N)}
  <1>1. 0 \in G
    <2>1. Fits([n \in 0..0 |-> <<>>], 0)
      OBVIOUS
    <2>2. 0 \in 0..Len(lines)
      OBVIOUS
    <2> HIDE DEF Fits
    <2>3. QED
      BY <2>1, <2>2
  <1>2. ASSUME NEW N \in 0..Len(lines), N < Len(lines), N \in G
        PROVE  N + 1 \in G
    <2>1. PICK f : Fits(f, N)
      BY <1>2
    <2> DEFINE g == [n \in 0..(N + 1) |-> IF n = N + 1 THEN Printing(f[N], lines[N + 1], r)
                                          ELSE f[n]]
    <2>2. ASSUME NEW n \in 0..(N + 1)
          PROVE  g[n] = IF n = 0 THEN <<>> ELSE Printing(g[n - 1], lines[n], r)
      <3>1. CASE n = N + 1
        <4>1. n # 0 /\ n - 1 = N /\ N \in 0..(N + 1) /\ N # N + 1
          BY <3>1
        <4>2. g[N] = f[N]
          BY <4>1
        <4>3. QED
          BY <3>1, <4>1, <4>2
      <3>2. CASE n # N + 1
        <4>1. n \in 0..N
          BY <3>2
        <4>2. g[n] = f[n] /\ (n # 0 => n - 1 \in 0..N /\ g[n - 1] = f[n - 1])
          BY <4>1
        <4>3. f[n] = IF n = 0 THEN <<>> ELSE Printing(f[n - 1], lines[n], r)
          BY <2>1, <4>1
        <4>4. QED
          BY <4>2, <4>3
      <3>3. QED
        BY <3>1, <3>2
    <2>3. Fits(g, N + 1)
      BY <2>2
    <2>4. N + 1 \in 0..Len(lines)
      BY <1>2
    <2> HIDE DEF Fits, g
    <2>5. QED
      BY <2>3, <2>4
  <1> HIDE DEF G
  <1>3. \A N \in 0..Len(lines) : N \in G
    BY <1>1, <1>2, UpTo
  <1>4. QED
    <2>1. Len(lines) \in 0..Len(lines)
      OBVIOUS
    <2>2. QED
      BY <1>3, <2>1 DEF G, Prints

\* EventsIn is what the reader has printed after the last line.
LEMMA EventsInPrints ==
  ASSUME NEW lines, NEW r, Len(lines) \in Nat
  PROVE  \E printed : Prints(printed, lines, r) /\ EventsIn(lines, r) = printed[Len(lines)]
  <1>1. \E printed : Prints(printed, lines, r)
    BY PrintsExists
  <1>2. QED
    BY <1>1 DEF Prints, EventsIn

\* The lines of run r.
Of(lines, r) == {n \in DOMAIN lines : lines[n][1].run_id = r}

\* What has been printed after line n is from lines up to n, in their order, one
\* for each line of the run.
PrintedSoFar(printed, lines, r, n) ==
    /\ printed \in Seq(1..MaxEvents)
    /\ \A j \in DOMAIN printed :
           \E m \in 1..n : m \in Of(lines, r) /\ printed[j] = lines[m][1].event
    /\ \A i, j \in DOMAIN printed : i < j => printed[i] < printed[j]
    /\ Len(printed) = Cardinality(Of(lines, r) \cap (1..n))

\* One more line, when the events of the run are numbered in the order of the lines.
LEMMA PrintedStep ==
  ASSUME NEW lines \in Seq(Seq(Records)), NEW r, NEW n \in Nat, n + 1 \in DOMAIN lines,
         \A m \in DOMAIN lines : Parses(lines[m]),
         \A m, k \in Of(lines, r) : m < k => lines[m][1].event < lines[k][1].event,
         NEW old, PrintedSoFar(old, lines, r, n)
  PROVE  PrintedSoFar(Printing(old, lines[n + 1], r), lines, r, n + 1)
  <1> DEFINE new == Printing(old, lines[n + 1], r)
             mine == Of(lines, r)
  <1>1. /\ old \in Seq(1..MaxEvents)
        /\ \A j \in DOMAIN old : \E m \in 1..n : m \in mine /\ old[j] = lines[m][1].event
        /\ \A i, j \in DOMAIN old : i < j => old[i] < old[j]
        /\ Len(old) = Cardinality(mine \cap (1..n))
    BY DEF PrintedSoFar
  <1>2. Cardinality(mine \cap (1..(n + 1)))
          = Cardinality(mine \cap (1..n)) + (IF n + 1 \in mine THEN 1 ELSE 0)
    BY CountUpTo
  <1>3. CASE n + 1 \in mine
    <2>1. new = Append(old, lines[n + 1][1].event)
      BY <1>3 DEF Printing, Of
    <2>2. lines[n + 1][1].event \in 1..MaxEvents
      <3>1. Parses(lines[n + 1]) /\ lines[n + 1] \in Seq(Records)
        OBVIOUS
      <3>2. lines[n + 1][1] \in Records
        BY <3>1 DEF Parses
      <3>3. QED
        BY <3>2 DEF Records
    <2> DEFINE event == lines[n + 1][1].event
    <2> HIDE DEF new, mine, event
    <2>3. /\ new \in Seq(1..MaxEvents) /\ Len(new) = Len(old) + 1
          /\ DOMAIN new = 1..(Len(old) + 1) /\ DOMAIN old = 1..Len(old)
          /\ \A j \in DOMAIN old : new[j] = old[j]
          /\ new[Len(old) + 1] = event
      <3>1. new = Append(old, event) /\ event \in 1..MaxEvents /\ old \in Seq(1..MaxEvents)
        BY <1>1, <2>1, <2>2 DEF event
      <3>2. QED
        BY ONLY <3>1, Appended
    <2>4. \A j \in DOMAIN new :
              \E m \in 1..(n + 1) : m \in mine /\ new[j] = lines[m][1].event
      <3>1. ASSUME NEW j \in DOMAIN old
            PROVE  \E m \in 1..(n + 1) : m \in mine /\ new[j] = lines[m][1].event
        <4>1. PICK m \in 1..n : m \in mine /\ old[j] = lines[m][1].event
          BY <1>1
        <4>2. m \in 1..(n + 1) /\ new[j] = old[j]
          BY <2>3
        <4>3. QED
          BY <4>1, <4>2
      <3>2. n + 1 \in 1..(n + 1) /\ new[Len(old) + 1] = lines[n + 1][1].event
        BY <2>3 DEF event
      <3>3. \A j \in DOMAIN new : j \in DOMAIN old \/ j = Len(old) + 1
        BY <1>1, <2>3
      <3>4. QED
        BY <1>3, <3>1, <3>2, <3>3
    <2>5. ASSUME NEW j \in DOMAIN old
          PROVE  old[j] < event
      <3>1. PICK m \in 1..n : m \in mine /\ old[j] = lines[m][1].event
        BY <1>1
      <3>2. m < n + 1
        OBVIOUS
      <3>3. QED
        BY <1>3, <3>1, <3>2 DEF mine, event
    <2>6. \A i, j \in DOMAIN new : i < j => new[i] < new[j]
      <3>1. ASSUME NEW i \in DOMAIN new, NEW j \in DOMAIN new, i < j
            PROVE  new[i] < new[j]
        <4>1. i \in DOMAIN old
          BY <1>1, <2>3, <3>1
        <4>2. CASE j \in DOMAIN old
          BY <1>1, <2>3, <3>1, <4>1, <4>2
        <4>3. CASE j = Len(old) + 1
          BY <2>3, <2>5, <4>1, <4>3
        <4>4. QED
          BY <1>1, <2>3, <4>2, <4>3
      <3>2. QED
        BY <3>1
    <2>7. Len(new) = Cardinality(mine \cap (1..(n + 1)))
      BY <1>1, <1>2, <1>3, <2>3
    <2>8. QED
      BY <2>3, <2>4, <2>6, <2>7 DEF PrintedSoFar, new, mine
  <1>4. CASE n + 1 \notin mine
    <2>1. new = old
      BY <1>4 DEF Printing, Of
    <2> HIDE DEF new, mine
    <2>2. \A j \in DOMAIN new :
              \E m \in 1..(n + 1) : m \in mine /\ new[j] = lines[m][1].event
      BY <1>1, <2>1
    <2>3. Len(new) = Cardinality(mine \cap (1..(n + 1)))
      <3>1. Cardinality(mine \cap (1..n)) \in Nat
        BY CountUpTo
      <3>2. QED
        BY <1>1, <1>2, <1>4, <2>1, <3>1
    <2>4. QED
      BY <1>1, <2>1, <2>2, <2>3 DEF PrintedSoFar, new, mine
  <1>5. QED
    BY <1>3, <1>4

\* Of lines that parse and are in order, the reader prints each event of the run
\* once, in the order of the lines.
LEMMA EventsInOrder ==
  ASSUME NEW lines \in Seq(Seq(Records)), NEW r,
         \A n \in DOMAIN lines : Parses(lines[n]),
         \A m, n \in Of(lines, r) : m < n => lines[m][1].event < lines[n][1].event
  PROVE  PrintedSoFar(EventsIn(lines, r), lines, r, Len(lines))
  <1>1. PICK printed : Prints(printed, lines, r) /\ EventsIn(lines, r) = printed[Len(lines)]
    <2>1. Len(lines) \in Nat
      OBVIOUS
    <2>2. QED
      BY <2>1, EventsInPrints
  <1> DEFINE G == {n \in 0..Len(lines) : PrintedSoFar(printed[n], lines, r, n)}
  <1>2. 0 \in G
    <2>1. printed[0] = <<>> /\ Len(lines) \in Nat
      BY <1>1 DEF Prints
    <2>2. Cardinality(Of(lines, r) \cap (1..0)) = 0
      <3>1. Of(lines, r) \cap (1..0) = {}
        OBVIOUS
      <3>2. QED
        BY <3>1, FS_EmptySet
    <2>3. PrintedSoFar(<<>>, lines, r, 0)
      BY <2>2 DEF PrintedSoFar
    <2>4. QED
      BY <2>1, <2>3
  <1>3. ASSUME NEW n \in 0..Len(lines), n < Len(lines), n \in G
        PROVE  n + 1 \in G
    <2>1. /\ n \in Nat /\ n + 1 \in 0..Len(lines) /\ n + 1 \in DOMAIN lines
          /\ printed[n + 1] = Printing(printed[n], lines[n + 1], r)
      BY <1>1, <1>3 DEF Prints
    <2>2. PrintedSoFar(printed[n], lines, r, n)
      BY <1>3
    <2>3. PrintedSoFar(printed[n + 1], lines, r, n + 1)
      BY <2>1, <2>2, PrintedStep
    <2>4. QED
      BY <2>1, <2>3
  <1> HIDE DEF G
  <1>4. Len(lines) \in Nat /\ Len(lines) \in 0..Len(lines)
    OBVIOUS
  <1>5. \A n \in 0..Len(lines) : n \in G
    BY <1>2, <1>3, <1>4, UpTo
  <1>6. QED
    BY <1>1, <1>4, <1>5 DEF G

\* The lines a reader gets to are the first lines of the file, up to the first that
\* does not parse.
LEMMA LinesReadParse ==
  ASSUME file \in Seq(Seq(Records))
  PROVE  /\ LinesRead \in Seq(Seq(Records)) /\ Len(LinesRead) <= Len(file)
         /\ \A n \in DOMAIN LinesRead : LinesRead[n] = file[n] /\ Parses(LinesRead[n])
  <1> DEFINE I == {i \in 1..Len(file) : ~ Parses(file[i])}
             damaged == SelectInSeq(file, LAMBDA line : ~ Parses(line))
  <1>1. LinesRead = IF damaged = 0 THEN file ELSE SubSeq(file, 1, damaged - 1)
    BY DEF LinesRead
  <1>2. damaged = IF I # {} THEN CHOOSE x \in I : \A y \in I : x <= y ELSE 0
    BY DEF SelectInSeq, Min
  <1>3. CASE I = {}
    <2>1. damaged = 0
      BY <1>2, <1>3
    <2>2. LinesRead = file
      BY <1>1, <2>1
    <2>3. \A n \in 1..Len(file) : Parses(file[n])
      BY <1>3
    <2>4. DOMAIN file = 1..Len(file) /\ Len(file) \in Nat
      OBVIOUS
    <2>5. QED
      BY <2>2, <2>3, <2>4
  <1>4. CASE I # {}
    <2>1. I \subseteq Nat
      OBVIOUS
    <2>2. \E x \in I : \A y \in I : x <= y
      BY <1>4, <2>1, LeastOf
    <2>3. damaged \in I /\ \A y \in I : damaged <= y
      BY <1>2, <1>4, <2>2
    <2> HIDE DEF damaged
    <2>4. damaged \in 1..Len(file) /\ \A n \in 1..(damaged - 1) : Parses(file[n])
      <3>1. damaged \in 1..Len(file) /\ Len(file) \in Nat
        BY <2>3
      <3>2. ASSUME NEW n \in 1..(damaged - 1)
            PROVE  Parses(file[n])
        <4>1. n \in 1..Len(file) /\ ~ (damaged <= n)
          BY <3>1
        <4>2. QED
          BY <2>3, <4>1
      <3>3. QED
        BY <3>1, <3>2
    <2>5. LinesRead = SubSeq(file, 1, damaged - 1)
      BY <1>1, <2>4
    <2>6. /\ LinesRead \in Seq(Seq(Records)) /\ Len(LinesRead) = damaged - 1
          /\ \A n \in 1..(damaged - 1) : LinesRead[n] = file[n]
      BY <2>4, <2>5
    <2>7. QED
      BY <2>4, <2>6
  <1>5. QED
    BY <1>3, <1>4

-----------------------------------------------------------------------------
\* Every line was written by somebody; a record is one of the events its run has
\* emitted so far; the events of a run are in the order of their lines.
LinesInOrder ==
    /\ \A n \in DOMAIN file : file[n] # <<>>
    /\ \A n \in DOMAIN file : \A p \in DOMAIN file[n] :
           file[n][p].event <= offered[file[n][p].run_id]
    /\ \A m, n \in DOMAIN file : m < n =>
           \A p \in DOMAIN file[m], q \in DOMAIN file[n] :
               file[m][p].run_id = file[n][q].run_id => file[m][p].event < file[n][q].event

\* What is in the file after a write was there before, but for the record, which
\* is in the last line.
LEMMA WhatIsWritten ==
  ASSUME TypeOK, NEW record \in Records, NEW extent \in Extents, Write(record, extent)
  PROVE  /\ \A n \in DOMAIN file' : \A p \in DOMAIN file'[n] :
               \/ n \in DOMAIN file /\ p \in DOMAIN file[n] /\ file'[n][p] = file[n][p]
               \/ n = Len(file') /\ file'[n][p] = record
         /\ (\A n \in DOMAIN file : file[n] # <<>>) => \A n \in DOMAIN file' : file'[n] # <<>>
  <1>1. file \in Seq(Seq(Records)) /\ (~ terminated => file # <<>>) /\ terminated \in BOOLEAN
    BY DEF TypeOK, Records
  <1>2. CASE extent = "nothing"
    BY <1>1, <1>2 DEF Write
  <1>3. CASE extent # "nothing" /\ terminated
    <2>1. file' = Append(file, <<record>>)
      BY <1>3 DEF Write
    <2>2. <<record>> \in Seq(Records) /\ DOMAIN <<record>> = {1} /\ <<record>>[1] = record
      OBVIOUS
    <2>3. /\ Len(file) \in Nat /\ DOMAIN file = 1..Len(file)
          /\ Len(file') = Len(file) + 1 /\ DOMAIN file' = 1..(Len(file) + 1)
          /\ \A n \in 1..Len(file) : file'[n] = file[n]
          /\ file'[Len(file) + 1] = <<record>>
      BY <1>1, <2>1, <2>2, Appended
    <2>4. \A n \in DOMAIN file' : n \in DOMAIN file \/ n = Len(file')
      BY <2>3
    <2>5. <<record>> # <<>>
      OBVIOUS
    <2>6. QED
      BY <2>2, <2>3, <2>4, <2>5
  <1>4. CASE extent # "nothing" /\ ~ terminated
    <2> DEFINE last == Len(file)
    <2>1. file' = [file EXCEPT ![last] = Append(@, record)]
      BY <1>4 DEF Write
    <2>2. last \in DOMAIN file /\ file[last] \in Seq(Records)
      BY <1>1, <1>4
    <2>3. /\ Append(file[last], record) \in Seq(Records)
          /\ DOMAIN Append(file[last], record) = 1..(Len(file[last]) + 1)
          /\ DOMAIN file[last] = 1..Len(file[last]) /\ Len(file[last]) \in Nat
          /\ Len(Append(file[last], record)) = Len(file[last]) + 1
          /\ \A p \in 1..Len(file[last]) : Append(file[last], record)[p] = file[last][p]
          /\ Append(file[last], record)[Len(file[last]) + 1] = record
      BY <2>2, Appended
    <2>4. /\ DOMAIN file' = DOMAIN file /\ Len(file') = last
          /\ file'[last] = Append(file[last], record)
          /\ \A n \in DOMAIN file : n # last => file'[n] = file[n]
      BY <1>1, <2>1, <2>2, <2>3
    <2>5. \A p \in DOMAIN file'[last] : p \in DOMAIN file[last] \/ p = Len(file[last]) + 1
      BY <2>3, <2>4
    <2>6. file'[last] # <<>>
      BY <2>3, <2>4
    <2> HIDE DEF last
    <2>7. QED
      BY <2>3, <2>4, <2>5, <2>6
  <1>5. QED
    BY <1>1, <1>2, <1>3, <1>4

\* The record of an event, as Emit writes it.
LEMMA EmitWrites ==
  ASSUME TypeOK, NEW r \in RunIds, NEW extent \in Extents, Emit(r, extent)
  PROVE  /\ offered[r] \in Nat /\ offered[r] + 1 \in 1..MaxEvents
         /\ offered' = [offered EXCEPT ![r] = offered[r] + 1]
         /\ \E record \in Records :
               /\ record.run_id = r /\ record.event = offered[r] + 1
               /\ record.whole <=> extent \in {"line", "record"}
               /\ Write(record, extent)
  <1>1. offered[r] \in Nat /\ offered[r] + 1 \in 1..MaxEvents
    BY TelemetryAssumption DEF Emit, TypeOK
  <1> DEFINE record == Record(r, offered[r] + 1, extent \in {"line", "record"})
  <1>2. (extent \in {"line", "record"}) \in BOOLEAN
    OBVIOUS
  <1>3. /\ record \in Records /\ record.run_id = r /\ record.event = offered[r] + 1
        /\ record.whole = (extent \in {"line", "record"})
    BY <1>1, <1>2 DEF Record, Records
  <1>4. Write(record, extent)
    BY DEF Emit
  <1>5. offered' = [offered EXCEPT ![r] = offered[r] + 1]
    BY DEF Emit
  <1> HIDE DEF record
  <1>6. QED
    BY <1>1, <1>3, <1>4, <1>5

\* The events of a run are in the file in the order of their numbers, and none is
\* there before it was offered.
LEMMA LogInOrder == Spec => []LinesInOrder
  <1>1. Init => LinesInOrder
    BY DEF Init, LinesInOrder
  <1>2. ASSUME TypeOK, TypeOK', LinesInOrder, [Next]_telemetryVars
        PROVE  LinesInOrder'
    <2>1. ASSUME NEW r \in RunIds, NEW extent \in Extents, Emit(r, extent)
          PROVE  LinesInOrder'
      <3>1. /\ offered[r] \in Nat /\ offered' = [offered EXCEPT ![r] = offered[r] + 1]
            /\ \A s \in RunIds : offered[s] \in Nat
        BY <1>2, <2>1, EmitWrites DEF TypeOK
      <3>2. PICK record \in Records : /\ record.run_id = r /\ record.event = offered[r] + 1
                                      /\ Write(record, extent)
        BY <1>2, <2>1, EmitWrites
      <3>3. \A n \in DOMAIN file' : \A p \in DOMAIN file'[n] :
               \/ n \in DOMAIN file /\ p \in DOMAIN file[n] /\ file'[n][p] = file[n][p]
               \/ n = Len(file') /\ file'[n][p] = record
        BY <1>2, <3>2, WhatIsWritten
      <3>4. \A n \in DOMAIN file' : file'[n] # <<>>
        BY <1>2, <3>2, WhatIsWritten DEF LinesInOrder
      <3>5. \A n \in DOMAIN file : \A p \in DOMAIN file[n] : file[n][p] \in Records
        <4>1. file \in Seq(Seq(Records))
          BY <1>2 DEF TypeOK, Records
        <4>2. QED
          BY <4>1
      <3>6. /\ \A s \in RunIds : offered[s] <= offered'[s]
            /\ offered'[r] = offered[r] + 1
        BY <1>2, <3>1 DEF TypeOK
      <3>7. ASSUME NEW n \in DOMAIN file', NEW p \in DOMAIN file'[n]
            PROVE  file'[n][p].event <= offered'[file'[n][p].run_id]
        <4>1. CASE n \in DOMAIN file /\ p \in DOMAIN file[n] /\ file'[n][p] = file[n][p]
          <5>1. /\ file[n][p].event \in Int /\ file[n][p].run_id \in RunIds
                /\ file[n][p].event <= offered[file[n][p].run_id]
            BY <1>2, <3>5, <4>1 DEF LinesInOrder, Records
          <5>2. \A s \in RunIds : offered[s] \in Int /\ offered'[s] \in Int
            BY <1>2 DEF TypeOK
          <5>3. QED
            BY <3>6, <4>1, <5>1, <5>2
        <4>2. CASE file'[n][p] = record
          BY <3>1, <3>2, <3>6, <4>2
        <4>3. QED
          BY <3>3, <4>1, <4>2
      <3>8. ASSUME NEW m \in DOMAIN file', NEW n \in DOMAIN file', m < n,
                   NEW p \in DOMAIN file'[m], NEW q \in DOMAIN file'[n],
                   file'[m][p].run_id = file'[n][q].run_id
            PROVE  file'[m][p].event < file'[n][q].event
        <4>1. m # Len(file')
          <5>1. file' \in Seq(Seq(Records))
            BY <1>2 DEF TypeOK, Records
          <5>2. QED
            BY <3>8, <5>1
        <4>2. m \in DOMAIN file /\ p \in DOMAIN file[m] /\ file'[m][p] = file[m][p]
          BY <3>3, <4>1
        <4>3. CASE n \in DOMAIN file /\ q \in DOMAIN file[n] /\ file'[n][q] = file[n][q]
          BY <1>2, <3>8, <4>2, <4>3 DEF LinesInOrder
        <4>4. CASE file'[n][q] = record
          <5>1. file[m][p].run_id = r /\ file[m][p].event <= offered[r]
            BY <1>2, <3>2, <3>8, <4>2, <4>4 DEF LinesInOrder
          <5>2. file[m][p].event \in Int
            BY <3>5, <4>2 DEF Records
          <5>3. QED
            BY <3>1, <3>2, <4>2, <4>4, <5>1, <5>2
        <4>5. QED
          BY <3>3, <4>3, <4>4
      <3>9. QED
        BY <3>4, <3>7, <3>8 DEF LinesInOrder
    <2>2. ASSUME NEW r \in RunIds, Trace(r)
          PROVE  LinesInOrder'
      BY <1>2, <2>2 DEF Trace, LinesInOrder
    <2>3. CASE UNCHANGED telemetryVars
      BY <1>2, <2>3 DEF telemetryVars, LinesInOrder
    <2>4. QED
      BY <1>2, <2>1, <2>2, <2>3 DEF Next
  <1>3. QED
    BY <1>1, <1>2, LogTypes, PTL DEF Spec

\* What trace prints of run r is from the lines it has read, in order.
LEMMA ReadInOrder ==
  ASSUME TypeOK, LinesInOrder, NEW r
  PROVE  /\ PrintedSoFar(EventsIn(LinesRead, r), LinesRead, r, Len(LinesRead))
         /\ \A n \in Of(LinesRead, r) : /\ n \in DOMAIN file /\ LinesRead[n] = file[n]
                                        /\ 1 \in DOMAIN file[n]
  <1>1. file \in Seq(Seq(Records))
    BY DEF TypeOK, Records
  <1>2. /\ LinesRead \in Seq(Seq(Records)) /\ Len(LinesRead) <= Len(file)
        /\ \A n \in DOMAIN LinesRead : LinesRead[n] = file[n] /\ Parses(LinesRead[n])
    BY <1>1, LinesReadParse
  <1>3. \A n \in DOMAIN LinesRead : n \in DOMAIN file
    BY <1>1, <1>2
  <1>4. \A n \in DOMAIN LinesRead : 1 \in DOMAIN file[n]
    <2>1. \A n \in DOMAIN file : file[n] \in Seq(Records)
      BY <1>1
    <2>2. QED
      BY <1>2, <1>3, <2>1 DEF Parses
  <1>5. \A m, n \in Of(LinesRead, r) : m < n => LinesRead[m][1].event < LinesRead[n][1].event
    BY <1>2, <1>3, <1>4 DEF LinesInOrder, Of
  <1>6. QED
    BY <1>2, <1>3, <1>4, <1>5, EventsInOrder DEF Of

\* Whatever writes failed and however many runs share the file, trace prints
\* events of the run it was asked about, in the order in which they happened.
THEOREM TracesTellTheTruth == Spec => []TraceTellsTheTruth
  <1>1. Init => TraceTellsTheTruth
    BY DEF Init, TraceTellsTheTruth
  <1>2. ASSUME TypeOK, LinesInOrder, TraceTellsTheTruth, [Next]_telemetryVars
        PROVE  TraceTellsTheTruth'
    <2>1. ASSUME NEW r \in RunIds, NEW extent \in Extents, Emit(r, extent)
          PROVE  TraceTellsTheTruth'
      BY <2>1 DEF Emit, TraceTellsTheTruth, NoTrace
    <2>2. ASSUME NEW r \in RunIds, Trace(r)
          PROVE  TraceTellsTheTruth'
      <3> DEFINE printed == EventsIn(LinesRead, r)
      <3>1. trace'.run_id = r /\ trace'.printed = printed /\ offered' = offered
        BY <2>2 DEF Trace
      <3>2. PrintedSoFar(printed, LinesRead, r, Len(LinesRead))
        BY <1>2, ReadInOrder
      <3> HIDE DEF printed
      <3>3. ASSUME NEW n \in DOMAIN printed
            PROVE  printed[n] \in 1..offered[r]
        <4>1. PICK m : m \in Of(LinesRead, r) /\ printed[n] = LinesRead[m][1].event
          BY <3>2 DEF PrintedSoFar
        <4>2. /\ m \in DOMAIN file /\ LinesRead[m] = file[m] /\ 1 \in DOMAIN file[m]
              /\ file[m][1].run_id = r
          BY <1>2, <4>1, ReadInOrder DEF Of
        <4>3. file[m][1].event <= offered[r]
          BY <1>2, <4>2 DEF LinesInOrder
        <4>4. file \in Seq(Seq(Records))
          BY <1>2 DEF TypeOK, Records
        <4>5. file[m][1].event \in 1..MaxEvents
          <5>1. file[m][1] \in Records
            BY <4>2, <4>4
          <5>2. QED
            BY <5>1 DEF Records
        <4>6. offered[r] \in Nat
          BY <1>2 DEF TypeOK
        <4>7. QED
          BY <4>1, <4>2, <4>3, <4>5, <4>6
      <3>4. \A i, j \in DOMAIN printed : i < j => printed[i] < printed[j]
        BY <3>2 DEF PrintedSoFar
      <3>5. QED
        BY <3>1, <3>3, <3>4 DEF TraceTellsTheTruth
    <2>3. CASE UNCHANGED telemetryVars
      BY <1>2, <2>3 DEF telemetryVars, TraceTellsTheTruth
    <2>4. QED
      BY <1>2, <2>1, <2>2, <2>3 DEF Next
  <1>3. QED
    BY <1>1, <1>2, LogTypes, LogInOrder, PTL DEF Spec

-----------------------------------------------------------------------------
\* As long as every line can be read, a run lacks no more lines than its writes
\* have failed.
NothingLostYet ==
    (\A n \in DOMAIN file : Parses(file[n])) =>
        \A r \in RunIds : offered[r] <= failed[r] + Cardinality(Of(file, r))

\* A write that goes on with a line that something is in spoils the line.
LEMMA WriteSpoils ==
  ASSUME TypeOK, LinesInOrder, NEW record \in Records, NEW extent \in Extents,
         Write(record, extent), extent # "nothing"
  PROVE  /\ terminated =>
               /\ Len(file') = Len(file) + 1 /\ DOMAIN file' = 1..(Len(file) + 1)
               /\ \A n \in 1..Len(file) : file'[n] = file[n]
               /\ file'[Len(file) + 1][1] = record
               /\ Parses(file'[Len(file) + 1]) <=> record.whole
         /\ ~ terminated =>
               /\ Len(file') = Len(file) /\ DOMAIN file' = DOMAIN file /\ Len(file) \in DOMAIN file
               /\ \A n \in DOMAIN file : n # Len(file) => file'[n] = file[n]
               /\ ~ Parses(file'[Len(file)])
         /\ Len(file) \in Nat /\ DOMAIN file = 1..Len(file)
         /\ terminated' = (extent = "line")
  <1>1. file \in Seq(Seq(Records)) /\ (~ terminated => file # <<>>) /\ terminated \in BOOLEAN
    BY DEF TypeOK, Records
  <1>2. CASE terminated
    <2>1. file' = Append(file, <<record>>) /\ terminated' = (extent = "line")
      BY <1>2 DEF Write
    <2>2. /\ <<record>> \in Seq(Records) /\ Len(<<record>>) = 1 /\ <<record>>[1] = record
      OBVIOUS
    <2>3. /\ Len(file) \in Nat /\ DOMAIN file = 1..Len(file)
          /\ Len(file') = Len(file) + 1 /\ DOMAIN file' = 1..(Len(file) + 1)
          /\ \A n \in 1..Len(file) : file'[n] = file[n]
          /\ file'[Len(file) + 1] = <<record>>
      BY <1>1, <2>1, <2>2, Appended
    <2>4. QED
      BY <1>2, <2>1, <2>2, <2>3 DEF Parses
  <1>3. CASE ~ terminated
    <2> DEFINE last == Len(file)
    <2>1. file' = [file EXCEPT ![last] = Append(@, record)] /\ terminated' = (extent = "line")
      BY <1>3 DEF Write
    <2>2. /\ last \in Nat /\ DOMAIN file = 1..last
          /\ last \in DOMAIN file /\ file[last] \in Seq(Records) /\ file[last] # <<>>
      BY <1>1, <1>3 DEF LinesInOrder
    <2>3. Len(Append(file[last], record)) # 1
      BY <2>2
    <2>4. /\ DOMAIN file' = DOMAIN file /\ Len(file') = last
          /\ file'[last] = Append(file[last], record)
          /\ \A n \in DOMAIN file : n # last => file'[n] = file[n]
      BY <1>1, <2>1, <2>2
    <2> HIDE DEF last
    <2>5. ~ Parses(file'[last])
      BY <2>3, <2>4 DEF Parses
    <2>6. QED
      BY <1>3, <2>1, <2>2, <2>4, <2>5 DEF last
  <1>4. QED
    BY <1>1, <1>2, <1>3

\* While every line parses, a run has all its events in the file but those whose
\* write failed.
LEMMA LosesOnlyItsOwn == Spec => []NothingLostYet
  <1>1. Init => NothingLostYet
    <2>1. SUFFICES ASSUME Init, NEW r \in RunIds
                   PROVE  offered[r] <= failed[r] + Cardinality(Of(file, r))
      BY DEF NothingLostYet
    <2>2. Of(file, r) = {}
      BY <2>1 DEF Init, Of
    <2>3. Cardinality(Of(file, r)) = 0
      BY <2>2, FS_EmptySet
    <2>4. QED
      BY <2>1, <2>3 DEF Init
  <1>2. ASSUME TypeOK, LinesInOrder, NothingLostYet, [Next]_telemetryVars
        PROVE  NothingLostYet'
    <2>1. ASSUME NEW r \in RunIds, NEW extent \in Extents, Emit(r, extent)
          PROVE  NothingLostYet'
      <3>1. SUFFICES ASSUME \A n \in DOMAIN file' : Parses(file'[n]), NEW s \in RunIds
                     PROVE  offered'[s] <= failed'[s] + Cardinality(Of(file', s))
        BY DEF NothingLostYet
      <3>2. PICK record \in Records :
               record.run_id = r /\ Write(record, extent)
        BY <1>2, <2>1, EmitWrites
      <3>3. /\ offered[s] \in Nat /\ failed[s] \in Nat
            /\ offered'[s] = offered[s] + (IF s = r THEN 1 ELSE 0)
            /\ failed'[s] = failed[s] + (IF s = r /\ extent # "line" THEN 1 ELSE 0)
        BY <1>2, <2>1 DEF Emit, TypeOK
      <3>4. /\ Of(file, s) = Of(file, s) \cap (1..Len(file)) /\ Len(file) \in Nat
            /\ Cardinality(Of(file, s)) \in Nat
        <4>1. Len(file) \in Nat /\ Of(file, s) = Of(file, s) \cap (1..Len(file))
          BY <1>2 DEF TypeOK, Of
        <4>2. Cardinality(Of(file, s) \cap (1..Len(file))) \in Nat
          BY <4>1, CountUpTo
        <4>3. QED
          BY <4>1, <4>2
      <3>5. CASE extent = "nothing"
        <4>1. file' = file
          BY <3>2, <3>5 DEF Write
        <4>2. offered[s] <= failed[s] + Cardinality(Of(file, s))
          BY <1>2, <3>1, <4>1 DEF NothingLostYet
        <4>3. QED
          BY <3>3, <3>4, <3>5, <4>1, <4>2
      <3>6. CASE extent # "nothing"
        <4>1. CASE ~ terminated
          BY <1>2, <3>1, <3>2, <3>6, <4>1, WriteSpoils
        <4>2. CASE terminated
          <5>1. /\ Len(file') = Len(file) + 1 /\ DOMAIN file' = 1..(Len(file) + 1)
                /\ DOMAIN file = 1..Len(file)
                /\ \A n \in 1..Len(file) : file'[n] = file[n]
                /\ file'[Len(file) + 1][1] = record
            BY <1>2, <3>2, <3>6, <4>2, WriteSpoils
          <5>2. \A n \in DOMAIN file : Parses(file[n])
            BY <3>1, <3>4, <5>1
          <5>3. offered[s] <= failed[s] + Cardinality(Of(file, s))
            BY <1>2, <5>2 DEF NothingLostYet
          <5>4. /\ Of(file', s) \cap (1..Len(file)) = Of(file, s)
                /\ Of(file', s) \cap (1..(Len(file) + 1)) = Of(file', s)
                /\ Len(file) + 1 \in Of(file', s) <=> s = r
            <6>1. \A n \in 1..Len(file) : n \in Of(file', s) <=> n \in Of(file, s)
              BY <3>4, <5>1 DEF Of
            <6>2. Len(file) + 1 \in Of(file', s) <=> s = r
              BY <3>2, <3>4, <5>1 DEF Of
            <6>3. /\ Of(file, s) \subseteq 1..Len(file)
                  /\ Of(file', s) \subseteq 1..(Len(file) + 1)
              BY <5>1 DEF Of
            <6>4. 1..Len(file) \subseteq 1..(Len(file) + 1)
              BY <3>4
            <6>5. QED
              BY <6>1, <6>2, <6>3, <6>4
          <5>5. Cardinality(Of(file', s)) = Cardinality(Of(file, s)) + (IF s = r THEN 1 ELSE 0)
            <6>1. Cardinality(Of(file', s) \cap (1..(Len(file) + 1)))
                    = Cardinality(Of(file', s) \cap (1..Len(file)))
                      + (IF Len(file) + 1 \in Of(file', s) THEN 1 ELSE 0)
              BY <3>4, CountUpTo
            <6>2. QED
              BY <5>4, <6>1
          <5>6. QED
            BY <3>3, <3>4, <5>3, <5>5
        <4>3. QED
          BY <1>2, <4>1, <4>2 DEF TypeOK
      <3>7. QED
        BY <3>5, <3>6
    <2>2. ASSUME NEW r \in RunIds, Trace(r)
          PROVE  NothingLostYet'
      BY <1>2, <2>2 DEF Trace, NothingLostYet, Of
    <2>3. CASE UNCHANGED telemetryVars
      BY <1>2, <2>3 DEF telemetryVars, NothingLostYet, Of
    <2>4. QED
      BY <1>2, <2>1, <2>2, <2>3 DEF Next
  <1>3. QED
    BY <1>1, <1>2, LogTypes, LogInOrder, PTL DEF Spec

\* A trace that succeeds lacks no more of its run's events than writes of that
\* run have failed, whatever the other runs did to the file.
THEOREM CleanTracesAreComplete == Spec => []CleanTraceIsComplete
  <1>1. Init => CleanTraceIsComplete
    BY DEF Init, CleanTraceIsComplete, NoTrace
  <1>2. ASSUME TypeOK, LinesInOrder, NothingLostYet, CleanTraceIsComplete, [Next]_telemetryVars
        PROVE  CleanTraceIsComplete'
    <2>1. ASSUME NEW r \in RunIds, NEW extent \in Extents, Emit(r, extent)
          PROVE  CleanTraceIsComplete'
      BY <2>1 DEF Emit, CleanTraceIsComplete, NoTrace
    <2>2. ASSUME NEW r \in RunIds, Trace(r)
          PROVE  CleanTraceIsComplete'
      <3> DEFINE printed == EventsIn(LinesRead, r)
      <3>1. SUFFICES ASSUME trace'.exit = 0
                     PROVE  offered[r] - Len(printed) <= failed[r]
        BY <2>2 DEF Trace, CleanTraceIsComplete
      <3>2. LinesRead = file
        BY <2>2, <3>1 DEF Trace
      <3>3. file \in Seq(Seq(Records))
        BY <1>2 DEF TypeOK, Records
      <3>4. \A n \in DOMAIN file : Parses(file[n])
        BY <3>2, <3>3, LinesReadParse
      <3>5. offered[r] <= failed[r] + Cardinality(Of(file, r))
        BY <1>2, <3>4 DEF NothingLostYet
      <3>6. Len(printed) = Cardinality(Of(file, r) \cap (1..Len(file)))
        BY <1>2, <3>2, ReadInOrder DEF PrintedSoFar
      <3>7. Len(file) \in Nat /\ Of(file, r) = Of(file, r) \cap (1..Len(file))
        BY <3>3 DEF Of
      <3>8. Cardinality(Of(file, r)) \in Nat
        BY <3>7, CountUpTo
      <3>9. offered[r] \in Nat /\ failed[r] \in Nat
        BY <1>2 DEF TypeOK
      <3> HIDE DEF printed
      <3>10. Len(printed) = Cardinality(Of(file, r))
        BY <3>6, <3>7
      <3>11. QED
        BY <3>5, <3>8, <3>9, <3>10
    <2>3. CASE UNCHANGED telemetryVars
      BY <1>2, <2>3 DEF telemetryVars, CleanTraceIsComplete
    <2>4. QED
      BY <1>2, <2>1, <2>2, <2>3 DEF Next
  <1>3. QED
    BY <1>1, <1>2, LogTypes, LogInOrder, LosesOnlyItsOwn, PTL DEF Spec

-----------------------------------------------------------------------------
Readable == {n \in DOMAIN file : Parses(file[n])}

\* What the next write may cost over its own event: a line that has no end is
\* spoilt, and was so already unless it could be read.
AtStake == IF terminated THEN 0 ELSE IF Parses(file[Len(file)]) THEN 2 ELSE 1

DamageSoFar ==
    /\ IsFiniteSet(AllUpTo(offered)) /\ IsFiniteSet(AllUpTo(failed))
    /\ \A r \in RunIds : failed[r] <= offered[r]
    /\ Cardinality(AllUpTo(offered)) + AtStake
         <= Cardinality(Readable) + 2 * Cardinality(AllUpTo(failed))

\* One more event of a run.
LEMMA OneMore ==
  ASSUME NEW count \in [RunIds -> Nat], NEW r \in RunIds, count[r] + 1 \in 1..MaxEvents,
         IsFiniteSet(AllUpTo(count))
  PROVE  LET more == [count EXCEPT ![r] = count[r] + 1]
         IN  /\ IsFiniteSet(AllUpTo(more))
             /\ Cardinality(AllUpTo(more)) = Cardinality(AllUpTo(count)) + 1
  <1> DEFINE more == [count EXCEPT ![r] = count[r] + 1]
             e == <<r, count[r] + 1>>
  <1>1. \A s \in RunIds : more[s] = IF s = r THEN count[r] + 1 ELSE count[s]
    OBVIOUS
  <1>2. AllUpTo(more) = AllUpTo(count) \cup {e} /\ e \notin AllUpTo(count)
    BY <1>1 DEF AllUpTo
  <1> HIDE DEF more, e
  <1>3. QED
    <2>1. /\ IsFiniteSet(AllUpTo(count) \cup {e})
          /\ Cardinality(AllUpTo(count) \cup {e}) = Cardinality(AllUpTo(count)) + 1
      BY <1>2, FS_AddElement
    <2>2. IsFiniteSet(AllUpTo(more)) /\ Cardinality(AllUpTo(more)) = Cardinality(AllUpTo(count)) + 1
      BY <1>2, <2>1
    <2>3. QED
      BY <2>2 DEF more

\* What a write does to the lines that can be read.
LEMMA ReadableAfter ==
  ASSUME TypeOK, LinesInOrder, NEW record \in Records, NEW extent \in Extents,
         Write(record, extent), record.whole <=> extent \in {"line", "record"}
  PROVE  /\ Cardinality(Readable) \in Nat /\ AtStake \in 0..2
         /\ Cardinality(Readable') + (IF extent = "line" THEN 0 ELSE 2)
              >= Cardinality(Readable) + 1 + AtStake' - AtStake
  <1>1. file \in Seq(Seq(Records)) /\ terminated \in BOOLEAN
    BY DEF TypeOK, Records
  <1>2. Len(file) \in Nat /\ DOMAIN file = 1..Len(file)
    BY <1>1
  <1>3. IsFiniteSet(Readable) /\ Cardinality(Readable) \in Nat
    <2>1. Readable \subseteq 1..Len(file)
      BY <1>2 DEF Readable
    <2>2. QED
      BY <1>2, <2>1, CountBelow
  <1>4. AtStake \in 0..2
    BY DEF AtStake
  <1>5. CASE extent = "nothing"
    <2>1. Readable' = Readable /\ AtStake' = AtStake
      BY <1>5 DEF Write, Readable, AtStake
    <2>2. QED
      BY <1>3, <1>4, <1>5, <2>1
  <1>6. CASE extent # "nothing" /\ terminated
    <2>1. /\ Len(file') = Len(file) + 1 /\ DOMAIN file' = 1..(Len(file) + 1)
          /\ \A n \in 1..Len(file) : file'[n] = file[n]
          /\ Parses(file'[Len(file) + 1]) <=> record.whole
          /\ terminated' = (extent = "line")
      BY <1>6, WriteSpoils
    <2>2. CASE record.whole
      <3>1. Readable' = Readable \cup {Len(file) + 1} /\ Len(file) + 1 \notin Readable
        BY <1>2, <2>1, <2>2 DEF Readable
      <3>2. Cardinality(Readable') = Cardinality(Readable) + 1
        BY <1>3, <3>1, FS_AddElement
      <3>3. AtStake = 0 /\ AtStake' = IF extent = "line" THEN 0 ELSE 2
        BY <1>6, <2>1, <2>2 DEF AtStake
      <3>4. QED
        BY <1>3, <1>4, <3>2, <3>3
    <2>3. CASE ~ record.whole
      <3>1. Readable' = Readable
        BY <1>2, <2>1, <2>3 DEF Readable
      <3>2. AtStake = 0 /\ AtStake' = 1 /\ extent # "line"
        BY <1>6, <2>1, <2>3 DEF AtStake
      <3>3. QED
        BY <1>3, <1>4, <3>1, <3>2
    <2>4. QED
      BY <2>2, <2>3
  <1>7. CASE extent # "nothing" /\ ~ terminated
    <2>1. /\ Len(file') = Len(file) /\ DOMAIN file' = DOMAIN file /\ Len(file) \in DOMAIN file
          /\ \A n \in DOMAIN file : n # Len(file) => file'[n] = file[n]
          /\ ~ Parses(file'[Len(file)])
          /\ terminated' = (extent = "line")
      BY <1>7, WriteSpoils
    <2>2. Readable' = Readable \ {Len(file)}
      BY <2>1 DEF Readable
    <2>3. Cardinality(Readable')
            = Cardinality(Readable) - (IF Parses(file[Len(file)]) THEN 1 ELSE 0)
      <3>1. Len(file) \in Readable <=> Parses(file[Len(file)])
        BY <2>1 DEF Readable
      <3>2. Cardinality(Readable \ {Len(file)})
              = IF Len(file) \in Readable THEN Cardinality(Readable) - 1 ELSE Cardinality(Readable)
        BY <1>3, FS_RemoveElement
      <3>3. QED
        BY <1>3, <2>2, <3>1, <3>2
    <2>4. /\ AtStake = IF Parses(file[Len(file)]) THEN 2 ELSE 1
          /\ AtStake' = IF extent = "line" THEN 0 ELSE 1
      BY <1>7, <2>1 DEF AtStake
    <2>5. QED
      BY <1>3, <1>4, <2>3, <2>4
  <1>8. QED
    BY <1>1, <1>5, <1>6, <1>7

\* A failing write costs at most two events: its own, and that of the next line.
LEMMA DamageIsCounted == Spec => []DamageSoFar
  <1>1. Init => DamageSoFar
    <2>1. SUFFICES ASSUME Init
                   PROVE  DamageSoFar
      OBVIOUS
    <2>2. AllUpTo(offered) = {} /\ AllUpTo(failed) = {} /\ Readable = {} /\ AtStake = 0
      BY <2>1 DEF Init, AllUpTo, Readable, AtStake
    <2>3. /\ IsFiniteSet(AllUpTo(offered)) /\ IsFiniteSet(AllUpTo(failed))
          /\ Cardinality(AllUpTo(offered)) = 0 /\ Cardinality(AllUpTo(failed)) = 0
          /\ Cardinality(Readable) = 0
      BY <2>2, FS_EmptySet
    <2>4. \A r \in RunIds : failed[r] <= offered[r]
      BY <2>1 DEF Init
    <2>5. QED
      BY <2>2, <2>3, <2>4 DEF DamageSoFar
  <1>2. ASSUME TypeOK, TypeOK', LinesInOrder, DamageSoFar, [Next]_telemetryVars
        PROVE  DamageSoFar'
    <2>1. ASSUME NEW r \in RunIds, NEW extent \in Extents, Emit(r, extent)
          PROVE  DamageSoFar'
      <3>1. /\ offered \in [RunIds -> Nat] /\ failed \in [RunIds -> Nat]
            /\ IsFiniteSet(AllUpTo(offered)) /\ IsFiniteSet(AllUpTo(failed))
            /\ failed[r] <= offered[r]
        BY <1>2 DEF TypeOK, DamageSoFar
      <3>2. /\ offered' = [offered EXCEPT ![r] = offered[r] + 1]
            /\ offered[r] + 1 \in 1..MaxEvents
        BY <1>2, <2>1, EmitWrites
      <3>3. /\ IsFiniteSet(AllUpTo(offered'))
            /\ Cardinality(AllUpTo(offered')) = Cardinality(AllUpTo(offered)) + 1
        BY <3>1, <3>2, OneMore
      <3>4. /\ IsFiniteSet(AllUpTo(failed'))
            /\ Cardinality(AllUpTo(failed'))
                 = Cardinality(AllUpTo(failed)) + (IF extent = "line" THEN 0 ELSE 1)
        <4>1. /\ Cardinality(AllUpTo(failed)) \in Nat
              /\ failed[r] + 1 \in 1..MaxEvents
          <5>1. Cardinality(AllUpTo(failed)) \in Nat
            BY <3>1, FS_CardinalityType
          <5>2. failed[r] \in Nat /\ offered[r] \in Nat
            BY <3>1
          <5>3. QED
            BY <3>1, <3>2, <5>1, <5>2, TelemetryAssumption
        <4>2. CASE extent = "line"
          <5>1. failed' = failed
            BY <2>1, <3>1, <4>2 DEF Emit
          <5>2. QED
            BY <3>1, <4>1, <4>2, <5>1
        <4>3. CASE extent # "line"
          <5>1. failed' = [failed EXCEPT ![r] = failed[r] + 1]
            BY <2>1, <4>3 DEF Emit
          <5>2. QED
            BY <3>1, <4>1, <4>3, <5>1, OneMore
        <4>4. QED
          BY <4>2, <4>3
      <3>5. PICK record \in Records : /\ record.whole <=> extent \in {"line", "record"}
                                      /\ Write(record, extent)
        BY <1>2, <2>1, EmitWrites
      <3>6. /\ Cardinality(Readable) \in Nat /\ AtStake \in 0..2
            /\ Cardinality(Readable') + (IF extent = "line" THEN 0 ELSE 2)
                 >= Cardinality(Readable) + 1 + AtStake' - AtStake
        BY <1>2, <3>5, ReadableAfter
      <3>7. AtStake' \in 0..2 /\ Cardinality(Readable') \in Int
        <4>1. AtStake' \in 0..2
          BY DEF AtStake
        <4>2. Readable' \subseteq 1..Len(file') /\ Len(file') \in Nat
          <5>1. file' \in Seq(Seq(Records))
            BY <1>2 DEF TypeOK, Records
          <5>2. DOMAIN file' = 1..Len(file') /\ Len(file') \in Nat
            BY <5>1
          <5>3. Readable' \subseteq DOMAIN file'
            BY DEF Readable
          <5>4. QED
            BY <5>2, <5>3
        <4>3. Cardinality(Readable') \in Nat
          BY <4>2, CountBelow
        <4>4. QED
          BY <4>1, <4>3
      <3>8. \A s \in RunIds : failed'[s] <= offered'[s]
        BY <1>2, <2>1, <3>1 DEF Emit, DamageSoFar
      <3>9. /\ Cardinality(AllUpTo(offered)) \in Nat /\ Cardinality(AllUpTo(failed)) \in Nat
            /\ Cardinality(AllUpTo(offered)) + AtStake
                 <= Cardinality(Readable) + 2 * Cardinality(AllUpTo(failed))
        BY <1>2, <3>1, FS_CardinalityType DEF DamageSoFar
      <3>10. Cardinality(AllUpTo(offered')) + AtStake'
               <= Cardinality(Readable') + 2 * Cardinality(AllUpTo(failed'))
        BY <3>3, <3>4, <3>6, <3>7, <3>9
      <3>11. AllUpTo(offered)' = AllUpTo(offered') /\ AllUpTo(failed)' = AllUpTo(failed')
        BY DEF AllUpTo
      <3>12. QED
        BY <3>3, <3>4, <3>8, <3>10, <3>11 DEF DamageSoFar
    <2>2. ASSUME NEW r \in RunIds, Trace(r)
          PROVE  DamageSoFar'
      BY <1>2, <2>2 DEF Trace, DamageSoFar, AllUpTo, Readable, AtStake
    <2>3. CASE UNCHANGED telemetryVars
      BY <1>2, <2>3 DEF telemetryVars, DamageSoFar, AllUpTo, Readable, AtStake
    <2>4. QED
      BY <1>2, <2>1, <2>2, <2>3 DEF Next
  <1>3. QED
    BY <1>1, <1>2, LogTypes, LogInOrder, PTL DEF Spec

\* However the failures fall, in any number of runs: a failed write costs the log
\* two events at the most.
THEOREM DamageStaysBounded == Spec => []DamageIsBounded
  <1>1. ASSUME TypeOK, DamageSoFar
        PROVE  DamageIsBounded
    <2>1. /\ Cardinality(AllUpTo(offered)) \in Nat /\ Cardinality(AllUpTo(failed)) \in Nat
          /\ Cardinality(AllUpTo(offered)) + AtStake
               <= Cardinality(Readable) + 2 * Cardinality(AllUpTo(failed))
      BY <1>1, FS_CardinalityType DEF DamageSoFar
    <2>2. Cardinality(Readable) \in Nat
      <3>1. Readable \subseteq 1..Len(file) /\ Len(file) \in Nat
        BY <1>1 DEF Readable, TypeOK
      <3>2. QED
        BY <3>1, CountBelow
    <2>3. AtStake \in 0..2
      BY DEF AtStake
    <2>4. QED
      BY <2>1, <2>2, <2>3 DEF DamageIsBounded, Readable
  <1>2. QED
    BY <1>1, LogTypes, DamageIsCounted, PTL
=============================================================================
