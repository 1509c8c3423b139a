--------------------------- MODULE ExecutorProofs ---------------------------
(***************************************************************************)
(* Proofs about Executor and its Registry, for all programs, policies,     *)
(* handlers, providers and bounds: type correctness, who serves a key, the *)
(* policy ceiling, the step budget, what a denial does to a run, and what  *)
(* its telemetry tells of it.                                              *)
(***************************************************************************)
EXTENDS Executor, CommonProofs

-----------------------------------------------------------------------------
(* The registry's part of the state. *)

\* The registry starts empty.
LEMMA RegTypeInit == RegInit => RegTypeOK
  BY DEF RegInit, RegTypeOK

\* Registrations and changed declarations keep the registry well typed.
LEMMA RegTypeStep ==
  ASSUME RegTypeOK, RegNext
  PROVE  RegTypeOK'
  <1>1. ASSUME NEW p \in Providers, Register(p)
        PROVE  RegTypeOK'
    <2>1. IndexedKeys(declares[p]) \subseteq Keys
      BY DEF RegTypeOK, Keys
    <2>2. DOMAIN index' = DOMAIN index \cup IndexedKeys(declares[p])
      BY <1>1 DEF Register
    <2>3. \A k \in DOMAIN index' : index'[k] \in Providers
      BY <1>1 DEF Register, RegTypeOK
    <2>4. registrations' \in Seq([provider : Providers, declared : Declarations])
      BY <1>1 DEF Register, RegTypeOK
    <2>5. QED
      BY <1>1, <2>1, <2>2, <2>3, <2>4 DEF Register, RegTypeOK
  <1>2. ASSUME NEW p \in Providers, NEW d \in Declarations, Redeclare(p, d)
        PROVE  RegTypeOK'
    BY <1>2 DEF Redeclare, RegTypeOK
  <1>3. QED
    BY <1>1, <1>2 DEF RegNext

\* A step that leaves the registry alone keeps its type.
LEMMA RegTypeStutter ==
  ASSUME RegTypeOK, UNCHANGED regVars
  PROVE  RegTypeOK'
  BY DEF RegTypeOK, regVars

-----------------------------------------------------------------------------
(* Who serves a key. *)

\* What one registration does to the answer: its keys go to its provider, every
\* other key keeps its provider and its last reader.
LEMMA RegisterKeepsOrder ==
  ASSUME RegTypeOK, LastRegistrationWins, NEW p \in Providers, Register(p)
  PROVE  LastRegistrationWins'
  <1> DEFINE n == Len(registrations)
             new == IndexedKeys(declares[p])
             reads(k, i) == k \in IndexedKeys(registrations[i].declared)
             reads1(k, i) == k \in IndexedKeys(registrations'[i].declared)
  <1>1. /\ n \in Nat /\ DOMAIN registrations = 1..n /\ DOMAIN registrations' = 1..(n + 1)
        /\ \A i \in 1..n : registrations'[i] = registrations[i]
        /\ registrations'[n + 1] = [provider |-> p, declared |-> declares[p]]
    BY Appended DEF Register, RegTypeOK
  <1>2. /\ DOMAIN index' = DOMAIN index \cup new
        /\ \A k \in DOMAIN index' : index'[k] = IF k \in new THEN p ELSE index[k]
    BY DEF Register
  <1>3. /\ \A k, i : i \in 1..n => (reads1(k, i) <=> reads(k, i))
        /\ \A k : reads1(k, n + 1) <=> k \in new
    BY <1>1
  <1>4. /\ \A k \in Keys : k \in DOMAIN index <=> \E i \in 1..n : reads(k, i)
        /\ \A k \in DOMAIN index :
               \E i \in 1..n : /\ reads(k, i)
                              /\ \A j \in 1..n : reads(k, j) => j <= i
                              /\ index[k] = registrations[i].provider
    BY <1>1 DEF LastRegistrationWins
  <1> HIDE DEF n, new, reads, reads1
  <1>5. ASSUME NEW k \in Keys
        PROVE  k \in DOMAIN index' <=> \E i \in 1..(n + 1) : reads1(k, i)
    BY <1>1, <1>2, <1>3, <1>4
  <1>6. ASSUME NEW k \in DOMAIN index'
        PROVE  \E i \in 1..(n + 1) : /\ reads1(k, i)
                                    /\ \A j \in 1..(n + 1) : reads1(k, j) => j <= i
                                    /\ index'[k] = registrations'[i].provider
    <2>1. CASE k \in new
      BY <2>1, <1>1, <1>2, <1>3
    <2>2. CASE k \notin new
      <3>1. PICK i \in 1..n : /\ reads(k, i)
                             /\ \A j \in 1..n : reads(k, j) => j <= i
                             /\ index[k] = registrations[i].provider
        BY <1>2, <1>4, <2>2
      <3>2. ~ reads1(k, n + 1) /\ \A j \in 1..(n + 1) : j \in 1..n \/ j = n + 1
        BY <1>1, <1>3, <2>2
      <3>3. /\ i \in 1..(n + 1) /\ reads1(k, i)
            /\ index'[k] = registrations'[i].provider
        BY <1>1, <1>2, <1>3, <2>2, <3>1
      <3>4. ASSUME NEW j \in 1..(n + 1), reads1(k, j)
            PROVE  j <= i
        <4>1. j \in 1..n /\ reads(k, j)
          BY <1>3, <3>2, <3>4
        <4>2. QED
          BY <3>1, <4>1
      <3>5. QED
        BY <3>3, <3>4
    <2>3. QED
      BY <2>1, <2>2
  <1>7. QED
    BY <1>1, <1>5, <1>6 DEF LastRegistrationWins, reads1, Keys

\* A key is served by the provider that was last registered for it, whatever
\* providers declare later and however registrations fail.
THEOREM LastOneServes == RegSpec => []LastRegistrationWins
  <1>1. RegInit => RegTypeOK /\ LastRegistrationWins
    BY RegTypeInit DEF RegInit, LastRegistrationWins
  <1>2. ASSUME RegTypeOK, LastRegistrationWins, [RegNext]_regVars
        PROVE  RegTypeOK' /\ LastRegistrationWins'
    <2>1. ASSUME NEW p \in Providers, Register(p)
          PROVE  LastRegistrationWins'
      BY <1>2, <2>1, RegisterKeepsOrder
    <2>2. ASSUME NEW p \in Providers, NEW d \in Declarations, Redeclare(p, d)
          PROVE  LastRegistrationWins'
      BY <1>2, <2>2 DEF Redeclare, LastRegistrationWins, Keys
    <2>3. ASSUME UNCHANGED regVars
          PROVE  LastRegistrationWins'
      <3>1. index' = index /\ registrations' = registrations
        BY <2>3 DEF regVars
      <3>2. QED
        BY <1>2, <3>1 DEF LastRegistrationWins, Keys
    <2>4. QED
      BY <1>2, <2>1, <2>2, <2>3, RegTypeStep, RegTypeStutter DEF RegNext
  <1>3. QED
    BY <1>1, <1>2, PTL DEF RegSpec

-----------------------------------------------------------------------------
(* Small facts about sequences and counters. *)

\* A counter below its bound may count one more.
LEMMA CountsUp ==
  ASSUME NEW m \in Nat, NEW n \in 0..m, n < m
  PROVE  n + 1 \in 0..m
  OBVIOUS

\* The sequences of at most one element.
LEMMA ShortSeqs ==
  ASSUME NEW S, NEW x \in S
  PROVE  <<>> \in Seq(S) /\ <<x>> \in Seq(S)
  OBVIOUS

\* One or two more elements.
LEMMA LongerSeqs ==
  ASSUME NEW S, NEW s \in Seq(S), NEW x \in S, NEW y \in S
  PROVE  Append(s, x) \in Seq(S) /\ Append(Append(s, x), y) \in Seq(S)
  OBVIOUS

-----------------------------------------------------------------------------
(* Type correctness. *)

\* The events run() emits are well-formed events of the program's steps.
LEMMA EventTypes1 ==
  ASSUME NEW type \in EventTypes, NEW step \in DOMAIN Nodes \cup {""}
  PROVE  Event(type, step) \in EventRecords
  BY DEF Event, EventRecords

\* A new executor is well typed.
LEMMA TypeInit == Init => TypeOK
  <1> SUFFICES ASSUME Init PROVE TypeOK
    OBVIOUS
  <1>1. RegTypeOK
    BY RegTypeInit DEF Init
  <1>2. events \in Seq(EventRecords) /\ path \in Seq(DOMAIN Nodes)
    BY DEF Init
  <1>3. loopCounts \in [DOMAIN Nodes -> Nat]
    BY DEF Init
  <1>4. runs \in 0..MaxRuns /\ calls \in 0..MaxCalls
    BY ExecutorAssumption DEF Init
  <1>5. QED
    BY <1>1, <1>2, <1>3, <1>4 DEF Init, TypeOK, NoResult

\* Every step keeps the types.
LEMMA TypeStep ==
  ASSUME TypeOK, [Next]_vars
  PROVE  TypeOK'
  <1> SUFFICES config' = config => TypeOK'
    BY DEF Next, vars, execVars, StartRun, RefuseRun, BeginStep, RequestTool,
                StepReturns, HandlerRaises
  <1> HAVE config' = config
  <1> DEFINE N == DOMAIN Nodes
             E == EventRecords
             V == Violations \cup {None}
             C == {NoCall} \cup [verdict : Verdicts, step_id : N, requested : Requests]
             R(x) == /\ x.status \in {"none", "raised", "returned"}
                     /\ x.status = "returned" => x.state \in StepStates /\ x.violation \in V
  <1>0. Nodes' = Nodes /\ EventRecords' = EventRecords /\ Violations' = Violations
    BY DEF Nodes, EventRecords, Violations
  <1>t. /\ RegTypeOK
        /\ config \in Configs
        /\ loopCounts \in [N -> Nat] /\ currentViolation \in V
        /\ pc \in {"idle", "top", "execute"} /\ (pc = "execute" => currentId \in N)
        /\ runs \in 0..MaxRuns
        /\ path \in Seq(N) /\ stepCount \in Nat /\ events \in Seq(E)
        /\ R(result) /\ closures \subseteq N /\ lastCall \in C
        /\ calls \in 0..MaxCalls
    BY DEF TypeOK
  <1> SUFFICES
        /\ RegTypeOK'
        /\ loopCounts' \in [N -> Nat] /\ currentViolation' \in V
        /\ pc' \in {"idle", "top", "execute"} /\ (pc' = "execute" => currentId' \in N)
        /\ runs' \in 0..MaxRuns
        /\ path' \in Seq(N) /\ stepCount' \in Nat /\ events' \in Seq(E)
        /\ R(result') /\ closures' \subseteq N /\ lastCall' \in C
        /\ calls' \in 0..MaxCalls
    BY <1>0, <1>t DEF TypeOK
  <1>e. /\ \A type \in EventTypes, step \in N : Event(type, step) \in E
        /\ \A type \in EventTypes : Event(type, "") \in E
    BY EventTypes1
  <1>b. 0 \in 0..MaxCalls /\ MaxRuns \in Nat /\ MaxCalls \in Nat
    BY ExecutorAssumption
  <1>n. \A x, y : R(Raised(x)) /\ R(NoResult)
                  /\ (x \in StepStates /\ y \in V => R(Returned(x, y)))
    BY DEF Raised, NoResult, Returned
  <1> HIDE DEF N, E, V, C, R
  <1>1. CASE StartRun
    <2>1. /\ runs < MaxRuns /\ runs' = runs + 1 /\ pc' = "top"
          /\ path' = <<>> /\ stepCount' = 0 /\ events' = <<Event("run_started", "")>>
          /\ result' = NoResult
          /\ UNCHANGED <<loopCounts, currentViolation, closures, lastCall, calls, regVars>>
      BY <1>1 DEF StartRun
    <2>2. runs' \in 0..MaxRuns
      BY <2>1, <1>t, <1>b, CountsUp
    <2>3. events' \in Seq(E)
      <3>1. Event("run_started", "") \in E
        BY <1>e DEF EventTypes
      <3>2. <<Event("run_started", "")>> \in Seq(E)
        BY <3>1, ShortSeqs, Zenon
      <3>3. QED
        BY <2>1, <3>2, Zenon
    <2>4. path' \in Seq(N) /\ stepCount' \in Nat
      <3>1. <<>> \in Seq(N) /\ 0 \in Nat
        OBVIOUS
      <3>2. QED
        BY <2>1, <3>1, Zenon
    <2>5. RegTypeOK'
      BY <2>1, <1>t, RegTypeStutter
    <2>6. QED
      BY <2>1, <2>2, <2>3, <2>4, <2>5, <1>t, <1>n
  <1>2. CASE RefuseRun
    <2>1. /\ runs < MaxRuns /\ runs' = runs + 1 /\ \E x : result' = Raised(x)
          /\ UNCHANGED <<loopCounts, currentViolation, pc, currentId, path, stepCount,
                         events, closures, lastCall, calls, regVars>>
      BY <1>2 DEF RefuseRun
    <2>2. runs' \in 0..MaxRuns
      BY <2>1, <1>t, <1>b, CountsUp
    <2>3. RegTypeOK'
      BY <2>1, <1>t, RegTypeStutter
    <2>4. QED
      BY <2>1, <2>2, <2>3, <1>t, <1>n
  <1>3. CASE BeginStep
    <2>1. /\ calls' = 0
          /\ UNCHANGED <<loopCounts, currentViolation, runs, currentId, lastCall, regVars>>
      BY <1>3 DEF BeginStep
    <2>2. RegTypeOK'
      BY <2>1, <1>t, RegTypeStutter
    <2>3. CASE currentId \notin N
      <3>1. /\ pc' = "idle" /\ \E x : result' = Raised(x)
            /\ UNCHANGED <<path, stepCount, events, closures>>
        BY <1>3, <2>3 DEF BeginStep, N
      <3>2. QED
        BY <2>1, <2>2, <3>1, <1>t, <1>b, <1>n
    <2>4. CASE currentId \in N
      <3>1. /\ path' = Append(path, currentId) /\ stepCount' = stepCount + 1
            /\ \/ /\ pc' = "idle" /\ \E x : result' = Raised(x)
                  /\ UNCHANGED <<events, closures>>
               \/ /\ pc' = "execute" /\ result' = result
                  /\ events' = Append(events, Event("step_started", currentId))
                  /\ closures' = closures \cup {currentId}
        BY <1>3, <2>4 DEF BeginStep, N
      <3>2. path' \in Seq(N) /\ stepCount' \in Nat
        BY <3>1, <2>4, <1>t
      <3>3. Event("step_started", currentId) \in E
        BY <2>4, <1>e DEF EventTypes
      <3>4. events' \in Seq(E)
        <4>1. Append(events, Event("step_started", currentId)) \in Seq(E)
          BY <3>3, <1>t, LongerSeqs, Zenon
        <4>2. QED
          BY <3>1, <4>1, <1>t, Zenon
      <3>5. QED
        BY <2>1, <2>2, <2>4, <3>1, <3>2, <3>4, <1>t, <1>b, <1>n
    <2>5. QED
      BY <2>3, <2>4
  <1>4. ASSUME NEW sid \in closures, NEW cap \in Requests, RequestTool(sid, cap)
        PROVE  /\ RegTypeOK'
               /\ currentViolation' \in V /\ events' \in Seq(E)
               /\ lastCall' \in C /\ calls' \in 0..MaxCalls
               /\ UNCHANGED <<loopCounts, pc, runs, currentId, path, stepCount,
                              result, closures>>
    <2> DEFINE gate == GateVerdict(cap, Nodes[sid])
               verdict == IF gate # "granted" THEN gate
                          ELSE IF config.registry THEN Route(cap) ELSE "stub"
    <2>1. /\ calls < MaxCalls /\ calls' = calls + 1
          /\ lastCall' = [verdict |-> verdict, step_id |-> sid, requested |-> cap]
          /\ UNCHANGED <<loopCounts, pc, runs, currentId, path, stepCount, result,
                         closures, regVars>>
      BY <1>4 DEF RequestTool
    <2>2. calls' \in 0..MaxCalls
      BY <2>1, <1>t, <1>b
    <2>3. sid \in N
      BY <1>t
    <2>4. verdict \in Verdicts
      BY DEF GateVerdict, Route, Verdicts
    <2>5. lastCall' \in C
      BY <2>1, <2>3, <2>4 DEF C
    <2>6. \/ events' = Append(events, Event("capability_denied", sid))
          \/ events' = Append(events, Event("capability_granted", sid))
          \/ events' = events
      BY <1>4 DEF RequestTool
    <2>7. /\ Event("capability_denied", sid) \in E
          /\ Event("capability_granted", sid) \in E
      BY <2>3, <1>e DEF EventTypes
    <2>8. events' \in Seq(E)
      <3>1. /\ Append(events, Event("capability_denied", sid)) \in Seq(E)
            /\ Append(events, Event("capability_granted", sid)) \in Seq(E)
        BY <2>7, <1>t, LongerSeqs, Zenon
      <3>2. QED
        BY <2>6, <3>1, <1>t, Zenon
    <2>9. \/ currentViolation' = [step_id |-> sid, requested |-> cap]
          \/ currentViolation' = currentViolation
      BY <1>4 DEF RequestTool
    <2>10. currentViolation' \in V
      BY <2>3, <2>9, <1>t DEF V, N, Violations
    <2>11. RegTypeOK'
      BY <2>1, <1>t, RegTypeStutter
    <2>12. QED
      BY <2>1, <2>2, <2>5, <2>8, <2>10, <2>11
  <1>5. ASSUME NEW r \in HandlerStates, StepReturns(r)
        PROVE  /\ RegTypeOK' /\ calls' \in 0..MaxCalls
               /\ loopCounts' \in [N -> Nat] /\ events' \in Seq(E)
               /\ pc' \in {"idle", "top"} /\ R(result')
               /\ UNCHANGED <<currentViolation, runs, path, stepCount, closures, lastCall>>
    <2>1. /\ pc = "execute" /\ calls' = 0 /\ (Complete(r) \/ Advance(r))
          /\ UNCHANGED <<currentViolation, runs, path, stepCount, closures, lastCall, regVars>>
      BY <1>5 DEF StepReturns
    <2>2. RegTypeOK' /\ calls' \in 0..MaxCalls /\ currentId \in N
      BY <2>1, <1>t, <1>b, RegTypeStutter
    <2>3. \A x : StepEvent(x) \in E
      BY <2>2, <1>e DEF StepEvent, EventTypes
    <2>4. CASE Complete(r)
      <3>1. /\ events' = Append(Append(events, StepEvent(Effective(r))), Event("run_completed", ""))
            /\ pc' = "idle" /\ UNCHANGED loopCounts
            /\ result' = Returned(Effective(r),
                             IF Effective(r) = "DENIED" THEN currentViolation ELSE None)
        BY <2>4 DEF Complete
      <3>2. Event("run_completed", "") \in E
        BY <1>e DEF EventTypes
      <3>3. events' \in Seq(E)
        BY <2>3, <3>1, <3>2, <1>t, LongerSeqs, Zenon
      <3>4. Effective(r) \in StepStates
        BY ExecutorAssumption DEF Effective, StepStates
      <3>5. None \in V
        BY DEF V
      <3>6. QED
        BY <2>1, <2>2, <3>1, <3>3, <3>4, <3>5, <1>t, <1>n
    <2>5. CASE Advance(r)
      <3>1. /\ events' = Append(events, StepEvent(Effective(r)))
            /\ \/ loopCounts' = [loopCounts EXCEPT ![currentId] = LoopCount]
               \/ loopCounts' = loopCounts
            /\ \/ pc' = "top" /\ result' = result
               \/ pc' = "idle" /\ \E x : result' = Raised(x)
        BY <2>5 DEF Advance
      <3>2. events' \in Seq(E)
        BY <2>3, <3>1, <1>t
      <3>3. LoopCount \in Nat
        BY <2>2, <1>t DEF LoopCount
      <3>4. loopCounts' \in [N -> Nat]
        BY <2>2, <3>1, <3>3, <1>t
      <3>5. R(result')
        BY <3>1, <1>t, <1>n
      <3>6. QED
        BY <2>1, <2>2, <3>1, <3>2, <3>4, <3>5
    <2>6. QED
      BY <2>1, <2>4, <2>5
  <1>6. CASE HandlerRaises
    <2>1. /\ pc' = "idle" /\ \E x : result' = Raised(x) /\ calls' = 0
          /\ UNCHANGED <<loopCounts, currentViolation, runs, currentId, path, stepCount,
                         events, closures, lastCall, regVars>>
      BY <1>6 DEF HandlerRaises
    <2>2. QED
      BY <2>1, <1>t, <1>b, <1>n, RegTypeStutter
  <1>7. CASE RegNext /\ UNCHANGED execVars
    BY <1>7, <1>t, RegTypeStep DEF execVars
  <1>8. CASE UNCHANGED vars
    BY <1>8, <1>t, RegTypeStutter DEF vars, execVars
  <1>9. QED
    BY <1>t, <1>1, <1>2, <1>3, <1>4, <1>5, <1>6, <1>7, <1>8 DEF Next

\* The attributes and locals keep their types in every run.
THEOREM TypeCorrect == Spec => []TypeOK
  <1>1. QED
    BY TypeInit, TypeStep, PTL DEF Spec

-----------------------------------------------------------------------------
(* The policy ceiling. *)

\* What the gate grants, some well-formed paged capability of the step admits.
LEMMA GateGrants ==
  ASSUME NEW cap, NEW node, GateVerdict(cap, node) = "granted"
  PROVE  \E i \in DOMAIN node.capabilities_paged :
             /\ Grammatical(node.capabilities_paged[i])
             /\ Satisfies(cap, ParseCapability(node.capabilities_paged[i]))
  BY DEF GateVerdict

\* A closure exists only after a run began, and a run begins only with paged
\* capabilities that lie within the policy; the program does not change.
CeilingInv ==
    /\ pc # "idle" \/ closures # {} => PagedWithinPolicy(config)
    /\ PolicyCeiling

\* A tool call: the gate has compared the request with the paged capabilities, and
\* the executor those with the policy before the run.
LEMMA CeilingAtCall ==
  ASSUME TypeOK, CeilingInv, NEW sid \in closures, NEW cap \in Requests, RequestTool(sid, cap)
  PROVE  CeilingInv'
  <1>1. /\ config \in Configs /\ sid \in DOMAIN Nodes
        /\ config' = config /\ pc' = pc /\ closures' = closures
    BY DEF TypeOK, RequestTool
  <1>2. PagedWithinPolicy(config)
    BY DEF CeilingInv
  <1>3. ASSUME lastCall'.verdict \in GrantedVerdicts, config.policy # None
        PROVE  WithinPolicy(lastCall'.requested, config.policy)
    <2>1. lastCall'.requested = cap /\ GateVerdict(cap, Nodes[sid]) = "granted"
      BY <1>3 DEF RequestTool, GateVerdict, GrantedVerdicts
    <2> DEFINE paged == Nodes[sid].capabilities_paged
    <2>2. PICK i \in DOMAIN paged : Satisfies(cap, ParseCapability(paged[i]))
      BY <2>1, GateGrants
    <2>3. WithinPolicy(ParseCapability(paged[i]), config.policy)
      BY <1>1, <1>2, <1>3 DEF PagedWithinPolicy, AllPagedWithin, Nodes
    <2>4. \A t \in config.policy : FlatToken(t)
      BY <1>1, <1>3, ExecutorAssumption
    <2>5. QED
      BY <2>1, <2>2, <2>3, <2>4, GrantsStayWithinPolicy
  <1>4. QED
    BY <1>1, <1>2, <1>3 DEF CeilingInv, PolicyCeiling

\* Whatever the program, the handler and the closures it keeps: a call the gate
\* lets through lies within the policy the executor was constructed with.
THEOREM PolicyIsCeiling == Spec => []PolicyCeiling
  <1>1. Init => CeilingInv
    BY DEF Init, CeilingInv, PolicyCeiling, NoCall, GrantedVerdicts, Verdicts
  <1>2. ASSUME TypeOK, CeilingInv, [Next]_vars
        PROVE  CeilingInv'
    <2>1. CASE StartRun
      BY <2>1, <1>2 DEF StartRun, CeilingInv, PolicyCeiling
    <2>2. CASE RefuseRun
      BY <2>2, <1>2 DEF RefuseRun, CeilingInv, PolicyCeiling
    <2>3. CASE BeginStep
      BY <2>3, <1>2 DEF BeginStep, CeilingInv, PolicyCeiling
    <2>4. ASSUME NEW sid \in closures, NEW cap \in Requests, RequestTool(sid, cap)
          PROVE  CeilingInv'
      BY <1>2, <2>4, CeilingAtCall
    <2>5. ASSUME NEW r \in HandlerStates, StepReturns(r)
          PROVE  CeilingInv'
      BY <2>5, <1>2 DEF StepReturns, CeilingInv, PolicyCeiling
    <2>6. CASE HandlerRaises
      BY <2>6, <1>2 DEF HandlerRaises, CeilingInv, PolicyCeiling
    <2>7. CASE RegNext /\ UNCHANGED execVars
      BY <2>7, <1>2 DEF execVars, CeilingInv, PolicyCeiling
    <2>8. CASE UNCHANGED vars
      BY <2>8, <1>2 DEF vars, execVars, CeilingInv, PolicyCeiling
    <2>9. QED
      BY <1>2, <2>1, <2>2, <2>3, <2>4, <2>5, <2>6, <2>7, <2>8 DEF Next
  <1>3. CeilingInv => PolicyCeiling
    BY DEF CeilingInv
  <1>4. QED
    BY <1>1, <1>2, <1>3, TypeCorrect, PTL DEF Spec

\* Every call that was granted lies within the policy, if all that the program is
\* paged does.
GrantsWithin(policy) ==
    lastCall.verdict \in GrantedVerdicts /\ AllPagedWithin(config.program, policy) =>
        WithinPolicy(lastCall.requested, policy)

\* No step grants anything else, with closures and programs of any kind.
LEMMA GrantsWithinStep ==
  ASSUME NEW policy, \A t \in policy : FlatToken(t),
         TypeOK, GrantsWithin(policy), [Next]_vars
  PROVE  GrantsWithin(policy)'
  <1>1. ASSUME NEW sid \in closures, NEW cap \in Requests, RequestTool(sid, cap)
        PROVE  GrantsWithin(policy)'
    <2>1. config' = config /\ sid \in DOMAIN Nodes /\ lastCall'.requested = cap
      BY <1>1 DEF TypeOK, RequestTool
    <2>2. ASSUME lastCall'.verdict \in GrantedVerdicts, AllPagedWithin(config.program, policy)
          PROVE  WithinPolicy(cap, policy)
      <3>1. GateVerdict(cap, Nodes[sid]) = "granted"
        BY <1>1, <2>2 DEF RequestTool, GateVerdict, GrantedVerdicts
      <3> DEFINE paged == Nodes[sid].capabilities_paged
      <3>2. PICK i \in DOMAIN paged : Satisfies(cap, ParseCapability(paged[i]))
        BY <3>1, GateGrants
      <3>3. WithinPolicy(ParseCapability(paged[i]), policy)
        BY <2>1, <2>2 DEF AllPagedWithin, Nodes
      <3>4. QED
        BY <3>2, <3>3, GrantsStayWithinPolicy
    <2>3. QED
      BY <2>1, <2>2 DEF GrantsWithin
  <1>2. CASE UNCHANGED <<config, lastCall>>
    BY <1>2 DEF GrantsWithin
  <1>3. QED
    BY <1>1, <1>2 DEF Next, StartRun, RefuseRun, BeginStep, StepReturns, HandlerRaises,
                      vars, execVars

\* The executor need not know the policy, nor be asked to run: what a check found
\* within some policy, whoever checked it, stays a ceiling of all it ever grants.
THEOREM CheckedProgramsStayWithin ==
  ASSUME NEW policy, \A t \in policy : FlatToken(t)
  PROVE  Spec => []GrantsWithin(policy)
  <1>1. Init => GrantsWithin(policy)
    BY DEF Init, GrantsWithin, NoCall, GrantedVerdicts, Verdicts
  <1>2. TypeOK /\ GrantsWithin(policy) /\ [Next]_vars => GrantsWithin(policy)'
    BY GrantsWithinStep
  <1>3. QED
    BY <1>1, <1>2, TypeCorrect, PTL DEF Spec

-----------------------------------------------------------------------------
(* The step budget. *)

Accepted ==
    config.program.ir_version \in SupportedIrVersions /\ PagedWithinPolicy(config)

\* While a run is going on it has no result yet; an object that refuses to run
\* never has a path.
BudgetInv ==
    /\ StepBudget
    /\ pc # "idle" => result = NoResult
    /\ pc = "top" \/ path # <<>> => Accepted

\* Results of different kinds, or of different exceptions, differ.
LEMMA RaisedDiffer ==
  ASSUME NEW e, NEW f
  PROVE  /\ Raised(e) = Raised(f) <=> e = f
         /\ Raised(e) # NoResult
         /\ \A s, v : Raised(e) # Returned(s, v)
  <1>1. Raised(e).status = "raised" /\ Raised(e).state = e /\ Raised(f).state = f
    BY DEF Raised
  <1>2. NoResult.status = "none" /\ \A s, v : Returned(s, v).status = "returned"
    BY DEF NoResult, Returned
  <1>3. QED
    BY <1>1, <1>2

\* A new executor has used nothing of its budget.
LEMMA BudgetInit == Init => BudgetInv
  BY RaisedDiffer, ExecutorAssumption DEF Init, BudgetInv, StepBudget

\* Every step keeps within the budget.
LEMMA BudgetStep ==
  ASSUME TypeOK, BudgetInv, [Next]_vars
  PROVE  BudgetInv'
  <1>t. MaxSteps \in Nat /\ path \in Seq(DOMAIN Nodes) /\ stepCount \in Nat
    BY ExecutorAssumption DEF TypeOK
  <1>d. /\ NoResult # Raised("step_limit")
        /\ \A e : Raised(e) = Raised("step_limit") => e = "step_limit"
        /\ \A s, v : Returned(s, v) # Raised("step_limit")
    BY RaisedDiffer
  <1> DEFINE Same == UNCHANGED <<config, pc, currentId, path, stepCount, result>>
  <1>s. Same => BudgetInv'
    BY DEF BudgetInv, StepBudget, Accepted
  <1>1. CASE StartRun
    <2>1. /\ Accepted /\ config' = config /\ pc' = "top" /\ path' = <<>> /\ stepCount' = 0
          /\ result' = NoResult
      BY <1>1 DEF StartRun, Accepted
    <2>2. QED
      BY <2>1, <1>t, <1>d DEF BudgetInv, StepBudget, Accepted
  <1>2. CASE RefuseRun
    <2>1. /\ ~ Accepted /\ pc = "idle"
          /\ result' = Raised("unsupported_version") \/ result' = Raised("paged_outside_policy")
          /\ UNCHANGED <<config, pc, currentId, path, stepCount>>
      BY <1>2 DEF RefuseRun, Accepted
    <2>2. path = <<>> /\ result' # Raised("step_limit")
      BY <2>1, <1>d DEF BudgetInv
    <2>3. QED
      BY <2>1, <2>2, <1>t DEF BudgetInv, StepBudget, Accepted
  <1>3. CASE BeginStep
    <2>1. /\ config' = config /\ pc = "top" /\ currentId' = currentId
          /\ result = NoResult /\ stepCount = Len(path) /\ Len(path) <= MaxSteps
      BY <1>3, <1>d DEF BeginStep, BudgetInv, StepBudget
    <2>2. Accepted
      BY <2>1 DEF BudgetInv
    <2>3. CASE currentId \notin DOMAIN Nodes
      <3>1. /\ pc' = "idle" /\ result' = Raised("step_not_found")
            /\ UNCHANGED <<path, stepCount>>
        BY <2>3, <1>3 DEF BeginStep
      <3>2. QED
        BY <2>1, <2>2, <3>1, <1>d DEF BudgetInv, StepBudget, Accepted
    <2>4. CASE currentId \in DOMAIN Nodes
      <3>1. /\ path' = Append(path, currentId) /\ stepCount' = stepCount + 1
            /\ \/ /\ stepCount' > MaxSteps
                  /\ pc' = "idle" /\ result' = Raised("step_limit")
               \/ /\ stepCount' <= MaxSteps
                  /\ pc' = "execute" /\ result' = result
        BY <2>4, <1>3 DEF BeginStep
      <3>2. /\ Len(path') = Len(path) + 1 /\ Len(path) \in Nat
            /\ path'[Len(path) + 1] = currentId
        BY <2>4, <3>1, <1>t, Appended
      <3>3. QED
        BY <2>1, <2>2, <3>1, <3>2, <1>t, <1>d DEF BudgetInv, StepBudget, Accepted
    <2>5. QED
      BY <2>3, <2>4
  <1>4. ASSUME NEW sid \in closures, NEW cap \in Requests, RequestTool(sid, cap)
        PROVE  BudgetInv'
    BY <1>4, <1>s DEF RequestTool
  <1>5. ASSUME NEW r \in HandlerStates, StepReturns(r)
        PROVE  BudgetInv'
    <2>1. /\ pc = "execute" /\ UNCHANGED <<config, path, stepCount>>
          /\ Len(path) <= MaxSteps /\ stepCount = Len(path) /\ (pc = "top" \/ path # <<>> => Accepted)
      BY <1>5, <1>t DEF StepReturns, BudgetInv, StepBudget
    <2>2. CASE Complete(r)
      <3>1. pc' = "idle" /\ \E s, v : result' = Returned(s, v)
        BY <2>2 DEF Complete
      <3>2. QED
        BY <2>1, <3>1, <1>d DEF BudgetInv, StepBudget, Accepted
    <2>3. CASE Advance(r)
      <3>1. \/ pc' = "top" /\ result' = result
            \/ /\ pc' = "idle"
               /\ result' = Raised("loop_limit") \/ result' = Raised("missing_edge")
        BY <2>3 DEF Advance
      <3>2. QED
        BY <2>1, <3>1, <1>d DEF BudgetInv, StepBudget, Accepted
    <2>4. QED
      BY <1>5, <2>2, <2>3 DEF StepReturns
  <1>6. CASE HandlerRaises
    <2>1. /\ pc = "execute" /\ pc' = "idle" /\ result' = Raised("handler")
          /\ UNCHANGED <<config, path, stepCount, currentId>>
      BY <1>6 DEF HandlerRaises
    <2>2. QED
      BY <2>1, <1>d, <1>t DEF BudgetInv, StepBudget, Accepted
  <1>7. CASE RegNext /\ UNCHANGED execVars
    BY <1>7, <1>s DEF execVars
  <1>8. CASE UNCHANGED vars
    BY <1>8, <1>s DEF vars, execVars
  <1>9. QED
    BY <1>1, <1>2, <1>3, <1>4, <1>5, <1>6, <1>7, <1>8 DEF Next

\* The budget invariant holds in every run.
LEMMA BudgetIsInvariant == Spec => []BudgetInv
  <1>1. QED
    BY BudgetInit, BudgetStep, TypeCorrect, PTL DEF Spec

\* No run hands more than max_steps steps to the handler, and only a run that
\* has handed it that many raises the step limit.
THEOREM StepsAreBounded == Spec => []StepBudget
  <1>1. BudgetInv => StepBudget
    BY DEF BudgetInv
  <1>2. QED
    BY <1>1, BudgetIsInvariant, PTL

-----------------------------------------------------------------------------
(* Why runs end. *)

\* The steps of the loop that a run has left at most: two for each step of the
\* program it may still hand over, and the one that finds the limit.
Rank ==
    IF pc = "idle" THEN 0
    ELSE 2 * (MaxSteps - stepCount) + IF pc = "execute" THEN 2 ELSE 1

\* Within its budget, a run that has not ended has steps left.
LEMMA RankIsNumber ==
  ASSUME TypeOK, BudgetInv
  PROVE  /\ MaxSteps \in Nat /\ stepCount \in Nat /\ Rank \in Nat
         /\ pc # "idle" => stepCount <= MaxSteps /\ Rank > 0
  <1>1. MaxSteps \in Nat /\ stepCount \in Nat /\ (pc # "idle" => stepCount <= MaxSteps)
    BY RaisedDiffer, ExecutorAssumption DEF TypeOK, BudgetInv, StepBudget
  <1>2. QED
    BY <1>1 DEF Rank

\* A step of the loop takes from what is left.
LEMMA RunningTakes ==
  ASSUME TypeOK, BudgetInv, Running
  PROVE  Rank' < Rank
  <1>1. /\ MaxSteps \in Nat /\ stepCount \in Nat /\ Rank \in Nat
        /\ pc # "idle" => stepCount <= MaxSteps /\ Rank > 0
    BY RankIsNumber
  <1>2. CASE BeginStep
    BY <1>1, <1>2 DEF BeginStep, Rank
  <1>3. ASSUME NEW r \in HandlerStates, StepReturns(r)
        PROVE  Rank' < Rank
    <2>1. pc = "execute" /\ stepCount' = stepCount
      BY <1>3 DEF StepReturns
    <2>2. pc' \in {"top", "idle"}
      <3>1. CASE Complete(r)
        BY <3>1 DEF Complete
      <3>2. CASE Advance(r)
        BY <3>2 DEF Advance
      <3>3. QED
        BY <1>3, <3>1, <3>2 DEF StepReturns
    <2>3. Rank' = IF pc' = "idle" THEN 0 ELSE 2 * (MaxSteps - stepCount) + 1
      BY <2>1, <2>2 DEF Rank
    <2>4. Rank = 2 * (MaxSteps - stepCount) + 2
      BY <2>1 DEF Rank
    <2>5. QED
      BY <1>1, <2>1, <2>3, <2>4
  <1>4. CASE HandlerRaises
    BY <1>1, <1>4 DEF HandlerRaises, Rank
  <1>5. QED
    BY <1>2, <1>3, <1>4 DEF Running

\* The measure behind Termination: whatever the program and the handler do, each step
\* of the loop leaves the run with less of it, and nothing that happens during a run
\* gives any back.  (That fairness then ends the run is what TLC checks.)
THEOREM RunsWindDown ==
  Spec => [][/\ Rank \in Nat /\ Rank' \in Nat
             /\ Running => Rank' < Rank
             /\ pc # "idle" => Rank' <= Rank]_vars
  <1> DEFINE RankInv == Rank \in Nat
  <1>1. TypeOK /\ BudgetInv => RankInv
    BY RankIsNumber
  <1>2. ASSUME TypeOK, BudgetInv, Rank \in Nat, Rank' \in Nat, [Next]_vars
        PROVE  /\ Running => Rank' < Rank
               /\ pc # "idle" => Rank' <= Rank
    <2>1. CASE Running
      <3>1. Rank' < Rank
        BY <1>2, <2>1, RunningTakes
      <3>2. QED
        BY <1>2, <3>1
    <2>2. CASE UNCHANGED <<pc, stepCount>> /\ ~ Running
      <3>1. Rank' = Rank
        BY <2>2 DEF Rank
      <3>2. QED
        BY <1>2, <2>2, <3>1
    <2>3. CASE pc = "idle" /\ ~ Running
      BY <2>3
    <2>4. QED
      BY <1>2, <2>1, <2>2, <2>3
         DEF Next, Running, StartRun, RefuseRun, RequestTool, vars, execVars
  <1>3. TypeOK /\ BudgetInv /\ RankInv /\ RankInv' /\ [Next]_vars
          => [/\ Rank \in Nat /\ Rank' \in Nat
              /\ Running => Rank' < Rank
              /\ pc # "idle" => Rank' <= Rank]_vars
    BY <1>2
  <1> HIDE DEF RankInv
  <1>4. QED
    BY <1>1, <1>3, TypeCorrect, BudgetIsInvariant, PTL DEF Spec

-----------------------------------------------------------------------------
(* What a denial does to the run. *)

\* One more event: is there a denial now, and does the run still stop at it?
LEMMA OneMoreEvent ==
  ASSUME NEW s \in Seq(EventRecords), NEW x \in EventRecords
  PROVE  /\ HasDenial(Append(s, x)) <=> HasDenial(s) \/ x.event = "capability_denied"
         /\ StopsAtDenial(s) /\ (HasDenial(s) => x.event \notin {"step_started", "step_failed"})
               => StopsAtDenial(Append(s, x))
  <1> DEFINE t == Append(s, x)
             n == Len(s)
  <1>1. /\ n \in Nat /\ DOMAIN t = 1..(n + 1) /\ DOMAIN s = 1..n
        /\ \A i \in 1..n : t[i] = s[i]
        /\ t[n + 1] = x
    BY Appended
  <1> HIDE DEF t, n
  <1>2. HasDenial(t) <=> HasDenial(s) \/ x.event = "capability_denied"
    <2>1. ASSUME HasDenial(t), ~ HasDenial(s)
          PROVE  x.event = "capability_denied"
      <3>1. PICK i \in 1..(n + 1) : t[i].event = "capability_denied"
        BY <1>1, <2>1 DEF HasDenial
      <3>2. i \notin 1..n
        BY <1>1, <2>1, <3>1 DEF HasDenial
      <3>3. i = n + 1
        BY <1>1, <3>2
      <3>4. QED
        BY <1>1, <3>1, <3>3
    <2>2. HasDenial(s) => HasDenial(t)
      BY <1>1 DEF HasDenial
    <2>3. x.event = "capability_denied" => HasDenial(t)
      <3>1. n + 1 \in 1..(n + 1)
        BY <1>1
      <3>2. QED
        BY <1>1, <3>1 DEF HasDenial
    <2>4. QED
      BY <2>1, <2>2, <2>3
  <1>3. ASSUME StopsAtDenial(s), HasDenial(s) => x.event \notin {"step_started", "step_failed"}
        PROVE  StopsAtDenial(t)
    <2> SUFFICES ASSUME NEW i \in 1..(n + 1), NEW j \in 1..(n + 1), i < j,
                        t[i].event = "capability_denied"
                 PROVE  t[j].event \notin {"step_started", "step_failed"}
      BY <1>1 DEF StopsAtDenial
    <2>1. i \in 1..n /\ s[i].event = "capability_denied"
      BY <1>1
    <2>2. CASE j \in 1..n
      BY <1>1, <1>3, <2>1, <2>2 DEF StopsAtDenial
    <2>3. CASE j = n + 1
      BY <1>1, <1>3, <2>1, <2>3 DEF HasDenial
    <2>4. QED
      BY <1>1, <2>2, <2>3
  <1>4. QED
    BY <1>2, <1>3 DEF t

\* Within a step the denial event and self._current_violation go together: that
\* is what makes the override at the end of the step reach the result.
DenialInv ==
    /\ DenialEndsRun
    /\ pc = "execute" /\ DeniedInRun => currentViolation # None

\* A new executor has denied nothing.
LEMMA DenialInit == Init => DenialInv
  BY DEF Init, DenialInv, DenialEndsRun, DeniedInRun, HasDenial

\* Every step keeps to it, if no handler keeps closures.
LEMMA DenialStep ==
  ASSUME ~ RetainClosures,
         TypeOK, BudgetInv, DenialInv, [Next]_vars
  PROVE  DenialInv'
  <1>t. events \in Seq(EventRecords) /\ config \in Configs
    BY DEF TypeOK
  <1>n. NoResult.status = "none" /\ \A e : Raised(e).status = "raised"
    BY DEF NoResult, Raised
  <1>s. UNCHANGED <<pc, events, result, currentViolation>> => DenialInv'
    BY DEF DenialInv, DenialEndsRun, DeniedInRun
  <1>1. CASE StartRun
    <2>1. events' = <<Event("run_started", "")>>
      BY <1>1 DEF StartRun
    <2>2. ~ DeniedInRun'
      <3>1. \A i \in DOMAIN events' : events'[i].event = "run_started"
        <4>1. \A e : DOMAIN <<e>> = 1..1 /\ <<e>>[1] = e
          OBVIOUS
        <4>2. \A i \in DOMAIN events' : events'[i] = Event("run_started", "")
          <5>1. \A i \in 1..1 : i = 1
            OBVIOUS
          <5>2. QED
            BY <2>1, <4>1, <5>1, Zenon
        <4>3. Event("run_started", "").event = "run_started"
          BY DEF Event
        <4>4. QED
          BY <4>2, <4>3, Zenon
      <3>2. QED
        BY <3>1 DEF DeniedInRun, HasDenial
    <2>3. QED
      BY <2>2 DEF DenialInv, DenialEndsRun
  <1>2. CASE RefuseRun
    <2>1. pc = "idle" /\ UNCHANGED <<pc, events>> /\ \E e : result' = Raised(e)
      BY <1>2 DEF RefuseRun
    <2>2. QED
      BY <2>1, <1>n DEF DenialInv, DenialEndsRun, DeniedInRun
  <1>3. CASE BeginStep
    <2>1. ~ DeniedInRun
      BY <1>3 DEF BeginStep, DenialInv, DenialEndsRun
    <2>2. \/ events' = events
          \/ /\ currentId \in DOMAIN Nodes
             /\ events' = Append(events, Event("step_started", currentId))
      BY <1>3 DEF BeginStep
    <2>3. currentId \in DOMAIN Nodes => Event("step_started", currentId) \in EventRecords
      BY EventTypes1 DEF EventTypes
    <2>4. ~ DeniedInRun'
      BY <2>1, <2>2, <2>3, <1>t, OneMoreEvent DEF DeniedInRun, Event
    <2>5. QED
      BY <2>4 DEF DenialInv, DenialEndsRun
  <1>4. ASSUME NEW sid \in closures, NEW cap \in Requests, RequestTool(sid, cap)
        PROVE  DenialInv'
    <2>1. pc = "execute" /\ pc' = pc /\ result' = result /\ sid \in DOMAIN Nodes
      BY <1>4 DEF RequestTool, TypeOK
    <2>2. result' = NoResult
      BY <2>1 DEF BudgetInv
    <2>3. /\ Event("capability_denied", sid) \in EventRecords
          /\ Event("capability_granted", sid) \in EventRecords
      BY <2>1, EventTypes1 DEF EventTypes
    <2>4. [step_id |-> sid, requested |-> cap] # None
      BY <2>1, <1>t, ExecutorAssumption DEF Nodes
    <2>5. \/ /\ events' = Append(events, Event("capability_denied", sid))
             /\ currentViolation' # None
          \/ /\ events' = Append(events, Event("capability_granted", sid))
             /\ currentViolation' = currentViolation
          \/ events' = events /\ currentViolation' = currentViolation
      BY <1>4, <2>4 DEF RequestTool
    <2>6. StopsAtDenial(events)
      BY DEF DenialInv, DenialEndsRun, DeniedInRun, HasDenial, StopsAtDenial
    <2>7. StopsAtDenial(events')
      BY <2>3, <2>5, <2>6, <1>t, OneMoreEvent DEF Event
    <2>8. DeniedInRun' => currentViolation' # None
      BY <2>1, <2>3, <2>5, <1>t, OneMoreEvent DEF DeniedInRun, DenialInv, Event
    <2>9. QED
      BY <2>1, <2>2, <2>7, <2>8, <1>n DEF DenialInv, DenialEndsRun
  <1>5. ASSUME NEW r \in HandlerStates, StepReturns(r)
        PROVE  DenialInv'
    <2>1. pc = "execute" /\ currentId \in DOMAIN Nodes /\ result = NoResult
      BY <1>5 DEF StepReturns, TypeOK, BudgetInv
    <2>2. DeniedInRun => Effective(r) = "DENIED"
      BY <2>1 DEF DenialInv, Effective
    <2>3. /\ \A x : /\ StepEvent(x) \in EventRecords
                   /\ StepEvent(x).event # "capability_denied"
          /\ StepEvent("DENIED").event = "step_completed"
          /\ Event("run_completed", "") \in EventRecords
          /\ Event("run_completed", "").event = "run_completed"
      BY <2>1, EventTypes1 DEF StepEvent, EventTypes, Event
    <2>4. StopsAtDenial(events)
      BY DEF DenialInv, DenialEndsRun, DeniedInRun, HasDenial, StopsAtDenial
    <2>5. CASE Complete(r)
      <3> DEFINE mid == Append(events, StepEvent(Effective(r)))
      <3>1. /\ events' = Append(mid, Event("run_completed", "")) /\ pc' = "idle"
            /\ \E v : result' = Returned(Effective(r), v)
        BY <2>5 DEF Complete
      <3>2. mid \in Seq(EventRecords) /\ StopsAtDenial(mid)
            /\ (HasDenial(mid) => DeniedInRun)
        BY <2>2, <2>3, <2>4, <1>t, OneMoreEvent, LongerSeqs DEF DeniedInRun
      <3>3. StopsAtDenial(events') /\ (DeniedInRun' => DeniedInRun)
        BY <2>3, <3>1, <3>2, OneMoreEvent DEF DeniedInRun
      <3>4. result'.state = Effective(r)
        <4>1. \A v : Returned(Effective(r), v).state = Effective(r)
          BY DEF Returned
        <4>2. QED
          BY <3>1, <4>1, Zenon
      <3>5. QED
        BY <2>2, <3>1, <3>3, <3>4 DEF DenialInv, DenialEndsRun
    <2>6. CASE Advance(r)
      <3>1. ~ DeniedInRun /\ events' = Append(events, StepEvent(Effective(r)))
        BY <2>2, <2>6 DEF Advance
      <3>2. ~ DeniedInRun'
        BY <2>3, <3>1, <1>t, OneMoreEvent DEF DeniedInRun
      <3>3. QED
        BY <3>2 DEF DenialInv, DenialEndsRun
    <2>7. QED
      BY <1>5, <2>5, <2>6 DEF StepReturns
  <1>6. CASE HandlerRaises
    <2>1. pc' = "idle" /\ events' = events /\ \E e : result' = Raised(e)
      BY <1>6 DEF HandlerRaises
    <2>2. QED
      BY <2>1, <1>n DEF DenialInv, DenialEndsRun, DeniedInRun
  <1>7. CASE RegNext /\ UNCHANGED execVars
    BY <1>7, <1>s DEF execVars
  <1>8. CASE UNCHANGED vars
    BY <1>8, <1>s DEF vars, execVars
  <1>9. QED
    BY <1>1, <1>2, <1>3, <1>4, <1>5, <1>6, <1>7, <1>8 DEF Next

\* So it holds in every run.
LEMMA DenialInvariant ==
  ASSUME ~ RetainClosures
  PROVE  Spec => []DenialInv
  <1>1. ASSUME TypeOK, BudgetInv, DenialInv, [Next]_vars
        PROVE  DenialInv'
    BY <1>1, DenialStep
  <1>2. QED
    BY <1>1, DenialInit, TypeCorrect, BudgetIsInvariant, PTL DEF Spec

\* A handler that keeps no closures cannot bring a run out of a denial: nothing
\* starts after it, and what run() returns is DENIED.
THEOREM DenialIsTerminal ==
  ASSUME ~ RetainClosures
  PROVE  Spec => []DenialEndsRun
  <1>1. DenialInv => DenialEndsRun
    BY DEF DenialInv
  <1>2. QED
    BY <1>1, DenialInvariant, PTL
-----------------------------------------------------------------------------
(* The evidence of a denial. *)

\* On an object that runs once, a violation is set by a denial of the step being
\* executed, and none is left when a step ends without ending the run.
EvidenceInv ==
    /\ DeniedHasEvidence
    /\ runs = 0 => pc = "idle"
    /\ pc = "top" \/ runs = 0 => currentViolation = None
    /\ pc = "execute" /\ currentViolation # None =>
           DeniedInRun /\ currentViolation.step_id = currentId

\* A new executor has nothing to give evidence of.
LEMMA EvidenceInit == Init => EvidenceInv
  BY DEF Init, EvidenceInv, DeniedHasEvidence, NoResult

\* Every step keeps to it, if the object runs once and only a denial denies.
LEMMA EvidenceStep ==
  ASSUME ~ RetainClosures, MaxRuns = 1, "DENIED" \notin HandlerStates,
         TypeOK, BudgetInv, EvidenceInv, [Next]_vars
  PROVE  EvidenceInv'
  <1>t. events \in Seq(EventRecords) /\ runs \in 0..1
    BY DEF TypeOK
  <1>n. /\ NoResult.status = "none"
        /\ \A e : Raised(e).status = "raised"
        /\ \A s, v : /\ Returned(s, v).state = s
                     /\ Returned(s, v).violation = v
    BY DEF NoResult, Raised, Returned
  <1>s. UNCHANGED <<pc, runs, events, result, currentViolation, currentId, path>> => EvidenceInv'
    BY DEF EvidenceInv, DeniedHasEvidence, DeniedInRun
  <1>1. CASE StartRun
    <2>0. /\ runs < MaxRuns /\ runs' = runs + 1 /\ pc' = "top"
          /\ result' = NoResult /\ currentViolation' = currentViolation
      BY <1>1 DEF StartRun
    <2>1. runs = 0 /\ runs' = 1
      BY <2>0, <1>t
    <2>2. QED
      BY <2>0, <2>1, <1>n DEF EvidenceInv, DeniedHasEvidence
  <1>2. CASE RefuseRun
    <2>1. /\ runs' = 1 /\ pc' = "idle" /\ \E e : result' = Raised(e)
      BY <1>2, <1>t DEF RefuseRun
    <2>2. QED
      BY <2>1, <1>n DEF EvidenceInv, DeniedHasEvidence
  <1>3. CASE BeginStep
    <2>1. /\ pc = "top" /\ result = NoResult /\ currentViolation = None /\ runs # 0
          /\ currentViolation' = None /\ runs' = runs
          /\ pc' \in {"idle", "execute"}
          /\ result' = result \/ \E e : result' = Raised(e)
      BY <1>3 DEF BeginStep, EvidenceInv, BudgetInv
    <2>2. QED
      BY <2>1, <1>n DEF EvidenceInv, DeniedHasEvidence
  <1>4. ASSUME NEW sid \in closures, NEW cap \in Requests, RequestTool(sid, cap)
        PROVE  EvidenceInv'
    <2>1. /\ pc = "execute" /\ sid = currentId /\ result = NoResult /\ runs # 0
          /\ UNCHANGED <<pc, runs, result, currentId>>
          /\ sid \in DOMAIN Nodes
      BY <1>4 DEF RequestTool, BudgetInv, EvidenceInv, TypeOK
    <2>2. /\ Event("capability_denied", sid) \in EventRecords
          /\ Event("capability_granted", sid) \in EventRecords
      BY <2>1, EventTypes1 DEF EventTypes
    <2>3. \/ /\ events' = Append(events, Event("capability_denied", sid))
             /\ currentViolation' = [step_id |-> sid, requested |-> cap]
          \/ /\ events' = Append(events, Event("capability_granted", sid))
             /\ currentViolation' = currentViolation
          \/ events' = events /\ currentViolation' = currentViolation
      BY <1>4 DEF RequestTool
    <2>4. DeniedInRun => DeniedInRun'
      BY <2>2, <2>3, <1>t, OneMoreEvent DEF DeniedInRun
    <2>5. currentViolation' # None =>
              DeniedInRun' /\ currentViolation'.step_id = currentId'
      <3>1. CASE events' = Append(events, Event("capability_denied", sid))
                 /\ currentViolation' = [step_id |-> sid, requested |-> cap]
        <4>1. DeniedInRun'
          BY <2>2, <3>1, <1>t, OneMoreEvent DEF DeniedInRun, Event
        <4>2. QED
          BY <2>1, <3>1, <4>1
      <3>2. CASE currentViolation' = currentViolation
        BY <2>1, <2>4, <3>2 DEF EvidenceInv
      <3>3. QED
        BY <2>3, <3>1, <3>2
    <2>6. QED
      BY <2>1, <2>5, <1>n DEF EvidenceInv, DeniedHasEvidence
  <1>5. ASSUME NEW r \in HandlerStates, StepReturns(r)
        PROVE  EvidenceInv'
    <2>1. /\ pc = "execute" /\ currentId \in DOMAIN Nodes /\ result = NoResult /\ runs # 0
          /\ path[Len(path)] = currentId
          /\ UNCHANGED <<runs, path, currentViolation>>
      BY <1>5 DEF StepReturns, TypeOK, BudgetInv, StepBudget, EvidenceInv
    <2>2. Effective(r) = "DENIED" <=> currentViolation # None
      BY DEF Effective
    <2>3. CASE Complete(r)
      <3> DEFINE mid == Append(events, StepEvent(Effective(r)))
      <3>1. /\ events' = Append(mid, Event("run_completed", "")) /\ pc' = "idle"
            /\ result' = Returned(Effective(r),
                             IF Effective(r) = "DENIED" THEN currentViolation ELSE None)
        BY <2>3 DEF Complete
      <3>2. /\ StepEvent(Effective(r)) \in EventRecords
            /\ Event("run_completed", "") \in EventRecords
        BY <2>1, EventTypes1 DEF StepEvent, EventTypes
      <3>3. DeniedInRun => DeniedInRun'
        <4>1. mid \in Seq(EventRecords) /\ (HasDenial(events) => HasDenial(mid))
          BY <3>2, <1>t, OneMoreEvent, LongerSeqs
        <4>2. QED
          BY <3>1, <3>2, <4>1, OneMoreEvent DEF DeniedInRun
      <3>4. ASSUME Effective(r) = "DENIED"
            PROVE  /\ DeniedInRun' /\ result'.violation # None
                   /\ result'.violation.step_id = path'[Len(path')]
        <4>1. result'.violation = currentViolation
          BY <3>1, <3>4, <1>n, Zenon
        <4>2. currentViolation # None /\ DeniedInRun /\ currentViolation.step_id = currentId
          BY <2>1, <2>2, <3>4 DEF EvidenceInv
        <4>3. path' = path
          BY <2>1
        <4>4. path'[Len(path')] = currentId
          BY <4>3, <2>1
        <4>5. QED
          BY <4>1, <4>2, <4>4, <3>3
      <3>5. DeniedHasEvidence'
        BY <3>1, <3>4, <1>n DEF DeniedHasEvidence
      <3>6. QED
        BY <2>1, <3>1, <3>5 DEF EvidenceInv
    <2>4. CASE Advance(r)
      <3>1. /\ currentViolation = None /\ pc' \in {"top", "idle"}
            /\ result' = result \/ \E e : result' = Raised(e)
        BY <2>2, <2>4 DEF Advance
      <3>2. QED
        BY <2>1, <3>1, <1>n DEF EvidenceInv, DeniedHasEvidence
    <2>5. QED
      BY <1>5, <2>3, <2>4 DEF StepReturns
  <1>6. CASE HandlerRaises
    <2>1. pc = "execute" /\ pc' = "idle" /\ runs' = runs /\ \E e : result' = Raised(e)
      BY <1>6 DEF HandlerRaises
    <2>2. QED
      BY <2>1, <1>n DEF EvidenceInv, DeniedHasEvidence
  <1>7. CASE RegNext /\ UNCHANGED execVars
    BY <1>7, <1>s DEF execVars
  <1>8. CASE UNCHANGED vars
    BY <1>8, <1>s DEF vars, execVars
  <1>9. QED
    BY <1>1, <1>2, <1>3, <1>4, <1>5, <1>6, <1>7, <1>8 DEF Next

\* So it holds in every run.
LEMMA EvidenceInvariant ==
  ASSUME ~ RetainClosures, MaxRuns = 1, "DENIED" \notin HandlerStates
  PROVE  Spec => []EvidenceInv
  <1>1. ASSUME TypeOK, BudgetInv, EvidenceInv, [Next]_vars
        PROVE  EvidenceInv'
    BY <1>1, EvidenceStep
  <1>2. QED
    BY <1>1, EvidenceInit, TypeCorrect, BudgetIsInvariant, PTL DEF Spec

\* A fresh executor whose handler keeps no closures, and does not return DENIED of
\* its own accord, reports DENIED only with the event and the record that explain it.
THEOREM DenialsHaveEvidence ==
  ASSUME ~ RetainClosures, MaxRuns = 1, "DENIED" \notin HandlerStates
  PROVE  Spec => []DeniedHasEvidence
  <1>1. EvidenceInv => DeniedHasEvidence
    BY DEF EvidenceInv
  <1>2. QED
    BY <1>1, EvidenceInvariant, PTL

-----------------------------------------------------------------------------
(* Replaying a run from its telemetry. *)

\* LeadsTo and the quantified part of TelemetryExplainsPath, for any path p and
\* events s.
VisitsOf(p, x, k) == Cardinality({j \in 1..k : p[j] = x})

Leads(nodes, p, i, closing) ==
    LET node == nodes[p[i]]
        edge == IF closing = "step_completed" THEN "on_success" ELSE "on_failure"
    IN  IF node.loop # None /\ VisitsOf(p, p[i], i) >= node.loop.value
        THEN node.on_limit
        ELSE IF edge \in DOMAIN node.edges THEN node.edges[edge] ELSE None

Explains(nodes, s, p) ==
    /\ \A n \in DOMAIN s : s[n].event \in Starts => s[n].step_id = p[Told(s, Starts, n)]
    /\ \A n \in DOMAIN s : s[n].event \in Closes =>
           LET i == Told(s, Closes, n)
           IN  s[n].step_id = p[i] /\ (i < Len(p) => p[i + 1] = Leads(nodes, p, i, s[n].event))

\* Counting events: at an event that counts the number is positive, it never goes
\* down, and one more event changes nothing about those before it.
LEMMA ToldBounds ==
  ASSUME NEW s \in Seq(EventRecords), NEW types, NEW n \in 0..Len(s)
  PROVE  /\ Told(s, types, n) \in Nat
         /\ Told(s, types, n) <= Told(s, types, Len(s))
         /\ n # 0 /\ s[n].event \in types => Told(s, types, n) >= 1
  <1> DEFINE upTo(k) == {m \in 1..k : s[m].event \in types}
  <1>1. /\ upTo(n) \subseteq 1..n /\ upTo(Len(s)) \subseteq 1..Len(s)
        /\ upTo(n) \subseteq upTo(Len(s)) /\ n \in Nat /\ Len(s) \in Nat
    OBVIOUS
  <1>2. n # 0 /\ s[n].event \in types => upTo(n) # {}
    <2>1. n # 0 => n \in 1..n
      OBVIOUS
    <2>2. QED
      BY <2>1
  <1> HIDE DEF upTo
  <1>3. /\ IsFiniteSet(upTo(n)) /\ IsFiniteSet(upTo(Len(s)))
        /\ Cardinality(upTo(n)) \in Nat
    BY <1>1, CountBelow
  <1>4. Cardinality(upTo(n)) <= Cardinality(upTo(Len(s)))
    BY <1>1, <1>3, FS_Subset
  <1>5. upTo(n) # {} => Cardinality(upTo(n)) # 0
    BY <1>3, FS_EmptySet
  <1>6. QED
    BY <1>2, <1>3, <1>4, <1>5 DEF Told, upTo

\* An event more leaves what was told before it, and counts once if it is of the types.
LEMMA ToldOneMore ==
  ASSUME NEW s \in Seq(EventRecords), NEW x \in EventRecords, NEW types
  PROVE  /\ \A n \in 0..Len(s) : Told(Append(s, x), types, n) = Told(s, types, n)
         /\ Told(Append(s, x), types, Len(s) + 1)
              = Told(s, types, Len(s)) + (IF x.event \in types THEN 1 ELSE 0)
  <1> DEFINE t == Append(s, x)
             k == Len(s)
             G == {m \in 1..(k + 1) : t[m].event \in types}
  <1>1. /\ k \in Nat /\ DOMAIN t = 1..(k + 1) /\ DOMAIN s = 1..k
        /\ \A i \in 1..k : t[i] = s[i]
        /\ t[k + 1] = x
    BY Appended
  <1> HIDE DEF t, k
  <1>2. \A n \in 0..k : {m \in 1..n : t[m].event \in types} = {m \in 1..n : s[m].event \in types}
    BY <1>1
  <1>3. /\ G \cap (1..k) = {m \in 1..k : t[m].event \in types}
        /\ G \cap (1..(k + 1)) = {m \in 1..(k + 1) : t[m].event \in types}
        /\ k + 1 \in G <=> x.event \in types
    BY <1>1
  <1> HIDE DEF G
  <1>4. Cardinality(G \cap (1..(k + 1)))
          = Cardinality(G \cap (1..k)) + (IF k + 1 \in G THEN 1 ELSE 0)
    BY <1>1, CountUpTo
  <1>5. Told(t, types, k + 1) = Told(t, types, k) + (IF x.event \in types THEN 1 ELSE 0)
    BY <1>3, <1>4 DEF Told
  <1>6. \A n \in 0..k : Told(t, types, n) = Told(s, types, n)
    BY <1>2 DEF Told
  <1>7. k \in 0..k
    BY <1>1
  <1>8. QED
    BY <1>5, <1>6, <1>7 DEF t, k

\* What comes later on the path does not change the visits among its first l steps.
LEMMA VisitsSame ==
  ASSUME NEW p, NEW q, NEW l \in Nat, \A i \in 1..l : q[i] = p[i]
  PROVE  \A y : /\ \A k \in 0..l : VisitsOf(q, y, k) = VisitsOf(p, y, k)
                /\ VisitsOf(q, y, l) = VisitsOf(p, y, l)
  <1>1. \A y : \A k \in 0..l : {j \in 1..k : q[j] = y} = {j \in 1..k : p[j] = y}
    OBVIOUS
  <1>2. \A y : \A k \in 0..l : VisitsOf(q, y, k) = VisitsOf(p, y, k)
    BY <1>1 DEF VisitsOf
  <1>3. l \in 0..l
    OBVIOUS
  <1>4. QED
    BY <1>2, <1>3

\* One more step of the path is one more visit to that step.
LEMMA VisitsOneMore ==
  ASSUME NEW p, NEW l \in Nat, NEW y
  PROVE  /\ VisitsOf(p, y, l + 1) = VisitsOf(p, y, l) + (IF p[l + 1] = y THEN 1 ELSE 0)
         /\ VisitsOf(p, y, l) \in Nat
  <1> DEFINE G == {j \in 1..(l + 1) : p[j] = y}
  <1>1. /\ G \cap (1..l) = {j \in 1..l : p[j] = y}
        /\ G \cap (1..(l + 1)) = {j \in 1..(l + 1) : p[j] = y}
        /\ l + 1 \in G <=> p[l + 1] = y
    OBVIOUS
  <1> HIDE DEF G
  <1>2. /\ Cardinality(G \cap (1..(l + 1)))
             = Cardinality(G \cap (1..l)) + (IF l + 1 \in G THEN 1 ELSE 0)
        /\ Cardinality(G \cap (1..l)) \in Nat
    BY CountUpTo
  <1>3. QED
    BY <1>1, <1>2 DEF VisitsOf

\* One more event that fits the path.
LEMMA ExplainsOneMoreEvent ==
  ASSUME NEW nodes, NEW s \in Seq(EventRecords), NEW x \in EventRecords, NEW p, Explains(nodes, s, p),
         x.event \in Starts => x.step_id = p[Told(s, Starts, Len(s)) + 1],
         x.event \in Closes => /\ x.step_id = p[Told(s, Closes, Len(s)) + 1]
                               /\ ~ (Told(s, Closes, Len(s)) + 1 < Len(p))
  PROVE  Explains(nodes, Append(s, x), p)
  <1> DEFINE t == Append(s, x)
             k == Len(s)
  <1>1. /\ k \in Nat /\ DOMAIN t = 1..(k + 1) /\ DOMAIN s = 1..k
        /\ \A i \in 1..k : t[i] = s[i]
        /\ t[k + 1] = x
    BY Appended
  <1>2. \A types : /\ \A n \in 1..k : Told(t, types, n) = Told(s, types, n)
                   /\ x.event \in types => Told(t, types, k + 1) = Told(s, types, k) + 1
    BY ToldOneMore
  <1>3. /\ x.event \in Starts => x.step_id = p[Told(s, Starts, k) + 1]
        /\ x.event \in Closes => /\ x.step_id = p[Told(s, Closes, k) + 1]
                                 /\ ~ (Told(s, Closes, k) + 1 < Len(p))
    OBVIOUS
  <1> HIDE DEF t, k
  <1>4. \A n \in DOMAIN t : n \in DOMAIN s \/ n = k + 1
    BY <1>1
  <1>5. ASSUME NEW n \in DOMAIN t, t[n].event \in Starts
        PROVE  t[n].step_id = p[Told(t, Starts, n)]
    <2>1. CASE n \in DOMAIN s
      BY <1>1, <1>2, <1>5, <2>1 DEF Explains
    <2>2. CASE n = k + 1
      BY <1>1, <1>2, <1>3, <1>5, <2>2
    <2>3. QED
      BY <1>4, <2>1, <2>2
  <1>6. ASSUME NEW n \in DOMAIN t, t[n].event \in Closes
        PROVE  /\ t[n].step_id = p[Told(t, Closes, n)]
               /\ Told(t, Closes, n) < Len(p) =>
                      p[Told(t, Closes, n) + 1] = Leads(nodes, p, Told(t, Closes, n), t[n].event)
    <2>1. CASE n \in DOMAIN s
      BY <1>1, <1>2, <1>6, <2>1 DEF Explains
    <2>2. CASE n = k + 1
      BY <1>1, <1>2, <1>3, <1>6, <2>2
    <2>3. QED
      BY <1>4, <2>1, <2>2
  <1>7. QED
    BY <1>5, <1>6 DEF Explains, t

\* One more step, the one that the last closing event leads to.
LEMMA ExplainsOneMoreStep ==
  ASSUME NEW nodes, NEW S,
         NEW s \in Seq(EventRecords), NEW p \in Seq(S), NEW x \in S,
         Explains(nodes, s, p),
         Told(s, Starts, Len(s)) <= Len(p), Told(s, Closes, Len(s)) <= Len(p),
         \A n \in DOMAIN s : s[n].event \in Closes /\ Told(s, Closes, n) = Len(p) =>
             x = Leads(nodes, p, Len(p), s[n].event)
  PROVE  Explains(nodes, s, Append(p, x))
  <1> DEFINE q == Append(p, x)
             l == Len(p)
  <1>1. /\ l \in Nat /\ Len(q) = l + 1 /\ \A i \in 1..l : q[i] = p[i]
        /\ q[l + 1] = x
    BY Appended
  <1>2. \A i \in 1..l : \A c : Leads(nodes, q, i, c) = Leads(nodes, p, i, c)
    <2> HIDE DEF q, l
    <2>1. \A y : \A i \in 0..l : VisitsOf(q, y, i) = VisitsOf(p, y, i)
      BY ONLY <1>1, VisitsSame
    <2>2. \A i \in 1..l : i \in 0..l
      BY <1>1
    <2>3. QED
      BY <1>1, <2>1, <2>2 DEF Leads
  <1>3. \A n \in DOMAIN s : /\ s[n].event \in Starts => Told(s, Starts, n) \in 1..l
                            /\ s[n].event \in Closes => Told(s, Closes, n) \in 1..l
    <2>1. DOMAIN s = 1..Len(s) /\ Len(s) \in Nat
      OBVIOUS
    <2>2. SUFFICES ASSUME NEW n \in 1..Len(s), NEW types, s[n].event \in types,
                          Told(s, types, Len(s)) <= l
                   PROVE  Told(s, types, n) \in 1..l
      BY <2>1
    <2>3. n \in 0..Len(s) /\ n # 0 /\ Len(s) \in 0..Len(s)
      BY <2>1
    <2>4. /\ Told(s, types, n) \in Nat /\ Told(s, types, Len(s)) \in Nat
          /\ Told(s, types, n) <= Told(s, types, Len(s)) /\ Told(s, types, n) >= 1
      BY <2>2, <2>3, ToldBounds
    <2> HIDE DEF l
    <2>5. QED
      BY <1>1, <2>2, <2>4
  <1>4. \A n \in DOMAIN s : s[n].event \in Closes /\ Told(s, Closes, n) = l => x = Leads(nodes, p, l, s[n].event)
    OBVIOUS
  <1> HIDE DEF q, l
  <1>5. ASSUME NEW n \in DOMAIN s, s[n].event \in Starts
        PROVE  s[n].step_id = q[Told(s, Starts, n)]
    BY <1>1, <1>3, <1>5 DEF Explains
  <1>6. ASSUME NEW n \in DOMAIN s, s[n].event \in Closes
        PROVE  /\ s[n].step_id = q[Told(s, Closes, n)]
               /\ Told(s, Closes, n) < Len(q) =>
                      q[Told(s, Closes, n) + 1] = Leads(nodes, q, Told(s, Closes, n), s[n].event)
    <2> DEFINE i == Told(s, Closes, n)
    <2>1. /\ i \in 1..l /\ s[n].step_id = p[i] /\ q[i] = p[i]
          /\ i < l => p[i + 1] = Leads(nodes, p, i, s[n].event)
      BY <1>1, <1>3, <1>6 DEF Explains, l
    <2>2. i = l => x = Leads(nodes, p, i, s[n].event)
      BY <1>4, <1>6
    <2> HIDE DEF i
    <2>3. Leads(nodes, q, i, s[n].event) = Leads(nodes, p, i, s[n].event)
      BY <1>2, <2>1
    <2>4. i < l => i + 1 \in 1..l
      BY <1>1, <2>1
    <2>5. i < Len(q) => q[i + 1] = Leads(nodes, q, i, s[n].event)
      BY <1>1, <2>1, <2>2, <2>3, <2>4
    <2>6. QED
      BY <2>1, <2>5 DEF i
  <1>7. QED
    BY <1>5, <1>6 DEF Explains, q

\* The loop counts of the steps with a loop are their visits among the first k
\* steps of the path.
CountsVisits(k) ==
    \A n \in DOMAIN Nodes : Nodes[n].loop # None => loopCounts[n] = VisitsOf(path, n, k)

\* Before a step begins, all steps of the path are closed and the last closing
\* event has led to the step that is next; within a step all but that one are.
ReplayInv ==
    /\ path # <<>> => path[1] = config.program.entry
    /\ Told(events, Starts, Len(events)) = IF Len(path) > MaxSteps THEN MaxSteps ELSE Len(path)
    /\ Told(events, Closes, Len(events)) \in {Len(path), Len(path) - 1}
    /\ Explains(Nodes, events, path)
    /\ runs = 0 => /\ pc = "idle" /\ path = <<>> /\ events = <<>> /\ closures = {}
                   /\ \A n \in DOMAIN Nodes : loopCounts[n] = 0
    /\ pc = "top" =>
           /\ Told(events, Closes, Len(events)) = Len(path)
           /\ path = <<>> => currentId = config.program.entry
           /\ \A n \in DOMAIN events :
                  events[n].event \in Closes /\ Told(events, Closes, n) = Len(path) =>
                      currentId = Leads(Nodes, path, Len(path), events[n].event)
           /\ CountsVisits(Len(path))
    /\ pc = "execute" =>
           /\ Told(events, Closes, Len(events)) = Len(path) - 1
           /\ CountsVisits(Len(path) - 1)

\* A finished replay explains the path of the run.
LEMMA ReplayExplains == ReplayInv => TelemetryExplainsPath
  <1>1. \A i, c : Leads(Nodes, path, i, c) = LeadsTo(i, c)
    BY DEF Leads, LeadsTo, VisitsOf, Visits
  <1>2. QED
    BY <1>1 DEF ReplayInv, TelemetryExplainsPath, Explains

\* A new executor, and the beginning of its run.
LEMMA ReplayInit ==
  ASSUME NEW nodes, NEW s, s = <<>> \/ \E x : s = <<x>> /\ x.event \notin Starts \cup Closes
  PROVE  Told(s, Starts, Len(s)) = 0 /\ Told(s, Closes, Len(s)) = 0 /\ Explains(nodes, s, <<>>)
  <1>1. \A n \in 1..Len(s) : n \in DOMAIN s /\ s[n].event \notin Starts \cup Closes
    <2>1. CASE s = <<>>
      BY <2>1
    <2>2. CASE \E x : s = <<x>> /\ x.event \notin Starts \cup Closes
      <3>1. PICK x : s = <<x>> /\ x.event \notin Starts \cup Closes
        BY <2>2
      <3>2. Len(s) = 1 /\ s[1] = x /\ DOMAIN s = 1..1
        BY <3>1
      <3>3. \A n \in 1..1 : n = 1
        OBVIOUS
      <3>4. QED
        BY <3>1, <3>2, <3>3
    <2>3. QED
      BY <2>1, <2>2
  <1>2. /\ {m \in 1..Len(s) : s[m].event \in Starts} = {}
        /\ {m \in 1..Len(s) : s[m].event \in Closes} = {}
    BY <1>1
  <1>3. DOMAIN s = 1..Len(s)
    <2>1. CASE s = <<>>
      BY <2>1
    <2>2. ASSUME NEW x, s = <<x>>
          PROVE  DOMAIN s = 1..Len(s)
      BY <2>2
    <2>3. QED
      BY <2>1, <2>2
  <1>4. QED
    BY <1>1, <1>2, <1>3, FS_EmptySet DEF Told, Explains

\* An event that neither starts nor closes a step.
LEMMA ReplayOtherEvent ==
  ASSUME TypeOK, ReplayInv, NEW x \in EventRecords, x.event \notin Starts \cup Closes,
         events' = Append(events, x), UNCHANGED <<config, pc, runs, currentId, path, loopCounts>>,
         runs # 0
  PROVE  ReplayInv'
  <1>1. events \in Seq(EventRecords)
    BY DEF TypeOK
  <1>2. /\ Len(events) \in Nat /\ Len(events') = Len(events) + 1
        /\ DOMAIN events = 1..Len(events) /\ DOMAIN events' = 1..(Len(events) + 1)
        /\ \A n \in 1..Len(events) : events'[n] = events[n]
        /\ events'[Len(events) + 1] = x
    BY <1>1, Appended
  <1>3. /\ Told(events', Starts, Len(events')) = Told(events, Starts, Len(events))
        /\ Told(events', Closes, Len(events')) = Told(events, Closes, Len(events))
        /\ \A n \in 1..Len(events) : Told(events', Closes, n) = Told(events, Closes, n)
    <2>1. \A n \in 1..Len(events) : n \in 0..Len(events)
      BY <1>2
    <2>2. \A types : Told(events, types, Len(events)) \in Nat
      BY <1>1, <1>2, ToldBounds
    <2>3. QED
      BY <1>1, <1>2, <2>1, <2>2, ToldOneMore
  <1>4. Explains(Nodes, events', path)
    BY <1>1, ExplainsOneMoreEvent DEF ReplayInv
  <1>5. Nodes' = Nodes
    BY DEF Nodes
  <1>6. \A n \in 1..(Len(events) + 1) : n \in 1..Len(events) \/ n = Len(events) + 1
    BY <1>2
  <1>7. pc = "top" => \A n \in DOMAIN events' :
           events'[n].event \in Closes /\ Told(events', Closes, n) = Len(path) =>
               currentId = Leads(Nodes, path, Len(path), events'[n].event)
    BY <1>2, <1>3, <1>6 DEF ReplayInv
  <1>8. QED
    BY <1>3, <1>4, <1>5, <1>7 DEF ReplayInv, CountsVisits

\* The top of the loop.
LEMMA ReplayBegin ==
  ASSUME TypeOK, TypeOK', BudgetInv, ReplayInv, BeginStep
  PROVE  ReplayInv'
  <1>1. /\ events \in Seq(EventRecords) /\ path \in Seq(DOMAIN Nodes) /\ MaxSteps \in Nat
        /\ pc = "top" /\ runs # 0 /\ runs' = runs /\ currentId' = currentId
        /\ config' = config /\ Nodes' = Nodes /\ loopCounts' = loopCounts
        /\ stepCount = Len(path) /\ Len(path) \in Nat /\ Len(path) <= MaxSteps
    <2>1. result = NoResult /\ pc = "top"
      BY DEF BeginStep, BudgetInv
    <2>2. Len(path) <= MaxSteps
      BY <2>1, RaisedDiffer DEF BudgetInv, StepBudget
    <2>3. QED
      BY <2>1, <2>2, ExecutorAssumption DEF TypeOK, BeginStep, BudgetInv, StepBudget, ReplayInv,
                                            Nodes
  <1>2. /\ Told(events, Starts, Len(events)) = Len(path)
        /\ Told(events, Closes, Len(events)) = Len(path)
        /\ Explains(Nodes, events, path) /\ CountsVisits(Len(path))
        /\ path # <<>> => path[1] = config.program.entry
        /\ path = <<>> => currentId = config.program.entry
        /\ \A n \in DOMAIN events :
               events[n].event \in Closes /\ Told(events, Closes, n) = Len(path) =>
                   currentId = Leads(Nodes, path, Len(path), events[n].event)
    BY <1>1 DEF ReplayInv
  <1>3. CASE currentId \notin DOMAIN Nodes
    <2>1. pc' = "idle" /\ UNCHANGED <<path, events>>
      BY <1>3 DEF BeginStep
    <2>2. QED
      BY <1>1, <1>2, <2>1 DEF ReplayInv
  <1>4. CASE currentId \in DOMAIN Nodes
    <2>1. path' = Append(path, currentId)
      BY <1>4 DEF BeginStep
    <2>2. /\ Len(path') = Len(path) + 1
          /\ \A j \in 1..Len(path) : path'[j] = path[j]
          /\ path'[Len(path) + 1] = currentId
      BY <1>1, <1>4, <2>1, Appended
    <2>3. path'[1] = config.program.entry
      <3>1. CASE path = <<>>
        BY <1>2, <2>2, <3>1
      <3>2. CASE path # <<>>
        BY <1>1, <1>2, <2>2, <3>2
      <3>3. QED
        BY <3>1, <3>2
    <2>4. Explains(Nodes, events, path')
      BY <1>1, <1>2, <1>4, <2>1, ExplainsOneMoreStep
    <2>5. CASE stepCount + 1 > MaxSteps
      <3>1. pc' = "idle" /\ events' = events
        BY <1>4, <2>5, <1>1 DEF BeginStep
      <3>2. Len(path) = MaxSteps
        BY <1>1, <2>5
      <3>3. QED
        BY <1>1, <1>2, <2>2, <2>3, <2>4, <3>1, <3>2 DEF ReplayInv
    <2>6. CASE stepCount + 1 <= MaxSteps
      <3> DEFINE x == Event("step_started", currentId)
      <3>1. /\ pc' = "execute" /\ events' = Append(events, x)
            /\ x \in EventRecords /\ x.event = "step_started" /\ x.step_id = currentId
        <4>1. x \in EventRecords
          BY <1>4, EventTypes1 DEF EventTypes
        <4>2. x.event = "step_started" /\ x.step_id = currentId
          BY DEF Event
        <4>3. pc' = "execute" /\ events' = Append(events, x)
          BY <1>1, <1>4, <2>6 DEF BeginStep
        <4> HIDE DEF x
        <4>4. QED
          BY <4>1, <4>2, <4>3
      <3> HIDE DEF x
      <3>2. x.event \in Starts /\ x.event \notin Closes
        BY <3>1 DEF Starts, Closes
      <3>3. /\ Told(events', Starts, Len(events')) = Len(path) + 1
            /\ Told(events', Closes, Len(events')) = Len(path)
        <4>1. Len(events') = Len(events) + 1
          BY <1>1, <3>1, Appended
        <4>2. QED
          BY <1>1, <1>2, <3>1, <3>2, <4>1, ToldOneMore
      <3>4. Explains(Nodes, events', path')
        BY <1>1, <1>2, <2>2, <2>4, <3>1, <3>2, ExplainsOneMoreEvent
      <3>5. \A n : VisitsOf(path', n, Len(path)) = VisitsOf(path, n, Len(path))
        <4>1. Len(path) \in Nat /\ \A j \in 1..Len(path) : path'[j] = path[j]
          BY <1>1, <2>2
        <4>2. QED
          BY ONLY <4>1, VisitsSame
      <3>6. Len(path') <= MaxSteps /\ Len(path') - 1 = Len(path) /\ path' # <<>>
        BY <1>1, <2>2, <2>6
      <3>7. \A n \in DOMAIN Nodes : Nodes[n].loop # None =>
                loopCounts'[n] = VisitsOf(path', n, Len(path') - 1)
        BY <1>1, <1>2, <3>5, <3>6 DEF CountsVisits
      <3>8. pc' = "execute" => CountsVisits(Len(path) - 1)'
        BY <1>1, <3>7 DEF CountsVisits
      <3>9. QED
        BY <1>1, <1>2, <2>2, <2>3, <3>1, <3>3, <3>4, <3>6, <3>8 DEF ReplayInv
    <2>7. QED
      BY <1>1, <2>5, <2>6
  <1>5. QED
    BY <1>3, <1>4

\* Where the step that has been executed leads, from the loop counts.
LEMMA ReplayHop ==
  ASSUME TypeOK, ReplayInv, pc = "execute", path # <<>>, path[Len(path)] = currentId,
         NEW state \in {"DONE", "FAILED"}, NextStep(state) # None
  PROVE  /\ NextStep(state) = Leads(Nodes, path, Len(path), StepEvent(state).event)
         /\ \A n \in DOMAIN Nodes : Nodes[n].loop # None =>
                VisitsOf(path, n, Len(path)) = IF n = currentId THEN LoopCount ELSE loopCounts[n]
  <1> DEFINE l == Len(path)
  <1>1. /\ l - 1 \in Nat /\ (l - 1) + 1 = l /\ currentId \in DOMAIN Nodes
        /\ path[l] = currentId /\ CountsVisits(l - 1)
    BY DEF TypeOK, ReplayInv
  <1> HIDE DEF l
  <1>2. \A y : VisitsOf(path, y, l) = VisitsOf(path, y, l - 1) + (IF currentId = y THEN 1 ELSE 0)
    <2>1. TAKE y
    <2>2. VisitsOf(path, y, (l - 1) + 1)
            = VisitsOf(path, y, l - 1) + (IF path[(l - 1) + 1] = y THEN 1 ELSE 0)
      BY ONLY <1>1, VisitsOneMore
    <2>3. QED
      BY <1>1, <2>2
  <1>3. ASSUME NEW n \in DOMAIN Nodes, Nodes[n].loop # None
        PROVE  VisitsOf(path, n, l) = IF n = currentId THEN LoopCount ELSE loopCounts[n]
    <2>1. loopCounts[n] = VisitsOf(path, n, l - 1) /\ loopCounts[n] \in Nat
      BY <1>1, <1>3 DEF CountsVisits, TypeOK
    <2>2. QED
      BY <1>2, <2>1 DEF LoopCount
  <1>4. AtLimit <=> Node.loop # None /\ VisitsOf(path, currentId, l) >= Node.loop.value
    BY <1>1, <1>3 DEF AtLimit, Node
  <1>5. StepEvent(state).event = IF state = "FAILED" THEN "step_failed" ELSE "step_completed"
    BY DEF StepEvent, Event
  <1>6. (IF StepEvent(state).event = "step_completed" THEN "on_success" ELSE "on_failure")
          = (IF state = "DONE" THEN "on_success" ELSE "on_failure")
    BY <1>5
  <1>7. NextStep(state) = Leads(Nodes, path, l, StepEvent(state).event)
    BY <1>1, <1>4, <1>6 DEF NextStep, Leads, Node
  <1>8. QED
    BY <1>3, <1>7 DEF l

\* The step closes.
LEMMA ReplayClose ==
  ASSUME TypeOK, ReplayInv, pc = "execute", path # <<>>, path[Len(path)] = currentId,
         NEW state, NEW mid, mid = Append(events, StepEvent(state))
  PROVE  /\ mid \in Seq(EventRecords)
         /\ Told(mid, Starts, Len(mid)) = Told(events, Starts, Len(events))
         /\ Told(mid, Closes, Len(mid)) = Len(path)
         /\ Explains(Nodes, mid, path)
         /\ \A n \in DOMAIN mid : mid[n].event \in Closes /\ Told(mid, Closes, n) = Len(path) =>
                mid[n].event = StepEvent(state).event
  <1> DEFINE x == StepEvent(state)
             k == Len(events)
  <1>1. /\ events \in Seq(EventRecords) /\ Len(path) \in Nat /\ currentId \in DOMAIN Nodes
        /\ Told(events, Closes, k) = Len(path) - 1 /\ Explains(Nodes, events, path)
        /\ path[Len(path)] = currentId
    BY DEF TypeOK, ReplayInv
  <1>2. /\ x \in EventRecords
    BY <1>1, EventTypes1 DEF StepEvent, EventTypes
  <1>3. x.event \in Closes /\ x.event \notin Starts /\ x.step_id = currentId
    BY DEF StepEvent, Event, Closes, Starts
  <1> HIDE DEF x
  <1>4. /\ k \in Nat /\ Len(mid) = k + 1 /\ DOMAIN mid = 1..(k + 1) /\ DOMAIN events = 1..k
        /\ mid \in Seq(EventRecords)
        /\ \A n \in 1..k : mid[n] = events[n]
        /\ mid[k + 1] = x
    BY <1>1, <1>2, Appended DEF x
  <1>5. /\ Told(mid, Starts, k + 1) = Told(events, Starts, k)
        /\ Told(mid, Closes, k + 1) = Len(path)
        /\ \A n \in 1..k : Told(mid, Closes, n) = Told(events, Closes, n)
    <2>1. \A n \in 1..k : n \in 0..k
      BY <1>4
    <2>2. \A types : Told(events, types, k) \in Nat
      BY <1>1, <1>4, ToldBounds
    <2>3. QED
      BY <1>1, <1>2, <1>3, <2>1, <2>2, ToldOneMore DEF x
  <1>6. Explains(Nodes, mid, path)
    <2>1. /\ x.event \in Starts => x.step_id = path[Told(events, Starts, k) + 1]
          /\ x.event \in Closes => /\ x.step_id = path[Told(events, Closes, k) + 1]
                                   /\ ~ (Told(events, Closes, k) + 1 < Len(path))
      BY <1>1, <1>3
    <2>2. Explains(Nodes, Append(events, x), path)
      BY <1>1, <1>2, <2>1, ExplainsOneMoreEvent
    <2>3. QED
      BY <2>2 DEF x
  <1>7. ASSUME NEW n \in DOMAIN mid, mid[n].event \in Closes, Told(mid, Closes, n) = Len(path)
        PROVE  mid[n].event = x.event
    <2>1. CASE n = k + 1
      BY <1>4, <2>1
    <2>2. CASE n \in 1..k
      <3>1. Told(events, Closes, n) <= Told(events, Closes, k) /\ Told(events, Closes, n) \in Nat
        BY <1>1, <1>4, <2>2, ToldBounds
      <3>2. QED
        BY <1>1, <1>5, <1>7, <2>2, <3>1
    <2>3. QED
      BY <1>4, <2>1, <2>2
  <1>8. QED
    BY <1>4, <1>5, <1>6, <1>7 DEF x

\* handler.execute returns.
LEMMA ReplayReturns ==
  ASSUME HandlerStates \subseteq {"DONE", "FAILED", "DENIED"},
         TypeOK, TypeOK', BudgetInv, ReplayInv, NEW r \in HandlerStates, StepReturns(r)
  PROVE  ReplayInv'
  <1>1. /\ pc = "execute" /\ path' = path /\ runs' = runs /\ config' = config /\ Nodes' = Nodes
        /\ path \in Seq(DOMAIN Nodes) /\ Len(path) \in Nat /\ path # <<>>
        /\ path[Len(path)] = currentId /\ runs # 0 /\ Len(path) <= MaxSteps /\ MaxSteps \in Nat
    BY ExecutorAssumption DEF StepReturns, TypeOK, BudgetInv, StepBudget, ReplayInv, Nodes
  <1> DEFINE state == Effective(r)
  <1>2. PICK mid : mid = Append(events, StepEvent(state))
    OBVIOUS
  <1>3. /\ mid \in Seq(EventRecords)
        /\ Told(mid, Starts, Len(mid)) = Len(path)
        /\ Told(mid, Closes, Len(mid)) = Len(path)
        /\ Explains(Nodes, mid, path)
        /\ \A n \in DOMAIN mid : mid[n].event \in Closes /\ Told(mid, Closes, n) = Len(path) =>
               mid[n].event = StepEvent(state).event
    <2>1. Told(events, Starts, Len(events)) = Len(path)
      BY <1>1 DEF ReplayInv
    <2>2. QED
      BY <1>1, <1>2, <2>1, ReplayClose
  <1>4. CASE Complete(r)
    <2> DEFINE x == Event("run_completed", "")
    <2>1. pc' = "idle" /\ events' = Append(mid, x)
      BY <1>2, <1>4 DEF Complete
    <2>2. x \in EventRecords /\ x.event \notin Starts /\ x.event \notin Closes
      <3>1. x \in EventRecords
        BY EventTypes1 DEF EventTypes
      <3>2. QED
        BY <3>1 DEF Event, Starts, Closes
    <2> HIDE DEF x
    <2>3. Explains(Nodes, events', path)
      BY <1>3, <2>1, <2>2, ExplainsOneMoreEvent
    <2>4. /\ Told(events', Starts, Len(events')) = Len(path)
          /\ Told(events', Closes, Len(events')) = Len(path)
      <3>1. Len(events') = Len(mid) + 1
        BY <1>3, <2>1, <2>2, Appended
      <3>2. QED
        BY <1>1, <1>3, <2>1, <2>2, <3>1, ToldOneMore
    <2>5. QED
      BY <1>1, <2>1, <2>3, <2>4 DEF ReplayInv
  <1>5. CASE Advance(r)
    <2>1. /\ events' = mid /\ state \in {"DONE", "FAILED"} /\ pc' \in {"top", "idle"}
          /\ pc' = "top" => NextStep(state) # None /\ currentId' = NextStep(state)
          /\ loopCounts' = IF Node.loop # None
                           THEN [loopCounts EXCEPT ![currentId] = LoopCount] ELSE loopCounts
      BY <1>2, <1>5 DEF Advance, Effective
    <2> HIDE DEF state
    <2>2. CASE pc' = "top"
      <3>1. /\ currentId' = Leads(Nodes, path, Len(path), StepEvent(state).event)
            /\ \A n \in DOMAIN Nodes : Nodes[n].loop # None =>
                   VisitsOf(path, n, Len(path)) = IF n = currentId THEN LoopCount ELSE loopCounts[n]
        BY <1>1, <2>1, <2>2, ReplayHop
      <3>2. \A n \in DOMAIN Nodes : Nodes[n].loop # None =>
                loopCounts'[n] = VisitsOf(path, n, Len(path))
        BY <2>1, <3>1 DEF TypeOK, Node
      <3>3. \A n \in DOMAIN events' :
                events'[n].event \in Closes /\ Told(events', Closes, n) = Len(path) =>
                    currentId' = Leads(Nodes, path, Len(path), events'[n].event)
        BY <1>3, <2>1, <3>1
      <3>4. CountsVisits(Len(path))'
        BY <1>1, <3>2 DEF CountsVisits
      <3>5. QED
        BY <1>1, <1>3, <2>1, <2>2, <3>3, <3>4 DEF ReplayInv
    <2>3. CASE pc' = "idle"
      BY <1>1, <1>3, <2>1, <2>3 DEF ReplayInv
    <2>4. QED
      BY <2>1, <2>2, <2>3
  <1>6. QED
    BY <1>4, <1>5 DEF StepReturns

\* run() up to the loop, of an executor that has not run yet.
LEMMA ReplayStart ==
  ASSUME MaxRuns = 1, TypeOK, ReplayInv, StartRun
  PROVE  ReplayInv'
  <1> DEFINE x == Event("run_started", "")
  <1>1. /\ runs = 0 /\ runs' = 1 /\ pc' = "top" /\ config' = config /\ Nodes' = Nodes
        /\ currentId' = config.program.entry /\ path' = <<>> /\ loopCounts' = loopCounts
        /\ events' = <<x>> /\ \A n \in DOMAIN Nodes : loopCounts[n] = 0
        /\ MaxSteps \in Nat
    <2>1. runs \in 0..1 /\ runs < 1 /\ runs' = runs + 1 /\ MaxSteps \in Nat
      BY ExecutorAssumption DEF StartRun, TypeOK
    <2>2. runs = 0 /\ runs' = 1
      BY <2>1
    <2>3. \A n \in DOMAIN Nodes : loopCounts[n] = 0
      BY <2>2 DEF ReplayInv
    <2>4. QED
      BY <2>1, <2>2, <2>3 DEF StartRun, Nodes
  <1>2. x.event \notin Starts \cup Closes
    BY DEF Event, Starts, Closes
  <1> HIDE DEF x
  <1>3. /\ Told(events', Starts, Len(events')) = 0 /\ Told(events', Closes, Len(events')) = 0
        /\ Explains(Nodes, events', <<>>)
    <2>1. events' = <<>> \/ \E y : events' = <<y>> /\ y.event \notin Starts \cup Closes
      BY <1>1, <1>2
    <2>2. QED
      BY <2>1, ReplayInit
  <1>4. Len(<<>>) = 0 /\ ~ (0 > MaxSteps)
    BY <1>1
  <1>5. \A y : VisitsOf(<<>>, y, 0) = 0
    <2>1. \A y : {j \in 1..0 : <<>>[j] = y} = {}
      OBVIOUS
    <2>2. QED
      BY <2>1, FS_EmptySet DEF VisitsOf
  <1>6. \A n \in DOMAIN events' : ~ (events'[n].event \in Closes)
    <2>1. DOMAIN events' = {1} /\ events'[1] = x
      BY <1>1
    <2>2. QED
      BY <1>2, <2>1
  <1>7. QED
    BY <1>1, <1>3, <1>4, <1>5, <1>6 DEF ReplayInv, CountsVisits

\* Every step of an executor that runs once, and whose handler does not report a
\* step as pending or running.
LEMMA ReplayStep ==
  ASSUME MaxRuns = 1, HandlerStates \subseteq {"DONE", "FAILED", "DENIED"},
         TypeOK, TypeOK', BudgetInv, ReplayInv, [Next]_vars
  PROVE  ReplayInv'
  <1> DEFINE Same == UNCHANGED <<config, pc, runs, currentId, path, loopCounts, events, closures>>
  <1>s. Same => ReplayInv'
    <2>1. Same => Nodes' = Nodes
      BY DEF Nodes
    <2>2. QED
      BY <2>1 DEF ReplayInv, CountsVisits
  <1>1. CASE StartRun
    BY <1>1, ReplayStart
  <1>2. CASE RefuseRun
    <2>1. /\ pc = "idle" /\ runs' = runs + 1 /\ runs \in Nat /\ Nodes' = Nodes
          /\ UNCHANGED <<config, pc, currentId, path, loopCounts, events, closures>>
      BY <1>2, ExecutorAssumption DEF RefuseRun, TypeOK, Nodes
    <2>2. runs' # 0
      BY <2>1
    <2>3. QED
      BY <2>1, <2>2 DEF ReplayInv
  <1>3. CASE BeginStep
    BY <1>3, ReplayBegin
  <1>4. ASSUME NEW sid \in closures, NEW cap \in Requests, RequestTool(sid, cap)
        PROVE  ReplayInv'
    <2>1. /\ UNCHANGED <<config, pc, runs, currentId, path, loopCounts, closures>>
          /\ \/ events' = events
             \/ events' = Append(events, Event("capability_denied", sid))
             \/ events' = Append(events, Event("capability_granted", sid))
      BY <1>4 DEF RequestTool
    <2>2. sid \in DOMAIN Nodes /\ runs # 0
      BY DEF TypeOK, ReplayInv
    <2>3. \A type \in {"capability_denied", "capability_granted"} :
             /\ Event(type, sid) \in EventRecords
             /\ Event(type, sid).event \notin Starts \cup Closes
      <3>1. \A type \in {"capability_denied", "capability_granted"} :
               Event(type, sid) \in EventRecords
        BY <2>2, EventTypes1 DEF EventTypes
      <3>2. QED
        BY <3>1 DEF Event, Starts, Closes
    <2>4. CASE events' = events
      BY <2>1, <2>4, <1>s
    <2>5. ASSUME NEW type \in {"capability_denied", "capability_granted"},
                 events' = Append(events, Event(type, sid))
          PROVE  ReplayInv'
      <3> DEFINE x == Event(type, sid)
      <3>1. /\ x \in EventRecords /\ x.event \notin Starts \cup Closes
            /\ events' = Append(events, x)
        BY <2>3, <2>5
      <3> HIDE DEF x
      <3>2. QED
        BY <2>1, <2>2, <3>1, ReplayOtherEvent
    <2>6. QED
      BY <2>1, <2>4, <2>5
  <1>5. ASSUME NEW r \in HandlerStates, StepReturns(r)
        PROVE  ReplayInv'
    BY <1>5, ReplayReturns
  <1>6. CASE HandlerRaises
    <2>1. /\ pc' = "idle" /\ runs # 0 /\ Nodes' = Nodes
          /\ UNCHANGED <<config, runs, currentId, path, loopCounts, events>>
      BY <1>6 DEF HandlerRaises, ReplayInv, Nodes
    <2>2. QED
      BY <2>1 DEF ReplayInv
  <1>7. CASE RegNext /\ UNCHANGED execVars
    BY <1>7, <1>s DEF execVars
  <1>8. CASE UNCHANGED vars
    BY <1>8, <1>s DEF vars, execVars
  <1>9. QED
    BY <1>1, <1>2, <1>3, <1>4, <1>5, <1>6, <1>7, <1>8 DEF Next

\* A new executor has nothing to replay.
LEMMA ReplayAtFirst == Init => ReplayInv
  <1> SUFFICES ASSUME Init PROVE ReplayInv
    OBVIOUS
  <1>1. /\ events = <<>> /\ path = <<>> /\ pc = "idle" /\ closures = {} /\ MaxSteps \in Nat
        /\ \A n \in DOMAIN Nodes : loopCounts[n] = 0
    BY ExecutorAssumption DEF Init
  <1>2. /\ Told(events, Starts, Len(events)) = 0 /\ Told(events, Closes, Len(events)) = 0
        /\ Explains(Nodes, events, <<>>)
    BY <1>1, ReplayInit
  <1>3. Len(<<>>) = 0 /\ ~ (0 > MaxSteps)
    BY <1>1
  <1>4. QED
    BY <1>1, <1>2, <1>3 DEF ReplayInv

\* The i-th event of some types is somewhere.
LEMMA ToldReaches ==
  ASSUME NEW s \in Seq(EventRecords), NEW types, NEW i \in 1..Told(s, types, Len(s))
  PROVE  \E n \in DOMAIN s : s[n].event \in types /\ Told(s, types, n) = i
  <1> DEFINE l == Len(s)
             G == {m \in 1..l : s[m].event \in types}
             S == {n \in 0..l : Told(s, types, n) >= i}
  <1>1. l \in Nat /\ DOMAIN s = 1..l /\ l \in 0..l
    OBVIOUS
  <1>2. \A n \in 0..l : Told(s, types, n) \in Nat
    BY ToldBounds
  <1>3. i \in Nat /\ 1 <= i /\ Told(s, types, l) >= i
    BY <1>1, <1>2
  <1> HIDE DEF l
  <1>4. PICK n \in S : \A m \in S : n <= m
    <2>1. S \subseteq Nat /\ l \in S
      BY <1>1, <1>3
    <2>2. QED
      BY <2>1, LeastOf
  <1>5. Told(s, types, 0) = 0
    <2>1. {m \in 1..0 : s[m].event \in types} = {}
      OBVIOUS
    <2>2. QED
      BY <2>1, FS_EmptySet DEF Told
  <1>6. n \in 1..l /\ n - 1 \in 0..l /\ n - 1 \in Nat /\ (n - 1) + 1 = n
    BY <1>1, <1>3, <1>4, <1>5
  <1>7. Told(s, types, n) >= i /\ ~ (Told(s, types, n - 1) >= i)
    BY <1>4, <1>6
  <1>8. Told(s, types, n) = Told(s, types, n - 1) + (IF s[n].event \in types THEN 1 ELSE 0)
    <2>1. \A m \in 0..l : {j \in 1..m : s[j].event \in types} = G \cap (1..m)
      BY <1>1
    <2> HIDE DEF G
    <2>2. \A m \in 0..l : Told(s, types, m) = Cardinality(G \cap (1..m))
      BY <2>1 DEF Told
    <2>3. Cardinality(G \cap (1..((n - 1) + 1)))
            = Cardinality(G \cap (1..(n - 1))) + (IF (n - 1) + 1 \in G THEN 1 ELSE 0)
      BY <1>6, CountUpTo
    <2>4. n \in G <=> s[n].event \in types
      BY <1>6 DEF G
    <2>5. n \in 0..l /\ n - 1 \in 0..l
      BY <1>1, <1>6
    <2>6. QED
      BY <1>6, <2>2, <2>3, <2>4, <2>5
  <1>9. Told(s, types, n - 1) \in Nat /\ n \in DOMAIN s
    BY <1>1, <1>2, <1>6
  <1>10. s[n].event \in types /\ Told(s, types, n) = i
    BY <1>3, <1>7, <1>8, <1>9
  <1>11. QED
    BY <1>9, <1>10

\* Every hop of the path is the one that some closing event leads to.
LEMMA EveryHop ==
  ASSUME TypeOK, ReplayInv, NEW i \in 1..(Len(path) - 1)
  PROVE  \E c : path[i + 1] = Leads(Nodes, path, i, c)
  <1>1. events \in Seq(EventRecords) /\ Len(path) \in Nat
    BY DEF TypeOK
  <1>2. i \in 1..Told(events, Closes, Len(events)) /\ i < Len(path)
    <2>1. Told(events, Closes, Len(events)) \in {Len(path), Len(path) - 1}
      BY DEF ReplayInv
    <2>2. QED
      BY <1>1, <2>1
  <1>3. PICK n \in DOMAIN events : events[n].event \in Closes /\ Told(events, Closes, n) = i
    BY <1>1, <1>2, ToldReaches
  <1>4. QED
    BY <1>2, <1>3 DEF ReplayInv, Explains

\* Whatever the program, the policy and the tool calls, and wherever the run ends:
\* the path of an executor that runs once can be replayed from its telemetry.
THEOREM RunsReplayFromTelemetry ==
  ASSUME MaxRuns = 1, HandlerStates \subseteq {"DONE", "FAILED", "DENIED"}
  PROVE  Spec => []TelemetryExplainsPath
  <1>1. ASSUME TypeOK, TypeOK', BudgetInv, ReplayInv, [Next]_vars
        PROVE  ReplayInv'
    BY <1>1, ReplayStep
  <1>2. QED
    BY <1>1, ReplayAtFirst, ReplayExplains, TypeCorrect, BudgetIsInvariant, PTL DEF Spec

-----------------------------------------------------------------------------
(* Refinement. *)

\* Every step of a fresh executor is one of the lifecycle of a run, or none.
LEMMA LifecycleStep ==
  ASSUME ~ RetainClosures, MaxRuns = 1, HandlerStates \subseteq {"DONE", "FAILED"},
         TypeOK, BudgetInv, DenialInv, EvidenceInv, TypeOK', [Next]_vars
  PROVE  [Lifecycle!Next]_(Lifecycle!lifecycleVars)
  <1>t. events \in Seq(EventRecords) /\ pc \in {"idle", "top", "execute"}
    BY DEF TypeOK
  <1>p. /\ pc = "idle" => Phase = "idle"
        /\ pc = "top" => Phase = "between"
        /\ pc = "execute" => Phase = IF DeniedInRun THEN "denied" ELSE "running"
        /\ pc' = "idle" => Phase' = "idle"
        /\ pc' = "top" => Phase' = "between"
        /\ pc' = "execute" => Phase' = IF DeniedInRun' THEN "denied" ELSE "running"
    BY <1>t DEF TypeOK, Phase
  <1>o. /\ result' = result => Outcome' = Outcome
        /\ \A e : result' = Raised(e) => Outcome' = "raised"
        /\ \A s, v : result' = Returned(s, v) => Outcome' = s
        /\ result' = NoResult => Outcome' = "none"
    BY DEF Outcome, Raised, Returned, NoResult
  <1>a. /\ Phase # "idle" /\ Phase' = "idle" /\ Outcome' = "raised" => Lifecycle!Next
        /\ Phase' = Phase /\ Outcome' = Outcome => UNCHANGED Lifecycle!lifecycleVars
    BY DEF Lifecycle!Next, Lifecycle!Abort, Lifecycle!lifecycleVars
  <1>1. CASE StartRun
    <2>1. pc = "idle" /\ pc' = "top" /\ result' = NoResult
      BY <1>1 DEF StartRun
    <2>2. QED
      BY <2>1, <1>p, <1>o DEF Lifecycle!Next, Lifecycle!Start
  <1>2. CASE RefuseRun
    <2>1. pc = "idle" /\ pc' = "idle" /\ \E e : result' = Raised(e)
      BY <1>2 DEF RefuseRun
    <2>2. QED
      BY <2>1, <1>p, <1>o DEF Lifecycle!Next, Lifecycle!Refuse
  <1>3. CASE BeginStep
    <2>1. pc = "top" /\ ~ DeniedInRun
      BY <1>3 DEF BeginStep, DenialInv, DenialEndsRun
    <2>2. CASE pc' = "idle"
      <3>1. \E e : result' = Raised(e)
        BY <1>3, <2>2 DEF BeginStep
      <3>2. QED
        BY <2>1, <2>2, <3>1, <1>p, <1>o, <1>a
    <2>3. CASE pc' = "execute"
      <3>1. /\ currentId \in DOMAIN Nodes /\ result' = result
            /\ events' = Append(events, Event("step_started", currentId))
        BY <1>3, <2>3 DEF BeginStep
      <3>2. Event("step_started", currentId) \in EventRecords
        BY <3>1, EventTypes1 DEF EventTypes
      <3>3. ~ DeniedInRun'
        BY <2>1, <3>1, <3>2, <1>t, OneMoreEvent DEF DeniedInRun, Event
      <3>4. QED
        BY <2>1, <2>3, <3>1, <3>3, <1>p, <1>o DEF Lifecycle!Next, Lifecycle!EnterStep
    <2>4. QED
      BY <1>3, <2>2, <2>3 DEF BeginStep
  <1>4. ASSUME NEW sid \in closures, NEW cap \in Requests, RequestTool(sid, cap)
        PROVE  [Lifecycle!Next]_(Lifecycle!lifecycleVars)
    <2>1. pc = "execute" /\ pc' = pc /\ result' = result /\ sid \in DOMAIN Nodes
      BY <1>4 DEF RequestTool, TypeOK
    <2>2. /\ Event("capability_denied", sid) \in EventRecords
          /\ Event("capability_granted", sid) \in EventRecords
      BY <2>1, EventTypes1 DEF EventTypes
    <2>3. \/ events' = Append(events, Event("capability_denied", sid))
          \/ events' = Append(events, Event("capability_granted", sid))
          \/ events' = events
      BY <1>4 DEF RequestTool
    <2>4. DeniedInRun => DeniedInRun'
      BY <2>2, <2>3, <1>t, OneMoreEvent DEF DeniedInRun
    <2>5. Outcome' = Outcome
      BY <2>1, <1>o
    <2>6. CASE DeniedInRun' /\ ~ DeniedInRun
      <3>1. Phase = "running" /\ Phase' = "denied"
        BY <2>1, <2>6, <1>p
      <3>2. QED
        BY <2>5, <3>1 DEF Lifecycle!Next, Lifecycle!Deny
    <2>7. CASE ~ (DeniedInRun' /\ ~ DeniedInRun)
      <3>1. Phase' = Phase
        BY <2>1, <2>4, <2>7, <1>p
      <3>2. QED
        BY <2>5, <3>1, <1>a
    <2>8. QED
      BY <2>6, <2>7
  <1>5. ASSUME NEW r \in HandlerStates, StepReturns(r)
        PROVE  [Lifecycle!Next]_(Lifecycle!lifecycleVars)
    <2>1. pc = "execute"
      BY <1>5 DEF StepReturns
    <2>2. r \in {"DONE", "FAILED"} /\ (DeniedInRun <=> currentViolation # None)
      BY <2>1 DEF DenialInv, EvidenceInv
    <2>3. Effective(r) = IF DeniedInRun THEN "DENIED" ELSE r
      BY <2>2 DEF Effective
    <2>4. CASE Complete(r)
      <3>1. pc' = "idle" /\ \E v : result' = Returned(Effective(r), v)
        BY <2>4 DEF Complete
      <3>2. Phase' = "idle" /\ Outcome' = Effective(r)
        BY <3>1, <1>p, <1>o
      <3>3. CASE DeniedInRun
        BY <2>1, <2>3, <3>2, <3>3, <1>p DEF Lifecycle!Next, Lifecycle!EndDenied
      <3>4. CASE ~ DeniedInRun
        BY <2>1, <2>2, <2>3, <3>2, <3>4, <1>p
           DEF Lifecycle!Next, Lifecycle!Succeed, Lifecycle!Fail
      <3>5. QED
        BY <3>3, <3>4
    <2>5. CASE Advance(r)
      <3>1. ~ DeniedInRun
        BY <2>3, <2>5 DEF Advance
      <3>2. \/ pc' = "top" /\ result' = result
            \/ pc' = "idle" /\ \E e : result' = Raised(e)
        BY <2>5 DEF Advance
      <3>3. CASE pc' = "top" /\ result' = result
        BY <2>1, <3>1, <3>3, <1>p, <1>o DEF Lifecycle!Next, Lifecycle!LeaveStep
      <3>4. CASE pc' = "idle" /\ \E e : result' = Raised(e)
        BY <2>1, <3>1, <3>4, <1>p, <1>o, <1>a
      <3>5. QED
        BY <3>2, <3>3, <3>4
    <2>6. QED
      BY <1>5, <2>4, <2>5 DEF StepReturns
  <1>6. CASE HandlerRaises
    <2>1. pc = "execute" /\ pc' = "idle" /\ \E e : result' = Raised(e)
      BY <1>6 DEF HandlerRaises
    <2>2. QED
      BY <2>1, <1>p, <1>o, <1>a
  <1>7. CASE UNCHANGED <<pc, events, result>>
    <2>1. Phase' = Phase /\ Outcome' = Outcome
      BY <1>7 DEF Phase, Outcome, DeniedInRun
    <2>2. QED
      BY <2>1, <1>a
  <1>8. QED
    BY <1>1, <1>2, <1>3, <1>4, <1>5, <1>6, <1>7 DEF Next, vars, execVars

\* So a fresh executor follows the lifecycle of a run: the safety half of
\* ImplementsLifecycle.
THEOREM ExecutorRefinesLifecycle ==
  ASSUME ~ RetainClosures, MaxRuns = 1, HandlerStates \subseteq {"DONE", "FAILED"}
  PROVE  Spec => Lifecycle!SafetySpec
  <1> DEFINE Inv == TypeOK /\ BudgetInv /\ DenialInv /\ EvidenceInv
  <1>1. Init => Lifecycle!Init
    BY DEF Init, Lifecycle!Init, Phase, Outcome, NoResult
  <1>2. Inv /\ Inv' /\ [Next]_vars => [Lifecycle!Next]_(Lifecycle!lifecycleVars)
    BY LifecycleStep
  <1>3. Spec => []Inv
    <2>1. "DENIED" \notin HandlerStates
      OBVIOUS
    <2>2. (Spec => []DenialInv) /\ (Spec => []EvidenceInv)
      BY <2>1, DenialInvariant, EvidenceInvariant
    <2>3. QED
      BY <2>2, TypeCorrect, BudgetIsInvariant, PTL
  <1>4. QED
    BY <1>1, <1>2, <1>3, PTL DEF Spec, Lifecycle!SafetySpec

-----------------------------------------------------------------------------
(* Where a granted call ends up. *)

\* The steps of the executor are steps of the registry, or leave it alone.
LEMMA RegistryWithinExecutor == Spec => RegSpec
  <1>1. Init => RegInit
    BY DEF Init
  <1>2. [Next]_vars => [RegNext]_regVars
    BY DEF Next, vars, StartRun, RefuseRun, BeginStep, RequestTool, StepReturns, HandlerRaises
  <1>3. QED
    BY <1>1, <1>2, PTL DEF Spec, RegSpec

\* What the handler asks for reaches a provider only for a key that the provider
\* declares at that moment, and the one that registered for it last.
THEOREM ProvidersStayInScope == Spec => ProviderScope
  <1> DEFINE Scoped ==
        LET k == KeyOf(lastCall'.requested)
        IN  \E i \in DOMAIN registrations :
                /\ k \in IndexedKeys(registrations[i].declared)
                /\ Wrappable(registrations[i].provider)
                /\ k \in DeclaredNow(registrations[i].provider)
                /\ \A j \in DOMAIN registrations :
                       j > i => k \notin IndexedKeys(registrations[j].declared)
  <1>1. ASSUME TypeOK, LastRegistrationWins, [Next]_vars,
               calls' > calls, lastCall'.verdict = "invoked"
        PROVE  Scoped
    <2>1. calls \in Nat
      BY <1>1, ExecutorAssumption DEF TypeOK
    <2>2. PICK sid \in closures, cap \in Requests : RequestTool(sid, cap)
      <3>1. ~ (calls' = calls) /\ ~ (calls' = 0)
        BY <1>1, <2>1
      <3>2. QED
        BY <1>1, <3>1 DEF Next, vars, execVars, StartRun, RefuseRun, BeginStep, StepReturns,
                          HandlerRaises
    <2>3. lastCall'.requested = cap /\ Route(cap) = "invoked"
      BY <1>1, <2>2 DEF RequestTool, GateVerdict
    <2> DEFINE k == KeyOf(cap)
    <2>4. k \in DOMAIN index /\ Wrappable(index[k]) /\ k \in DeclaredNow(index[k])
      BY <2>3 DEF Route
    <2>5. PICK i \in DOMAIN registrations :
              /\ k \in IndexedKeys(registrations[i].declared)
              /\ \A j \in DOMAIN registrations :
                     k \in IndexedKeys(registrations[j].declared) => j <= i
              /\ index[k] = registrations[i].provider
      BY <1>1, <2>4 DEF LastRegistrationWins
    <2>6. \A j \in DOMAIN registrations : j \in Nat
      BY <1>1 DEF TypeOK, RegTypeOK
    <2>7. QED
      BY <2>3, <2>4, <2>5, <2>6
  <1>2. TypeOK /\ LastRegistrationWins /\ [Next]_vars
            => [calls' > calls /\ lastCall'.verdict = "invoked" => Scoped]_vars
    BY <1>1
  <1>3. QED
    BY <1>2, TypeCorrect, RegistryWithinExecutor, LastOneServes, PTL DEF Spec, ProviderScope
=============================================================================
