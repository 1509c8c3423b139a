----------------------------- MODULE HostsProofs -----------------------------
(***************************************************************************)
(* Proofs about Hosts, for all programs, registries, databases and answers *)
(* of the model, with processes killed anywhere and nodes called again.    *)
(***************************************************************************)
EXTENDS Hosts, ExecutorProofs

-----------------------------------------------------------------------------
(* The hosts use the executor as it is meant to be used. *)

\* Outside a run the executor is idle, and there is none before the host has built
\* it; the step being executed has its closure.
HostInv ==
    /\ phase \in {"start", "created", "seeded", "running", "over"}
    /\ phase # "running" => pc = "idle"
    /\ phase \in {"start", "created", "seeded"} => runs = 0
    /\ pc = "execute" => currentId \in closures

\* A new executor takes the place of the old one.
Renewed ==
    /\ NewExecutor /\ declares' = declares
    /\ UNCHANGED regVars \/ (index' = <<>> /\ registrations' = <<>>)

\* A handler's call is a call of the executor.
LEMMA CallIsRequest ==
  ASSUME TypeOK, HostInv, pc = "execute", NEW cap \in Requests, RequestTool(currentId, cap)
  PROVE  Next
  <1>1. currentId \in closures
    BY DEF HostInv
  <1>2. QED
    BY <1>1 DEF Next

\* Every step of a host is one of its executor or of its registry, or leaves both
\* alone, or replaces them: in a new process, or when a node is called again.
LEMMA HostStep ==
  ASSUME TypeOK, HostInv, [HostNext]_allVars
  PROVE  [Next]_vars \/ ((Restart \/ CallAgain) /\ Renewed)
  <1>d. "DONE" \in HandlerStates /\ "FAILED" \in HandlerStates
    BY HostsAssumption
  <1>r. \A state \in {"DONE", "FAILED"} : HandlerReturns(state) => Next
    BY <1>d DEF HandlerReturns, Next
  <1>c. \A cap \in Requests : \A args : InHandler /\ CallTool(cap, args) => Next
    BY CallIsRequest DEF CallTool, InHandler
  <1>1. CASE LoadFails \/ CreateTable \/ SeedTable \/ SetUpFails \/ Exit
    BY <1>1 DEF LoadFails, CreateTable, SeedTable, SetUpFails, Exit
  <1>2. CASE Build
    <2>1. pc # "top" /\ UNCHANGED execVars /\ (RegNext \/ UNCHANGED regVars)
      BY <1>2 DEF Build, ReadyToLoad, HostInv, RegNext
    <2>2. QED
      BY <2>1 DEF Next, vars
  <1>3. CASE Drive
    BY <1>3 DEF Drive, Next
  <1>4. CASE SimpleReturns \/ DemoCondition \/ DemoReturns \/ LlmReturns
    BY <1>4, <1>r DEF SimpleReturns, DemoCondition, DemoReturns, LlmReturns
  <1>5. CASE DemoCalls
    <2>1. PICK k \in NextDbCall :
             CallTool(ParseCapability(Node.capabilities_declared[k]),
                      DemoArgs(ParseCapability(Node.capabilities_declared[k]).action))
      BY <1>5 DEF DemoCalls
    <2>2. /\ InHandler /\ currentId \in DOMAIN Nodes /\ config \in Configs
          /\ k \in DOMAIN Node.capabilities_declared /\ IsDbCall(Node.capabilities_declared[k])
      BY <1>5 DEF DemoCalls, InHandler, TypeOK, NextDbCall
    <2>3. ParseCapability(Node.capabilities_declared[k]) \in Requests
      BY <2>2, HostsRequests DEF Node, Nodes
    <2>4. QED
      BY <2>1, <2>2, <2>3, <1>c
  <1>6. ASSUME NEW decision \in Decisions, LlmDecides(decision)
        PROVE  Next
    <2>1. CASE decision.kind = "tool" /\ CallTool(decision.cap, decision.args)
      <3>1. decision.cap \in Requests
        BY <2>1, HostsRequests
      <3>2. QED
        BY <1>6, <2>1, <3>1, <1>c DEF LlmDecides
    <2>2. CASE HandlerRaises
      BY <2>2 DEF Next
    <2>3. CASE HandlerReturns("DONE") \/ HandlerReturns("FAILED")
      BY <2>3, <1>r
    <2>4. QED
      BY <1>6, <2>1, <2>2, <2>3 DEF LlmDecides
  <1>7. CASE Restart \/ CallAgain
    BY <1>7 DEF Restart, CallAgain, Renewed, regVars
  <1>8. CASE UNCHANGED allVars
    BY <1>8 DEF allVars
  <1>9. QED
    BY <1>1, <1>2, <1>3, <1>4, <1>5, <1>6, <1>7, <1>8
       DEF HostNext, Process, SopvmRun, NodeCall, DbDemo, LlmDemo, Executing

\* Every host keeps to it.
LEMMA HostInvStep ==
  ASSUME TypeOK, HostInv, [HostNext]_allVars
  PROVE  HostInv'
  <1>r. \A state : phase = "running" /\ HandlerReturns(state) => HostInv'
    <2>1. SUFFICES ASSUME NEW state, phase = "running", HandlerReturns(state)
                   PROVE  HostInv'
      OBVIOUS
    <2>2. phase' = "running" /\ pc' \in {"top", "idle"}
      BY <2>1 DEF HandlerReturns, StepReturns, Complete, Advance
    <2>3. QED
      BY <2>2 DEF HostInv
  <1>c. \A cap, args : InHandler /\ CallTool(cap, args) => HostInv'
    BY DEF CallTool, RequestTool, InHandler, HostInv
  <1>1. CASE LoadFails \/ SetUpFails
    BY <1>1 DEF LoadFails, SetUpFails, ReadyToLoad, HostInv, vars, execVars
  <1>2. CASE CreateTable
    BY <1>2 DEF CreateTable, HostInv, vars, execVars
  <1>3. CASE SeedTable
    BY <1>3 DEF SeedTable, HostInv, vars, execVars
  <1>4. CASE Build
    BY <1>4 DEF Build, ReadyToLoad, HostInv, execVars
  <1>5. CASE Exit
    BY <1>5 DEF Exit, HostInv, vars, execVars
  <1>6. CASE Drive
    BY <1>6 DEF Drive, StartRun, RefuseRun, BeginStep, HostInv, hostVars
  <1>7. CASE SimpleReturns \/ DemoCondition \/ DemoReturns \/ LlmReturns
    BY <1>7, <1>r DEF SimpleReturns, DemoCondition, DemoReturns, LlmReturns, InHandler
  <1>8. CASE DemoCalls
    BY <1>8, <1>c DEF DemoCalls
  <1>9. ASSUME NEW decision \in Decisions, LlmDecides(decision)
        PROVE  HostInv'
    <2>1. CASE HandlerRaises /\ UNCHANGED hostVars
      BY <1>9, <2>1 DEF LlmDecides, InHandler, HandlerRaises, HostInv, hostVars
    <2>2. QED
      BY <1>9, <2>1, <1>r, <1>c DEF LlmDecides, InHandler
  <1>10. CASE Restart \/ CallAgain
    BY <1>10 DEF Restart, CallAgain, NewExecutor, HostInv
  <1>11. CASE UNCHANGED allVars
    BY <1>11 DEF allVars, vars, execVars, hostVars, HostInv
  <1>12. QED
    BY <1>1, <1>2, <1>3, <1>4, <1>5, <1>6, <1>7, <1>8, <1>9, <1>10, <1>11
       DEF HostNext, Process, SopvmRun, NodeCall, DbDemo, LlmDemo, Executing

\* What an executor keeps to in the hands of these programs, all of it proved for
\* Executor alone except EndInv: a run that has returned has told how it ended, and
\* no other run has told that it ended.
EndInv ==
    /\ runs = 0 => result = NoResult
    /\ result.status # "returned" =>
           \A n \in DOMAIN events : events[n].event # "run_completed"
    /\ result.status = "returned" =>
           /\ runs # 0 /\ pc = "idle" /\ currentId \in DOMAIN Nodes
           /\ Len(events) >= 2 /\ events[Len(events)].event = "run_completed"
           /\ events[Len(events) - 1] = StepEvent(result.state)
           /\ result.state \in {"DONE", "FAILED", "DENIED"}
           /\ result.state = "DENIED" \/ Node.terminal

\* One more event that does not close the run.
LEMMA RunStaysOpen ==
  ASSUME NEW s \in Seq(EventRecords), NEW x \in EventRecords, x.event # "run_completed",
         \A n \in DOMAIN s : s[n].event # "run_completed"
  PROVE  \A n \in DOMAIN Append(s, x) : Append(s, x)[n].event # "run_completed"
  <1> DEFINE t == Append(s, x)
  <1>1. /\ Len(s) \in Nat /\ DOMAIN t = 1..(Len(s) + 1) /\ DOMAIN s = 1..Len(s)
        /\ \A n \in 1..Len(s) : t[n] = s[n]
        /\ t[Len(s) + 1] = x
    BY Appended
  <1> HIDE DEF t
  <1>2. \A n \in 1..(Len(s) + 1) : n \in 1..Len(s) \/ n = Len(s) + 1
    BY <1>1
  <1>3. \A n \in DOMAIN t : t[n].event # "run_completed"
    BY <1>1, <1>2
  <1>4. QED
    BY <1>3 DEF t

\* Every step of the executor keeps to EndInv.
LEMMA EndStep ==
  ASSUME MaxRuns = 1, ~ RetainClosures, HandlerStates = {"DONE", "FAILED"},
         TypeOK, BudgetInv, ReplayInv, EndInv, [Next]_vars
  PROVE  EndInv'
  <1>t. /\ events \in Seq(EventRecords) /\ runs \in 0..1
        /\ pc # "idle" => result = NoResult /\ runs # 0
    BY DEF TypeOK, BudgetInv, ReplayInv
  <1>n. /\ NoResult.status = "none"
        /\ \A e : Raised(e).status = "raised"
        /\ \A s, v : Returned(s, v).status = "returned" /\ Returned(s, v).state = s
    BY DEF NoResult, Raised, Returned
  <1>e. \A n \in DOMAIN events : result.status # "returned" => events[n].event # "run_completed"
    BY DEF EndInv
  <1>s. UNCHANGED <<config, pc, runs, currentId, events, result>> => EndInv'
    BY DEF EndInv, Node, Nodes, StepEvent
  <1>1. CASE StartRun
    <2> DEFINE x == Event("run_started", "")
    <2>1. /\ result' = NoResult /\ events' = <<x>>
      BY <1>1 DEF StartRun
    <2>2. x.event # "run_completed"
      BY DEF Event
    <2> HIDE DEF x
    <2>3. DOMAIN events' = {1} /\ events'[1] = x
      BY <2>1
    <2>4. QED
      BY <2>1, <2>2, <2>3, <1>n DEF EndInv
  <1>2. CASE RefuseRun
    <2>1. /\ runs < 1 /\ runs' = runs + 1 /\ events' = events /\ \E e : result' = Raised(e)
      BY <1>2 DEF RefuseRun
    <2>2. runs = 0 /\ runs' # 0
      BY <2>1, <1>t
    <2>3. result = NoResult
      BY <2>2 DEF EndInv
    <2>4. QED
      BY <2>1, <2>2, <2>3, <1>n, <1>e DEF EndInv
  <1>3. CASE BeginStep
    <2>1. /\ pc = "top" /\ runs' = runs /\ result = NoResult /\ runs # 0
          /\ result' = result \/ \E e : result' = Raised(e)
          /\ \/ events' = events
             \/ currentId \in DOMAIN Nodes /\ events' = Append(events, Event("step_started", currentId))
      BY <1>3, <1>t DEF BeginStep
    <2>2. \A n \in DOMAIN events' : events'[n].event # "run_completed"
      <3>1. CASE events' = events
        BY <2>1, <3>1, <1>n, <1>e
      <3>2. CASE /\ currentId \in DOMAIN Nodes
                 /\ events' = Append(events, Event("step_started", currentId))
        <4>1. /\ Event("step_started", currentId) \in EventRecords
              /\ Event("step_started", currentId).event # "run_completed"
          <5>1. Event("step_started", currentId) \in EventRecords
            BY <3>2, EventTypes1 DEF EventTypes
          <5>2. QED
            BY <5>1 DEF Event
        <4>2. PICK x \in EventRecords : events' = Append(events, x) /\ x.event # "run_completed"
          BY <3>2, <4>1
        <4>3. QED
          BY <2>1, <4>2, <1>t, <1>n, <1>e, RunStaysOpen
      <3>3. QED
        BY <2>1, <3>1, <3>2
    <2>3. QED
      BY <2>1, <2>2, <1>n DEF EndInv
  <1>4. ASSUME NEW sid \in closures, NEW cap \in Requests, RequestTool(sid, cap)
        PROVE  EndInv'
    <2>1. /\ pc = "execute" /\ runs' = runs /\ result' = result /\ result = NoResult /\ runs # 0
          /\ \/ events' = events
             \/ events' = Append(events, Event("capability_denied", sid))
             \/ events' = Append(events, Event("capability_granted", sid))
      BY <1>4, <1>t DEF RequestTool
    <2>2. sid \in DOMAIN Nodes
      BY DEF TypeOK
    <2>3. /\ Event("capability_denied", sid) \in EventRecords
          /\ Event("capability_granted", sid) \in EventRecords
      BY <2>2, EventTypes1 DEF EventTypes
    <2>4. /\ Event("capability_denied", sid).event # "run_completed"
          /\ Event("capability_granted", sid).event # "run_completed"
      BY DEF Event
    <2>5. events' = events \/ \E x \in EventRecords : events' = Append(events, x) /\ x.event # "run_completed"
      BY <2>1, <2>3, <2>4
    <2>6. \A n \in DOMAIN events' : events'[n].event # "run_completed"
      BY <2>1, <2>5, <1>t, <1>n, <1>e, RunStaysOpen
    <2>7. QED
      BY <2>1, <2>6, <1>n DEF EndInv
  <1>5. ASSUME NEW r \in HandlerStates, StepReturns(r)
        PROVE  EndInv'
    <2> DEFINE x == StepEvent(Effective(r))
               y == Event("run_completed", "")
    <2>1. /\ pc = "execute" /\ runs' = runs /\ config' = config /\ result = NoResult /\ runs # 0
          /\ currentId \in DOMAIN Nodes /\ Effective(r) \in {"DONE", "FAILED", "DENIED"}
      BY <1>5, <1>t DEF StepReturns, TypeOK, Effective
    <2>2. x \in EventRecords /\ x.event # "run_completed"
      <3>1. x \in EventRecords
        BY <2>1, EventTypes1 DEF StepEvent, EventTypes
      <3>2. x.event # "run_completed"
        BY DEF StepEvent, Event
      <3>3. QED
        BY <3>1, <3>2
    <2>3. y \in EventRecords /\ y.event = "run_completed"
      <3>1. y \in EventRecords
        BY EventTypes1 DEF EventTypes
      <3>2. QED
        BY <3>1 DEF Event
    <2>4. CASE Complete(r)
      <3>1. /\ currentId' = currentId /\ pc' = "idle" /\ events' = Append(Append(events, x), y)
            /\ \E v : result' = Returned(Effective(r), v)
            /\ Effective(r) = "DENIED" \/ Node.terminal
        BY <2>4 DEF Complete
      <3>2. result'.status = "returned" /\ result'.state = Effective(r)
        <4>1. PICK v : result' = Returned(Effective(r), v)
          BY <3>1
        <4>2. QED
          BY <4>1 DEF Returned
      <3>3. Node' = Node /\ Nodes' = Nodes /\ StepEvent(result.state)' = x
        BY <2>1, <3>1, <3>2 DEF Node, Nodes, StepEvent
      <3> HIDE DEF x, y
      <3>4. /\ Append(events, x) \in Seq(EventRecords) /\ Len(events) \in Nat
            /\ Len(Append(events, x)) = Len(events) + 1 /\ Append(events, x)[Len(events) + 1] = x
        BY <2>2, <1>t, Appended
      <3>5. /\ Len(events') = (Len(events) + 1) + 1
            /\ events'[(Len(events) + 1) + 1] = y
            /\ \A j \in 1..(Len(events) + 1) : events'[j] = Append(events, x)[j]
        <4> DEFINE t == Append(events, x)
        <4>1. /\ Len(Append(t, y)) = Len(t) + 1
              /\ \A j \in 1..Len(t) : Append(t, y)[j] = t[j]
              /\ Append(t, y)[Len(t) + 1] = y
          BY <2>3, <3>4, Appended
        <4> HIDE DEF t
        <4>2. Len(t) = Len(events) + 1
          BY <3>4 DEF t
        <4>3. events' = Append(t, y)
          BY <3>1 DEF t
        <4>4. QED
          BY <4>1, <4>2, <4>3 DEF t
      <3>6. Len(events') - 1 = Len(events) + 1 /\ Len(events) + 1 \in 1..(Len(events) + 1)
        BY <3>4, <3>5
      <3>7. events'[Len(events') - 1] = x /\ events'[Len(events')] = y /\ Len(events') >= 2
        BY <3>4, <3>5, <3>6
      <3>8. QED
        BY <2>1, <2>3, <3>1, <3>2, <3>3, <3>7 DEF EndInv
    <2>5. CASE Advance(r)
      <3>1. /\ events' = Append(events, x)
            /\ result' = result \/ \E e : result' = Raised(e)
        BY <2>5 DEF Advance
      <3> HIDE DEF x
      <3>2. \A n \in DOMAIN events' : events'[n].event # "run_completed"
        BY <2>1, <2>2, <3>1, <1>t, <1>n, <1>e, RunStaysOpen
      <3>3. QED
        BY <2>1, <3>1, <3>2, <1>n DEF EndInv
    <2>6. QED
      BY <1>5, <2>4, <2>5 DEF StepReturns
  <1>6. CASE HandlerRaises
    <2>1. /\ pc = "execute" /\ runs' = runs /\ events' = events /\ \E e : result' = Raised(e)
      BY <1>6 DEF HandlerRaises
    <2>2. QED
      BY <2>1, <1>t, <1>n, <1>e DEF EndInv
  <1>7. CASE RegNext /\ UNCHANGED execVars
    BY <1>7, <1>s DEF execVars
  <1>8. CASE UNCHANGED vars
    BY <1>8, <1>s DEF vars, execVars
  <1>9. QED
    BY <1>1, <1>2, <1>3, <1>4, <1>5, <1>6, <1>7, <1>8 DEF Next

\* All of it together.
HostCore ==
    TypeOK /\ BudgetInv /\ ReplayInv /\ DenialInv /\ EvidenceInv /\ EndInv /\ HostInv

\* Where an executor is new, all of it holds but the host's own part.
NoRun ==
    /\ config \in Configs /\ RegTypeOK
    /\ loopCounts = [n \in DOMAIN Nodes |-> 0] /\ currentViolation = None
    /\ pc = "idle" /\ runs = 0 /\ path = <<>> /\ stepCount = 0
    /\ events = <<>> /\ result = NoResult
    /\ closures = {} /\ lastCall = NoCall /\ calls = 0

\* A new Executor has no run, so everything about runs holds of it.
LEMMA NewHasNoRun ==
  NoRun => TypeOK /\ BudgetInv /\ ReplayInv /\ DenialInv /\ EvidenceInv /\ EndInv
  <1> SUFFICES ASSUME NoRun
               PROVE  TypeOK /\ BudgetInv /\ ReplayInv /\ DenialInv /\ EvidenceInv /\ EndInv
    OBVIOUS
  <1> USE DEF NoRun
  <1>1. MaxSteps \in Nat /\ 0 \in 0..MaxRuns /\ 0 \in 0..MaxCalls
    BY ExecutorAssumption
  <1>2. TypeOK
    <2>1. /\ events \in Seq(EventRecords) /\ path \in Seq(DOMAIN Nodes)
          /\ loopCounts \in [DOMAIN Nodes -> Nat] /\ stepCount \in Nat
          /\ closures \subseteq DOMAIN Nodes
      OBVIOUS
    <2>2. result.status = "none"
      BY DEF NoResult
    <2>3. QED
      BY <1>1, <2>1, <2>2 DEF TypeOK
  <1>3. BudgetInv
    BY <1>1, RaisedDiffer DEF BudgetInv, StepBudget
  <1>4. ReplayInv
    <2>1. /\ Told(events, Starts, Len(events)) = 0 /\ Told(events, Closes, Len(events)) = 0
          /\ Explains(Nodes, events, <<>>)
      BY ReplayInit
    <2>2. Len(<<>>) = 0 /\ ~ (0 > MaxSteps)
      BY <1>1
    <2>3. QED
      BY <2>1, <2>2 DEF ReplayInv
  <1>5. DenialInv
    BY DEF DenialInv, DenialEndsRun, DeniedInRun, HasDenial, StopsAtDenial, NoResult
  <1>6. EvidenceInv
    BY DEF EvidenceInv, DeniedHasEvidence, NoResult
  <1>7. EndInv
    BY DEF EndInv, NoResult
  <1>8. QED
    BY <1>2, <1>3, <1>4, <1>5, <1>6, <1>7

\* It holds when the first process starts.
LEMMA HostCoreInit == HostInit => HostCore
  <1> SUFFICES ASSUME HostInit PROVE HostCore
    OBVIOUS
  <1>1. Init /\ phase = "start"
    BY DEF HostInit
  <1>2. RegTypeOK
    BY <1>1, RegTypeInit DEF Init
  <1>3. TypeOK /\ BudgetInv /\ ReplayInv /\ DenialInv /\ EvidenceInv /\ EndInv
    BY <1>1, <1>2, NewHasNoRun DEF Init, NoRun
  <1>4. HostInv
    BY <1>1 DEF HostInv, Init
  <1>5. QED
    BY <1>3, <1>4 DEF HostCore

\* A new executor starts from it again, on whatever registry.
LEMMA RenewedCore ==
  ASSUME TypeOK, Renewed
  PROVE  (TypeOK /\ BudgetInv /\ ReplayInv /\ DenialInv /\ EvidenceInv /\ EndInv)'
  <1>1. /\ config \in Configs /\ config' = config /\ Nodes' = Nodes /\ RegTypeOK
        /\ loopCounts' = [n \in DOMAIN Nodes |-> 0]
    BY DEF TypeOK, Renewed, NewExecutor, Nodes
  <1>2. RegTypeOK'
    <2>1. CASE UNCHANGED regVars
      BY <1>1, <2>1, RegTypeStutter
    <2>2. CASE index' = <<>> /\ registrations' = <<>>
      <3>1. declares' = declares
        BY DEF Renewed
      <3>2. registrations' \in Seq([provider : Providers, declared : Declarations])
        BY <2>2
      <3>3. DOMAIN index' = {}
        BY <2>2
      <3>4. QED
        BY <1>1, <2>2, <3>1, <3>2, <3>3 DEF RegTypeOK
    <2>3. QED
      BY <2>1, <2>2 DEF Renewed
  <1>3. NoRun'
    BY <1>1, <1>2 DEF Renewed, NewExecutor, NoRun
  <1>4. QED
    BY <1>3, NewHasNoRun, PTL

\* And every step of a host keeps to it.
LEMMA HostCoreStep ==
  ASSUME HostCore, [HostNext]_allVars
  PROVE  HostCore'
  <1>h. MaxRuns = 1 /\ ~ RetainClosures /\ HandlerStates = {"DONE", "FAILED"}
    BY HostsAssumption
  <1>1. HostInv'
    BY HostInvStep DEF HostCore
  <1>2. CASE [Next]_vars
    <2>1. TypeOK'
      BY <1>2, TypeStep DEF HostCore
    <2>2. BudgetInv' /\ DenialInv'
      BY <1>h, <1>2, BudgetStep, DenialStep DEF HostCore
    <2>3. EvidenceInv'
      <3>1. "DENIED" \notin HandlerStates
        BY <1>h
      <3>2. QED
        BY <1>h, <1>2, <3>1, EvidenceStep DEF HostCore
    <2>4. ReplayInv'
      <3>1. HandlerStates \subseteq {"DONE", "FAILED", "DENIED"}
        BY <1>h
      <3>2. QED
        BY <1>h, <1>2, <2>1, <3>1, ReplayStep DEF HostCore
    <2>5. EndInv'
      BY <1>h, <1>2, EndStep DEF HostCore
    <2>6. QED
      BY <1>1, <2>1, <2>2, <2>3, <2>4, <2>5 DEF HostCore
  <1>3. CASE Renewed
    BY <1>1, <1>3, RenewedCore DEF HostCore
  <1>4. QED
    BY <1>2, <1>3, HostStep DEF HostCore

\* What is proved of an executor that runs once holds in these programs too,
\* however often they are killed, started and called again.
THEOREM HostsKeepTheContract ==
  HostSpec => [](TypeOK /\ StepBudget /\ TelemetryExplainsPath /\ DenialEndsRun /\ DeniedHasEvidence)
  <1>1. HostCore => TypeOK /\ StepBudget /\ TelemetryExplainsPath /\ DenialEndsRun /\ DeniedHasEvidence
    BY ReplayExplains DEF HostCore, BudgetInv, DenialInv, EvidenceInv
  <1>2. HostCore /\ [HostNext]_allVars => HostCore'
    BY HostCoreStep
  <1>3. QED
    BY <1>1, <1>2, HostCoreInit, PTL DEF HostSpec

\* Between one executor and the next, what these programs do is the lifecycle of a
\* run, step by step; only a new process or a new call of the node takes it back to
\* its beginning, in the middle of a run when the process has been killed.
THEOREM HostsFollowTheLifecycle ==
  HostSpec => /\ Lifecycle!Init
              /\ [][\/ Lifecycle!Next
                    \/ (Restart \/ CallAgain) /\ Phase' = "idle" /\ Outcome' = "none"
                   ]_(Lifecycle!lifecycleVars)
  <1>h. MaxRuns = 1 /\ ~ RetainClosures /\ HandlerStates = {"DONE", "FAILED"}
    BY HostsAssumption
  <1>1. HostInit => Lifecycle!Init
    BY DEF HostInit, Init, Lifecycle!Init, Phase, Outcome, NoResult
  <1>2. ASSUME HostCore, HostCore', [HostNext]_allVars
        PROVE  [\/ Lifecycle!Next
                \/ (Restart \/ CallAgain) /\ Phase' = "idle" /\ Outcome' = "none"
               ]_(Lifecycle!lifecycleVars)
    <2>1. CASE [Next]_vars
      <3>1. HandlerStates \subseteq {"DONE", "FAILED"}
        BY <1>h
      <3>2. [Lifecycle!Next]_(Lifecycle!lifecycleVars)
        BY <1>2, <1>h, <2>1, <3>1, LifecycleStep DEF HostCore
      <3>3. QED
        BY <3>2
    <2>2. CASE (Restart \/ CallAgain) /\ Renewed
      <3>1. pc' = "idle" /\ result' = NoResult
        BY <2>2 DEF Renewed, NewExecutor
      <3>2. Phase' = "idle" /\ Outcome' = "none"
        BY <3>1 DEF Phase, Outcome, NoResult
      <3>3. QED
        BY <2>2, <3>2
    <2>3. QED
      BY <1>2, <2>1, <2>2, HostStep DEF HostCore
  <1>3. HostCore /\ [HostNext]_allVars => HostCore'
    BY HostCoreStep
  <1>4. QED
    BY <1>1, <1>2, <1>3, HostCoreInit, PTL DEF HostSpec

\* None of these programs gives its executor a policy; still, whatever policy the
\* program was compiled or checked with bounds every call that is granted in them,
\* to handlers and models alike, through kills and new calls.
THEOREM HostsStayWithinTheCheck ==
  ASSUME NEW policy, \A t \in policy : FlatToken(t)
  PROVE  HostSpec => []GrantsWithin(policy)
  <1>1. HostInit => GrantsWithin(policy)
    BY DEF HostInit, Init, GrantsWithin, NoCall, GrantedVerdicts, Verdicts
  <1>2. ASSUME HostCore, GrantsWithin(policy), [HostNext]_allVars
        PROVE  GrantsWithin(policy)'
    <2>1. CASE [Next]_vars
      BY <1>2, <2>1, GrantsWithinStep DEF HostCore
    <2>2. CASE Renewed
      BY <2>2 DEF Renewed, NewExecutor, GrantsWithin, NoCall, GrantedVerdicts, Verdicts
    <2>3. QED
      BY <1>2, <2>1, <2>2, HostStep DEF HostCore
  <1>3. HostCore /\ [HostNext]_allVars => HostCore'
    BY HostCoreStep
  <1>4. HostCore /\ GrantsWithin(policy) /\ [HostNext]_allVars => GrantsWithin(policy)'
    BY <1>2
  <1>5. QED
    BY <1>1, <1>3, <1>4, HostCoreInit, PTL DEF HostSpec

\* In every run of these programs, a step with a loop is left by on_limit only after
\* it has been visited max_iterations times in that run: no host keeps an executor
\* for a second run.
THEOREM HostsLoopInFull == HostSpec => []LimitOnlyAfterIterations
  <1>1. ASSUME HostCore
        PROVE  LimitOnlyAfterIterations
    <2>1. SUFFICES ASSUME NEW i \in 1..(Len(path) - 1), Nodes[path[i]].loop # None,
                          path[i + 1] = Nodes[path[i]].on_limit,
                          \A edge \in DOMAIN Nodes[path[i]].edges :
                              Nodes[path[i]].edges[edge] # Nodes[path[i]].on_limit
                   PROVE  Visits(i) >= Nodes[path[i]].loop.value
      BY DEF LimitOnlyAfterIterations
    <2>2. PICK c : path[i + 1] = Leads(Nodes, path, i, c)
      BY <1>1, EveryHop DEF HostCore
    <2>3. path[i + 1] # None
      <3>1. path \in Seq(DOMAIN Nodes) /\ config \in Configs
        BY <1>1 DEF HostCore, TypeOK
      <3>2. path[i + 1] \in DOMAIN Nodes
        BY <3>1
      <3>3. QED
        BY <3>1, <3>2, ExecutorAssumption DEF Nodes
    <2>4. VisitsOf(path, path[i], i) >= Nodes[path[i]].loop.value
      BY <2>1, <2>2, <2>3 DEF Leads
    <2>5. VisitsOf(path, path[i], i) = Visits(i)
      BY DEF Visits, VisitsOf
    <2>6. QED
      BY <2>4, <2>5
  <1>2. HostCore /\ [HostNext]_allVars => HostCore'
    BY HostCoreStep
  <1>3. QED
    BY <1>1, <1>2, HostCoreInit, PTL DEF HostSpec

-----------------------------------------------------------------------------
(* What the exit code tells. *)

\* There is an exit code only after the end of a run or a failed set-up, and it
\* still tells how that came out.
ExitInv ==
    exit # None =>
        /\ phase = "over"
        /\ exit = 0 => Returns("DONE")
        /\ Returns("DONE") => exit = 0 \/ (config.host = "db_demo" /\ exit = 1)
        /\ exit = 2 => events = <<>>

\* No action of a host breaks what its exit code says.
LEMMA ExitStep ==
  ASSUME HostCore, ExitInv, [HostNext]_allVars
  PROVE  ExitInv'
  <1>r. \A state : phase = "running" /\ HandlerReturns(state) => phase = "running" /\ exit' = exit
    BY DEF HandlerReturns
  <1>c. \A cap, args : InHandler /\ CallTool(cap, args) => phase = "running" /\ exit' = exit
    BY DEF CallTool, InHandler
  <1>1. \/ LoadFails \/ SetUpFails
        \/ Exit
        \/ exit' = None
        \/ phase # "over" /\ exit' = exit
        \/ UNCHANGED <<exit, phase, events, result, config>>
    <2>1. CASE CreateTable \/ SeedTable \/ Build \/ Drive
      BY <2>1 DEF CreateTable, SeedTable, Build, ReadyToLoad, Drive, hostVars
    <2>2. CASE SimpleReturns \/ DemoCondition \/ DemoReturns \/ LlmReturns
      BY <2>2, <1>r DEF SimpleReturns, DemoCondition, DemoReturns, LlmReturns, InHandler
    <2>3. CASE DemoCalls
      BY <2>3, <1>c DEF DemoCalls
    <2>4. ASSUME NEW decision \in Decisions, LlmDecides(decision)
          PROVE  phase # "over" /\ exit' = exit
      BY <2>4, <1>r, <1>c DEF LlmDecides, InHandler, hostVars
    <2>5. CASE Restart \/ CallAgain
      BY <2>5 DEF Restart, CallAgain
    <2>6. CASE UNCHANGED allVars
      BY <2>6 DEF allVars, vars, execVars, hostVars
    <2>7. QED
      BY <2>1, <2>2, <2>3, <2>4, <2>5, <2>6
         DEF HostNext, Process, SopvmRun, NodeCall, DbDemo, LlmDemo, Executing
  <1>2. CASE LoadFails \/ SetUpFails
    <2>1. runs = 0 /\ UNCHANGED <<events, result>> /\ phase' = "over" /\ exit' \in {1, 2}
      BY <1>2 DEF LoadFails, SetUpFails, ReadyToLoad, HostCore, HostInv, vars, execVars
    <2>2. events = <<>> /\ result = NoResult
      BY <2>1 DEF HostCore, ReplayInv, EndInv
    <2>3. ~ Returns("DONE")' /\ ~ (exit' = 0)
      BY <2>1, <2>2 DEF Returns, NoResult
    <2>4. QED
      BY <2>1, <2>2, <2>3 DEF ExitInv
  <1>3. CASE Exit
    BY <1>3 DEF Exit, ExitInv, Returns, vars, execVars
  <1>4. CASE exit' = None
    BY <1>4 DEF ExitInv
  <1>5. CASE phase # "over" /\ exit' = exit
    BY <1>5 DEF ExitInv
  <1>6. CASE UNCHANGED <<exit, phase, events, result, config>>
    BY <1>6 DEF ExitInv, Returns
  <1>7. QED
    BY <1>1, <1>2, <1>3, <1>4, <1>5, <1>6

\* A run returns DONE exactly if its telemetry ends with the completion of a terminal
\* step and of the run, and has no denial.
LEMMA DoneIsTold ==
  ASSUME HostCore
  PROVE  Returns("DONE") <=> ClosedWell
  <1>e. \A state : /\ StepEvent(state).step_id = currentId
                   /\ StepEvent(state).event
                        = IF state = "FAILED" THEN "step_failed" ELSE "step_completed"
    BY DEF StepEvent, Event
  <1>1. ASSUME Returns("DONE")
        PROVE  ClosedWell
    <2>1. /\ Len(events) >= 2 /\ events[Len(events)].event = "run_completed"
          /\ events[Len(events) - 1] = StepEvent("DONE") /\ Node.terminal
      BY <1>1 DEF Returns, HostCore, EndInv
    <2>2. ~ DeniedInRun
      BY <1>1 DEF Returns, HostCore, DenialInv, DenialEndsRun
    <2>3. QED
      BY <2>1, <2>2, <1>e DEF Node, ClosedWell
  <1>2. ASSUME ClosedWell
        PROVE  Returns("DONE")
    <2>0. /\ Len(events) >= 2 /\ events[Len(events)].event = "run_completed"
          /\ events[Len(events) - 1].event = "step_completed" /\ ~ DeniedInRun
      BY <1>2 DEF ClosedWell
    <2>1. Len(events) \in DOMAIN events
      <3>1. events \in Seq(EventRecords)
        BY DEF HostCore, TypeOK
      <3>2. Len(events) \in Nat /\ DOMAIN events = 1..Len(events)
        BY <3>1
      <3>3. QED
        BY <2>0, <3>2
    <2>2. result.status = "returned"
      BY <2>0, <2>1 DEF HostCore, EndInv
    <2>3. /\ result.state \in {"DONE", "FAILED", "DENIED"}
          /\ events[Len(events) - 1] = StepEvent(result.state)
      BY <2>2 DEF HostCore, EndInv
    <2>4. result.state # "FAILED"
      BY <2>0, <2>3, <1>e
    <2>5. result.state # "DENIED"
      BY <2>0, <2>2 DEF HostCore, EvidenceInv, DeniedHasEvidence
    <2>6. QED
      BY <2>2, <2>3, <2>4, <2>5 DEF Returns
  <1>3. QED
    BY <1>1, <1>2

\* Whatever is killed, refused, denied or raised: the exit code and the telemetry
\* of these programs agree, but for a demo that could not print its table.
THEOREM ExitCodesTellTheRun == HostSpec => []ExitTellsTheRun
  <1>1. HostInit => HostCore /\ ExitInv
    <2>1. HostInit => ExitInv
      BY DEF HostInit, ExitInv
    <2>2. QED
      BY <2>1, HostCoreInit
  <1>2. HostCore /\ ExitInv /\ [HostNext]_allVars => HostCore' /\ ExitInv'
    BY HostCoreStep, ExitStep
  <1>3. HostCore /\ ExitInv => ExitTellsTheRun
    BY DoneIsTold DEF ExitInv, ExitTellsTheRun
  <1>4. QED
    BY <1>1, <1>2, <1>3, PTL DEF HostSpec

-----------------------------------------------------------------------------
(* What a call of the provider may do to the database. *)

\* SqliteProvider declares db:read and db:write, of one table.
LEMMA DeclaredKeys ==
  /\ \A i \in DOMAIN DeclaredCapabilities :
         KeyOf(ParseCapability(DeclaredCapabilities[i])) \in {<<"db", "read">>, <<"db", "write">>}
  /\ AllowedTables = {"orders"}
  <1>1. /\ DOMAIN DeclaredCapabilities = {1, 2}
        /\ DeclaredCapabilities[1] = OnOrders("read") /\ DeclaredCapabilities[2] = OnOrders("write")
    BY DEF DeclaredCapabilities
  <1>2. \A action : /\ KeyOf(ParseCapability(OnOrders(action))) = <<"db", action>>
                    /\ OnOrders(action).parts[1].key = "orders"
    <2>1. \A action : /\ OnOrders(action).wellformed /\ OnOrders(action).namespace = "db"
                      /\ OnOrders(action).action = action
                      /\ DOMAIN OnOrders(action).parts = {1}
                      /\ OnOrders(action).parts[1].form = "bare"
                      /\ OnOrders(action).parts[1].key = "orders"
      <3>1. \A x : DOMAIN <<x>> = {1} /\ <<x>>[1] = x
        OBVIOUS
      <3> DEFINE part == [form |-> "bare", key |-> "orders", value |-> Str("")]
      <3>2. part.form = "bare" /\ part.key = "orders"
        OBVIOUS
      <3> HIDE DEF part
      <3>3. \A action : OnOrders(action) = [wellformed |-> TRUE, namespace |-> "db",
                                            action |-> action, parts |-> <<part>>]
        BY DEF OnOrders, part
      <3>4. \A action : /\ OnOrders(action).wellformed /\ OnOrders(action).namespace = "db"
                        /\ OnOrders(action).action = action /\ OnOrders(action).parts = <<part>>
        BY <3>3
      <3>5. QED
        BY <3>1, <3>2, <3>4
    <2>2. \A action : Grammatical(OnOrders(action))
      BY <2>1 DEF Grammatical
    <2>3. QED
      BY <2>1, <2>2 DEF ParseCapability, KeyOf
  <1>3. \A i \in DOMAIN DeclaredCapabilities :
           i \in {1, 2} /\ DeclaredCapabilities[i].parts[1].key = "orders"
    BY <1>1, <1>2
  <1>4. QED
    BY <1>1, <1>2, <1>3 DEF AllowedTables

\* A call that changes the database inserts into the one table, or updates it.
LEMMA OnlyWritesChange ==
  ASSUME NEW d, NEW cap, NEW args, NEW outcome \in Invoke(d, cap, args), outcome.db # d
  PROVE  cap.action = "write" /\ \A t \in DOMAIN d : t # "orders" => outcome.db[t] = d[t]
  <1>1. Failure(d).db = d /\ \A x : Success(x).db = x
    BY DEF Failure, Success
  <1>2. PICK table : outcome.db \in Perform(d, cap, table, args)
    BY <1>1 DEF Invoke
  <1>3. \A e \in DoRead(d, args) : e = d
    BY DEF DoRead
  <1>4. /\ table = "orders" /\ cap.action = "write"
        /\ outcome.db \in DoWrite(d, "orders", args)
    BY <1>2, <1>3, DeclaredKeys DEF Perform
  <1>5. \A e \in DoWrite(d, "orders", args) : \A t \in DOMAIN d : t # "orders" => e[t] = d[t]
    BY DEF DoWrite
  <1>6. QED
    BY <1>4, <1>5

\* A call of a handler that changes the database was granted by a paged capability
\* of its step, is a db:write, and changes one table only.
LEMMA CallsChangeWhatIsGranted ==
  ASSUME TypeOK, InHandler, NEW cap, NEW args, CallTool(cap, args), db' # db
  PROVE  /\ calls' = calls + 1 /\ pc = "execute"
         /\ KeyOf(lastCall'.requested) = <<"db", "write">>
         /\ \E k \in DOMAIN Node.capabilities_paged :
                Satisfies(lastCall'.requested, ParseCapability(Node.capabilities_paged[k]))
         /\ \A t \in DOMAIN db : t # "orders" => db'[t] = db[t]
  <1>1. /\ pc = "execute" /\ RequestTool(currentId, cap) /\ lastCall'.verdict = "invoked"
        /\ \E outcome \in Invoke(db, cap, args) : db' = outcome.db
    BY DEF InHandler, CallTool
  <1>2. calls' = calls + 1 /\ lastCall'.requested = cap
    BY <1>1 DEF RequestTool
  <1>3. GateVerdict(cap, Node) = "granted" /\ Route(cap) = "invoked"
    BY <1>1 DEF RequestTool, GateVerdict, Node
  <1>4. \E k \in DOMAIN Node.capabilities_paged :
           Satisfies(cap, ParseCapability(Node.capabilities_paged[k]))
    BY <1>3, GateGrants
  <1>5. cap.action = "write" /\ \A t \in DOMAIN db : t # "orders" => db'[t] = db[t]
    <2>1. PICK outcome \in Invoke(db, cap, args) : db' = outcome.db
      BY <1>1
    <2>2. outcome.db # db
      BY <2>1
    <2>3. cap.action = "write" /\ \A t \in DOMAIN db : t # "orders" => outcome.db[t] = db[t]
      BY <2>2, OnlyWritesChange
    <2>4. QED
      BY <2>1, <2>3
  <1>6. KeyOf(cap) \in {<<"db", "read">>, <<"db", "write">>}
    <2>1. KeyOf(cap) \in DOMAIN index /\ KeyOf(cap) \in DeclaredNow(index[KeyOf(cap)])
      BY <1>3 DEF Route
    <2>2. declares[index[KeyOf(cap)]] = DeclaredCapabilities
      BY <2>1, HostsAssumption DEF TypeOK, RegTypeOK
    <2>3. QED
      BY <2>1, <2>2, DeclaredKeys DEF DeclaredNow
  <1>7. KeyOf(cap) = <<"db", "write">>
    BY <1>5, <1>6 DEF KeyOf
  <1>8. QED
    BY <1>1, <1>2, <1>4, <1>5, <1>7

\* Whatever tool, table and arguments the handler, or the model behind it, asks for:
\* outside the set-up the database changes only as the step it is in allows.
THEOREM ChangesStayGranted == HostSpec => ChangesAreGranted
  <1> DEFINE Granted ==
          /\ calls' = calls + 1 /\ pc = "execute"
          /\ KeyOf(lastCall'.requested) = <<"db", "write">>
          /\ \E k \in DOMAIN Node.capabilities_paged :
                 Satisfies(lastCall'.requested, ParseCapability(Node.capabilities_paged[k]))
          /\ \A t \in DOMAIN db : t # "orders" => db'[t] = db[t]
  <1>1. ASSUME HostCore, [HostNext]_allVars, db' # db, phase = "running"
        PROVE  Granted
    <2>1. \E cap, args : InHandler /\ CallTool(cap, args)
      <3>1. \A state : ~ HandlerReturns(state)
        BY <1>1 DEF HandlerReturns
      <3>2. ~ (Executing \/ CreateTable \/ SeedTable \/ SetUpFails \/ Restart \/ CallAgain)
        BY <1>1 DEF Executing, LoadFails, Build, Drive, Exit, CreateTable, SeedTable, SetUpFails,
                    Restart, CallAgain, hostVars
      <3>3. ~ (SimpleReturns \/ DemoCondition \/ DemoReturns \/ LlmReturns)
        BY <3>1 DEF SimpleReturns, DemoCondition, DemoReturns, LlmReturns
      <3>4. DemoCalls => \E cap, args : InHandler /\ CallTool(cap, args)
        BY DEF DemoCalls
      <3>5. \A decision \in Decisions :
               LlmDecides(decision) => \E cap, args : InHandler /\ CallTool(cap, args)
        BY <1>1, <3>1 DEF LlmDecides, hostVars
      <3>6. QED
        BY <1>1, <3>2, <3>3, <3>4, <3>5
           DEF HostNext, Process, SopvmRun, NodeCall, DbDemo, LlmDemo, allVars, hostVars
    <2>2. QED
      BY <1>1, <2>1, CallsChangeWhatIsGranted DEF HostCore
  <1> HIDE DEF Granted
  <1>2. HostCore /\ [HostNext]_allVars => [db' # db /\ phase = "running" => Granted]_allVars
    BY <1>1
  <1>3. HostCore /\ [HostNext]_allVars => HostCore'
    BY HostCoreStep
  <1>4. QED
    BY <1>2, <1>3, HostCoreInit, PTL DEF HostSpec, ChangesAreGranted, Granted

-----------------------------------------------------------------------------
(* The demo and its table. *)

DemoRows == {Seeds[k] : k \in DOMAIN Seeds} \cup {DemoRow}

\* The seeds are three, and none of them is what the demo inserts.
LEMMA SeedsAreThree ==
  /\ Len(Seeds) = 3 /\ DOMAIN Seeds = 1..3 /\ Seeds \in Seq(DemoRows) /\ Seeds # <<>>
  /\ \A j \in 1..3 : Seeds[j] # DemoRow
  <1>1. Len(Seeds) = 3 /\ DOMAIN Seeds = 1..3 /\ Seeds # <<>>
    BY DEF Seeds
  <1>2. Seeds \in Seq({Seeds[k] : k \in DOMAIN Seeds})
    BY DEF Seeds
  <1>3. Seeds \in Seq(DemoRows)
    BY <1>2 DEF DemoRows
  <1>4. \A j \in 1..3 : Seeds[j].customer \in {"Alice", "Bob", "Carol"}
    <2>1. /\ Seeds[1].customer = "Alice" /\ Seeds[2].customer = "Bob" /\ Seeds[3].customer = "Carol"
      BY DEF Seeds, Row
    <2>2. \A j \in 1..3 : j = 1 \/ j = 2 \/ j = 3
      OBVIOUS
    <2>3. QED
      BY <2>1, <2>2
  <1>5. DemoRow.customer = "Customer"
    BY DEF DemoRow, Row
  <1>6. QED
    BY <1>1, <1>3, <1>4, <1>5

WithRow(d) == [d EXCEPT !["orders"] = Append(@, DemoRow)]

\* What the demo inserts is stored as it is.
LEMMA DemoInserts ==
  ASSUME NEW d, "orders" \in DOMAIN d
  PROVE  DoWrite(d, "orders", DemoArgs("write")) = {WithRow(d)}
  <1> DEFINE args == DemoArgs("write")
             full == [c \in Columns |-> IF c \in DOMAIN DemoRow THEN DemoRow[c] ELSE "pending"]
  <1>1. /\ DOMAIN args = {"action", "row"} /\ args["action"] = "insert" /\ args["row"] = DemoRow
    BY DEF DemoArgs
  <1>2. DOMAIN DemoRow = Columns
    BY DEF DemoRow, Row, Columns
  <1>3. full = DemoRow
    BY <1>2 DEF DemoRow, Row
  <1> HIDE DEF args
  <1>4. DemoRow # <<>> /\ \A c \in DOMAIN DemoRow : DemoRow[c] # None
    <2>1. DOMAIN DemoRow # DOMAIN <<>>
      BY <1>2 DEF Columns
    <2>2. QED
      BY <1>2, <2>1, HostsDemo
  <1>5. Arg(args, "action", "insert") = "insert" /\ Arg(args, "row", <<>>) = DemoRow
    BY <1>1 DEF Arg
  <1>6. /\ {"customer", "amount"} \subseteq DOMAIN DemoRow /\ "id" \notin DOMAIN DemoRow
        /\ DOMAIN DemoRow \subseteq Columns \cup {"id"}
    BY <1>2 DEF Columns
  <1>7. Insert(d["orders"], args) = {Append(d["orders"], DemoRow)}
    <2> HIDE DEF full
    <2>1. full = DemoRow
      BY <1>3
    <2>2. Insert(d["orders"], args) = {Append(d["orders"], full)}
      BY <1>4, <1>5, <1>6 DEF Insert, full
    <2>3. QED
      BY <2>1, <2>2
  <1>8. DoWrite(d, "orders", args) = {[d EXCEPT !["orders"] = rows] : rows \in Insert(d["orders"], args)}
    BY <1>5 DEF DoWrite
  <1>9. DoWrite(d, "orders", args) = {[d EXCEPT !["orders"] = Append(d["orders"], DemoRow)]}
    BY <1>7, <1>8
  <1>10. QED
    BY <1>9 DEF args, WithRow

\* A call of the demo leaves the database as it was, and succeeds only if it reads,
\* or it inserts the row.
LEMMA DemoInvokes ==
  ASSUME NEW d, NEW cap, cap.action \in {"read", "write"},
         NEW outcome \in Invoke(d, cap, DemoArgs(cap.action))
  PROVE  \/ outcome.db = d /\ (outcome.success => cap.action = "read")
         \/ /\ outcome.success /\ cap.action = "write" /\ d # None /\ "orders" \in DOMAIN d
            /\ outcome.db = WithRow(d)
  <1>1. /\ Failure(d).db = d /\ ~ Failure(d).success
        /\ \A x : Success(x).db = x /\ Success(x).success
    BY DEF Failure, Success
  <1>2. CASE outcome = Failure(d)
    BY <1>1, <1>2
  <1>3. CASE \E table : \E e \in Perform(d, cap, table, DemoArgs(cap.action)) : outcome = Success(e)
    <2>1. PICK table : /\ outcome.db \in Perform(d, cap, table, DemoArgs(cap.action))
                       /\ outcome.success
      BY <1>1, <1>3
    <2>2. table = "orders" /\ d # None /\ "orders" \in DOMAIN d
      BY <2>1, DeclaredKeys DEF Perform
    <2>3. CASE cap.action = "read"
      <3>1. outcome.db \in DoRead(d, DemoArgs("read"))
        BY <2>1, <2>3 DEF Perform
      <3>2. outcome.db = d
        BY <3>1 DEF DoRead
      <3>3. QED
        BY <2>3, <3>2
    <2>4. CASE cap.action = "write"
      <3>1. outcome.db \in DoWrite(d, "orders", DemoArgs("write"))
        BY <2>1, <2>2, <2>4 DEF Perform
      <3>2. QED
        BY <2>1, <2>2, <2>4, <3>1, DemoInserts
    <2>5. QED
      BY <2>3, <2>4
  <1>4. QED
    BY <1>2, <1>3 DEF Invoke

\* The process ended before its executor ran.
SetUpFailed == phase = "over" /\ runs = 0

\* Once the set-up has begun the table is there, once it is over it has the seeds, and
\* nothing but the demo's row is ever added.
SeedInv ==
    config.host = "db_demo" =>
        /\ \/ db \in DemoDatabases(config)
           \/ db = config.found /\ (phase = "start" \/ SetUpFailed)
        /\ db \in DemoDatabases(config) =>
               /\ db["orders"] \in Seq(DemoRows)
               /\ \/ db["orders"] = <<>> /\ (phase \in {"start", "created"} \/ SetUpFailed)
                  \/ /\ Len(db["orders"]) >= 3
                     /\ \A k \in 1..3 : db["orders"][k] = Seeds[k]
                     /\ \A k \in 4..Len(db["orders"]) : db["orders"][k] = DemoRow

\* A database with a changed table is a database.
LEMMA DatabaseWith ==
  ASSUME config \in Configs, config.host = "db_demo", NEW d \in DemoDatabases(config),
         NEW rows \in Seq(DemoRows)
  PROVE  LET e == [d EXCEPT !["orders"] = rows]
         IN  e \in DemoDatabases(config) /\ e["orders"] = rows /\ "orders" \in DOMAIN d
  BY DEF DemoDatabases, DemoRows, DemoTables

\* The table of a demo's database.
LEMMA OrdersOf ==
  ASSUME config \in Configs, config.host = "db_demo", NEW d \in DemoDatabases(config)
  PROVE  d # None /\ "orders" \in DOMAIN d
  BY HostsDemo DEF DemoDatabases, DemoTables

\* Setting up, from whatever the last process has left.
LEMMA SetUpSeeds ==
  ASSUME TypeOK, HostInv, SeedInv, config.host = "db_demo", config' = config,
         CreateTable \/ SeedTable
  PROVE  SeedInv'
  <1>1. CASE CreateTable
    <2>1. phase' = "created" /\ db' = WithTable(db) /\ config \in Configs
      BY <1>1 DEF CreateTable, TypeOK
    <2>2. CASE db \in DemoDatabases(config)
      <3>1. db' = db
        <4>1. db # None /\ "orders" \in DOMAIN db
          BY <2>1, <2>2, OrdersOf
        <4>2. db = [t \in DOMAIN db |-> db[t]] /\ DOMAIN db \cup {"orders"} = DOMAIN db
          BY <2>2, <4>1 DEF DemoDatabases
        <4>3. QED
          BY <2>1, <4>1, <4>2 DEF WithTable
      <3>2. QED
        BY <2>1, <2>2, <3>1 DEF SeedInv
    <2>3. CASE db = config.found
      <3>1. CASE db = None
        <4>1. db' = [t \in {"orders"} |-> <<>>] /\ DemoTables(config) = {"orders"}
          BY <2>1, <2>3, <3>1 DEF WithTable, DemoTables
        <4>2. db' \in DemoDatabases(config) /\ db'["orders"] = <<>>
          BY <4>1 DEF DemoDatabases
        <4>3. QED
          BY <2>1, <4>2 DEF SeedInv
      <3>2. CASE db # None
        <4>1. /\ db' = [t \in DOMAIN db \cup {"orders"} |-> IF t \in DOMAIN db THEN db[t] ELSE <<>>]
              /\ DemoTables(config) = {"orders"} \cup DOMAIN db
          BY <2>1, <2>3, <3>2 DEF WithTable, DemoTables
        <4>2. "orders" \in DOMAIN db => db["orders"] = <<>>
          BY <2>1, <2>3, <3>2, HostsDemo
        <4>3. db' \in DemoDatabases(config) /\ db'["orders"] = <<>>
          BY <2>3, <3>2, <4>1, <4>2 DEF DemoDatabases
        <4>4. QED
          BY <2>1, <4>3 DEF SeedInv
      <3>3. QED
        BY <3>1, <3>2
    <2>4. QED
      BY <1>1, <2>2, <2>3 DEF SeedInv
  <1>2. CASE SeedTable
    <2>1. /\ phase = "created" /\ phase' = "seeded" /\ db' = WithSeeds(db) /\ config \in Configs
          /\ db \in DemoDatabases(config)
      BY <1>2 DEF SeedTable, TypeOK, SeedInv, SetUpFailed
    <2>2. "orders" \in DOMAIN db
      BY <2>1, OrdersOf
    <2>3. CASE db["orders"] = <<>>
      <3>1. db' = [db EXCEPT !["orders"] = Seeds]
        BY <2>1, <2>3 DEF WithSeeds
      <3>2. db' \in DemoDatabases(config) /\ db'["orders"] = Seeds
        <4>1. Seeds \in Seq(DemoRows) /\ config.host = "db_demo"
          BY <1>1, SeedsAreThree
        <4>2. QED
          BY <2>1, <3>1, <4>1, DatabaseWith
      <3>3. QED
        BY <2>1, <3>2, SeedsAreThree DEF SeedInv
    <2>4. CASE db["orders"] # <<>>
      <3>1. db' = db
        <4>1. db' = [db EXCEPT !["orders"] = db["orders"]]
          BY <2>1, <2>4 DEF WithSeeds
        <4>2. db = [t \in DOMAIN db |-> db[t]]
          BY <2>1 DEF DemoDatabases
        <4>3. QED
          BY <4>1, <4>2
      <3>2. QED
        BY <2>1, <2>4, <3>1 DEF SeedInv, SetUpFailed
    <2>5. QED
      BY <2>3, <2>4
  <1>3. QED
    BY <1>1, <1>2

\* A call in the demo: granted, at the one declared capability that calls for it.
LEMMA DemoCallsOnce ==
  ASSUME TypeOK, config.host = "db_demo", DemoCalls
  PROVE  /\ phase = "running" /\ pc = "execute" /\ currentId \in DOMAIN Nodes /\ Node.condition = None
         /\ UNCHANGED <<phase, before, exit, config, pc, runs, currentId, currentViolation>>
         /\ \/ events' = events
            \/ events' = Append(events, Event("capability_granted", currentId))
         /\ at' \in NextDbCall /\ reply' \in {"success", "failure"}
         /\ LET action == Node.capabilities_declared[at'].action
            IN  \/ db' = db /\ (reply' = "success" => action = "read")
                \/ /\ reply' = "success" /\ action = "write" /\ db # None /\ "orders" \in DOMAIN db
                   /\ db' = WithRow(db)
  <1>1. PICK k \in NextDbCall :
           LET cap == ParseCapability(Node.capabilities_declared[k])
           IN  CallTool(cap, DemoArgs(cap.action)) /\ at' = k
    BY DEF DemoCalls
  <1> DEFINE text == Node.capabilities_declared[k]
             cap == ParseCapability(text)
  <1>2. CallTool(cap, DemoArgs(cap.action)) /\ at' = k
    BY <1>1
  <1>3. /\ InHandler /\ Node.condition = None /\ currentId \in DOMAIN Nodes /\ config \in Configs
        /\ k \in DOMAIN Node.capabilities_declared /\ IsDbCall(text)
    BY DEF DemoCalls, InHandler, TypeOK, NextDbCall
  <1>4. /\ Grammatical(text) /\ GateVerdict(cap, Node) # "denied" /\ config.registry
    <2>1. Node.condition = None /\ k \in {j \in DOMAIN Node.capabilities_declared :
                                            IsDbCall(Node.capabilities_declared[j])}
      BY <1>3
    <2>2. QED
      BY <1>3, <2>1, HostsDemo DEF Node, Nodes
  <1>5. cap.action = text.action /\ cap.action \in {"read", "write"}
    BY <1>3, <1>4 DEF ParseCapability, IsDbCall
  <1>6. RequestTool(currentId, cap)
    BY <1>2 DEF CallTool
  <1>7. /\ UNCHANGED <<config, pc, runs, currentId, currentViolation>>
        /\ \/ events' = events
           \/ events' = Append(events, Event("capability_granted", currentId))
        /\ lastCall'.verdict # "stub"
    <2>1. GateVerdict(cap, Nodes[currentId]) # "denied"
      BY <1>4 DEF Node
    <2>2. /\ UNCHANGED <<config, pc, runs, currentId, currentViolation>>
          /\ \/ events' = events
             \/ events' = Append(events, Event("capability_granted", currentId))
      BY <1>6, <2>1 DEF RequestTool
    <2>3. \A c : Route(c) # "stub"
      BY DEF Route
    <2>4. lastCall'.verdict # "stub"
      BY <1>4, <1>6, <2>3 DEF RequestTool, GateVerdict
    <2>5. QED
      BY <2>2, <2>4
  <1>8. CASE lastCall'.verdict = "invoked"
    <2>1. PICK outcome \in Invoke(db, cap, DemoArgs(cap.action)) :
             /\ db' = outcome.db
             /\ reply' = IF outcome.success THEN "success" ELSE "failure"
      BY <1>2, <1>8 DEF CallTool
    <2>2. \/ outcome.db = db /\ (outcome.success => cap.action = "read")
          \/ /\ outcome.success /\ cap.action = "write" /\ db # None /\ "orders" \in DOMAIN db
             /\ outcome.db = WithRow(db)
      <3> HIDE DEF cap
      <3>1. cap.action \in {"read", "write"} /\ outcome \in Invoke(db, cap, DemoArgs(cap.action))
        BY <1>5
      <3>2. ASSUME NEW c, c.action \in {"read", "write"}, outcome \in Invoke(db, c, DemoArgs(c.action))
            PROVE  \/ outcome.db = db /\ (outcome.success => c.action = "read")
                   \/ /\ outcome.success /\ c.action = "write" /\ db # None /\ "orders" \in DOMAIN db
                      /\ outcome.db = WithRow(db)
        BY ONLY <3>2, DemoInvokes
      <3>3. QED
        BY ONLY <3>1, <3>2
    <2>3. QED
      BY <1>2, <1>3, <1>5, <1>7, <2>1, <2>2 DEF CallTool, InHandler
  <1>9. CASE lastCall'.verdict # "invoked"
    <2>1. db' = db /\ reply' = "failure"
      BY <1>2, <1>7, <1>9 DEF CallTool
    <2>2. QED
      BY <1>2, <1>3, <1>5, <1>7, <2>1 DEF CallTool, InHandler
  <1>10. QED
    BY <1>8, <1>9

\* The hosts keep their configuration; a demo's steps.
LEMMA DemoSteps ==
  ASSUME TypeOK, config.host = "db_demo", [HostNext]_allVars
  PROVE  /\ config' = config
         /\ \/ CreateTable \/ SeedTable \/ DemoCalls
            \/ db' = db /\ (SetUpFails \/ LoadFails \/ Build \/ Drive \/ Exit \/ DemoCondition \/ DemoReturns
                             \/ Restart \/ UNCHANGED allVars)
  <1>1. /\ \/ CreateTable \/ SeedTable \/ DemoCalls
           \/ SetUpFails \/ LoadFails \/ Build \/ Drive \/ Exit \/ DemoCondition \/ DemoReturns
           \/ Restart \/ UNCHANGED allVars
    BY DEF HostNext, Process, SopvmRun, NodeCall, LlmDemo, DbDemo, Executing, CallAgain
  <1>2. CreateTable \/ SeedTable => config' = config
    BY DEF CreateTable, SeedTable, vars, execVars
  <1>3. DemoCalls => config' = config
    BY DemoCallsOnce
  <1>4. SetUpFails \/ LoadFails \/ Build \/ Drive \/ Exit \/ Restart \/ UNCHANGED allVars =>
           config' = config /\ db' = db
    BY DEF SetUpFails, LoadFails, Build, Drive, StartRun, RefuseRun, BeginStep, Exit, Restart, NewExecutor,
           allVars, hostVars, vars, execVars
  <1>5. DemoCondition \/ DemoReturns => config' = config /\ db' = db
    BY DEF DemoCondition, DemoReturns, HandlerReturns, StepReturns
  <1>6. QED
    BY <1>1, <1>2, <1>3, <1>4, <1>5

\* No host changes its configuration.
LEMMA KeepsConfiguration ==
  ASSUME [HostNext]_allVars
  PROVE  config' = config
  BY DEF HostNext, Process, SopvmRun, NodeCall, LlmDemo, DbDemo, Executing, LoadFails, Build, Drive,
         Exit, CreateTable, SeedTable, SetUpFails, SimpleReturns, DemoCondition, DemoCalls, DemoReturns,
         LlmDecides, LlmReturns, HandlerReturns, CallTool, StartRun, RefuseRun, BeginStep,
         RequestTool, StepReturns, HandlerRaises, Restart, CallAgain, NewExecutor,
         allVars, vars, execVars, hostVars

\* Every step of a host keeps to it: the demo's calls add their row behind the seeds.
LEMMA SeedStep ==
  ASSUME TypeOK, HostInv, SeedInv, [HostNext]_allVars
  PROVE  SeedInv'
  <1>1. config' = config
    BY KeepsConfiguration
  <1>2. SUFFICES ASSUME config.host = "db_demo"
                 PROVE  SeedInv'
    BY <1>1 DEF SeedInv
  <1>3. CASE CreateTable \/ SeedTable
    BY <1>1, <1>2, <1>3, SetUpSeeds
  <1>4. CASE DemoCalls
    <2>1. /\ phase = "running" /\ phase' = "running" /\ config \in Configs
          /\ db' = db \/ (db # None /\ "orders" \in DOMAIN db /\ db' = WithRow(db))
      BY <1>2, <1>4, DemoCallsOnce DEF TypeOK
    <2>2. /\ db \in DemoDatabases(config) /\ db["orders"] \in Seq(DemoRows)
          /\ Len(db["orders"]) >= 3
          /\ \A k \in 1..3 : db["orders"][k] = Seeds[k]
          /\ \A k \in 4..Len(db["orders"]) : db["orders"][k] = DemoRow
      BY <1>2, <2>1 DEF SeedInv, SetUpFailed
    <2>3. CASE db' = db
      BY <1>1, <2>1, <2>2, <2>3 DEF SeedInv
    <2>4. CASE db' = WithRow(db)
      <3> DEFINE rows == db["orders"]
                 more == Append(rows, DemoRow)
      <3>1. DemoRow \in DemoRows
        BY DEF DemoRows
      <3>2. /\ more \in Seq(DemoRows) /\ Len(rows) \in Nat /\ Len(more) = Len(rows) + 1
            /\ \A k \in 1..Len(rows) : more[k] = rows[k]
            /\ more[Len(rows) + 1] = DemoRow
        BY <2>2, <3>1, Appended
      <3>3. db' \in DemoDatabases(config) /\ db'["orders"] = more
        BY <1>2, <2>1, <2>2, <2>4, <3>2, DatabaseWith DEF WithRow
      <3> HIDE DEF more
      <3>4. /\ Len(more) >= 3
            /\ \A k \in 1..3 : more[k] = Seeds[k]
            /\ \A k \in 4..Len(more) : more[k] = DemoRow
        BY <2>2, <3>2
      <3>5. QED
        BY <1>1, <3>2, <3>3, <3>4 DEF SeedInv
    <2>5. QED
      BY <2>1, <2>3, <2>4
  <1>5. CASE db' = db /\ (SetUpFails \/ LoadFails \/ Build \/ Drive \/ Exit \/ DemoCondition \/ DemoReturns
                             \/ Restart \/ UNCHANGED allVars)
    <2>1. \/ phase' = phase /\ (phase = "running" \/ runs' = runs)
          \/ phase \in {"seeded", "running"}
          \/ phase' = "start"
          \/ phase' = "over" /\ runs' = 0
      <3>1. SetUpFails => phase' = "over" /\ runs' = 0
        BY DEF SetUpFails, HostInv, vars, execVars
      <3>2. LoadFails \/ Build => phase = "seeded"
        BY <1>2 DEF LoadFails, Build, ReadyToLoad
      <3>3. Drive \/ Exit \/ DemoCondition \/ DemoReturns => phase = "running"
        BY DEF Drive, Exit, DemoCondition, DemoReturns, InHandler
      <3>4. Restart => phase' = "start"
        BY DEF Restart
      <3>5. UNCHANGED allVars => phase' = phase /\ runs' = runs
        BY DEF allVars, hostVars, vars, execVars
      <3>6. QED
        BY <1>5, <3>1, <3>2, <3>3, <3>4, <3>5
    <2>2. CASE phase' = phase /\ (phase = "running" \/ runs' = runs)
      BY <1>1, <1>5, <2>2 DEF SeedInv, SetUpFailed
    <2>3. CASE phase \in {"seeded", "running"}
      BY <1>1, <1>2, <1>5, <2>3 DEF SeedInv, SetUpFailed
    <2>4. CASE phase' = "start" \/ (phase' = "over" /\ runs' = 0)
      BY <1>1, <1>2, <1>5, <2>4 DEF SeedInv, SetUpFailed
    <2>5. QED
      BY <2>1, <2>2, <2>3, <2>4
  <1>6. QED
    BY <1>2, <1>3, <1>4, <1>5, DemoSteps

\* It holds of what the first process finds.
LEMMA SeedInit == HostInit => SeedInv
  <1> SUFFICES ASSUME HostInit, config.host = "db_demo"
               PROVE  SeedInv
    BY DEF SeedInv
  <1>1. config \in Configs /\ phase = "start" /\ db = config.found
    BY DEF HostInit, Init
  <1>2. ASSUME db \in DemoDatabases(config)
        PROVE  db["orders"] = <<>>
    <2>1. db # None /\ "orders" \in DOMAIN db
      BY <1>1, <1>2, OrdersOf
    <2>2. QED
      BY <1>1, <2>1, HostsDemo
  <1>3. <<>> \in Seq(DemoRows)
    OBVIOUS
  <1>4. QED
    BY <1>1, <1>2, <1>3 DEF SeedInv

\* However often the set-up runs, wherever the demo is killed and whatever it has
\* written: the three seeds are in the table once, before everything else.
THEOREM SeedsAreThereOnce == HostSpec => []SeededOnce
  <1>1. ASSUME HostCore, SeedInv
        PROVE  SeededOnce
    <2>1. SUFFICES ASSUME config.host = "db_demo",
                          Orders # <<>> \/ phase \in {"seeded", "running"} \/ runs # 0
                   PROVE  /\ Len(Orders) >= Len(Seeds) /\ SubSeq(Orders, 1, Len(Seeds)) = Seeds
                          /\ \A k \in (Len(Seeds) + 1)..Len(Orders) :
                                 \A j \in DOMAIN Seeds : Orders[k] # Seeds[j]
      BY DEF SeededOnce
    <2>2. /\ db \in DemoDatabases(config) /\ db["orders"] \in Seq(DemoRows)
          /\ Len(db["orders"]) >= 3
          /\ \A k \in 1..3 : db["orders"][k] = Seeds[k]
          /\ \A k \in 4..Len(db["orders"]) : db["orders"][k] = DemoRow
      <3>1. db \in DemoDatabases(config) => Orders = db["orders"]
        BY <1>1, <2>1, OrdersOf DEF HostCore, TypeOK, Orders
      <3>2. db = config.found => Orders = <<>>
        BY <1>1, <2>1, HostsDemo DEF HostCore, TypeOK, Orders
      <3>3. runs # 0 => phase \in {"running", "over"}
        BY <1>1 DEF HostCore, HostInv
      <3>4. db \in DemoDatabases(config)
        BY <1>1, <2>1, <3>2, <3>3 DEF SeedInv, SetUpFailed
      <3>5. ~ (db["orders"] = <<>> /\ (phase \in {"start", "created"} \/ SetUpFailed))
        BY <2>1, <3>1, <3>3, <3>4 DEF SetUpFailed
      <3>6. QED
        BY <1>1, <2>1, <3>4, <3>5 DEF SeedInv
    <2>3. Orders = db["orders"]
      BY <1>1, <2>1, <2>2, OrdersOf DEF HostCore, TypeOK, Orders
    <2>4. SubSeq(Orders, 1, 3) = Seeds
      <3>1. Orders \in Seq(DemoRows) /\ Len(Orders) >= 3 /\ \A k \in 1..3 : Orders[k] = Seeds[k]
        BY <2>2, <2>3
      <3>2. /\ SubSeq(Orders, 1, 3) \in Seq(DemoRows) /\ Len(SubSeq(Orders, 1, 3)) = 3
            /\ \A k \in 1..3 : SubSeq(Orders, 1, 3)[k] = Seeds[k]
        BY <3>1
      <3>3. QED
        BY <3>2, SeedsAreThree
    <2>5. QED
      BY <2>2, <2>3, <2>4, SeedsAreThree
  <1>2. HostCore /\ SeedInv /\ [HostNext]_allVars => HostCore' /\ SeedInv'
    BY HostCoreStep, SeedStep DEF HostCore
  <1>3. QED
    BY <1>1, <1>2, HostCoreInit, SeedInit, PTL DEF HostSpec


-----------------------------------------------------------------------------
(* What the telemetry says of the table. *)

\* The completed steps of a telemetry that declare a db:write.
Written(s) == {k \in DOMAIN s : s[k].event = "step_completed" /\ Writes(s[k].step_id)}

Counts(x) == IF x.event = "step_completed" /\ Writes(x.step_id) THEN 1 ELSE 0

\* The call that the step being executed has made, and its telemetry has not told.
Pending == IF pc = "execute" /\ reply = "success" /\ Writes(currentId) THEN 1 ELSE 0

\* Each event counts for itself.
LEMMA WrittenOneMore ==
  ASSUME NEW S, NEW s \in Seq(S), NEW x \in S
  PROVE  /\ Cardinality(Written(s)) \in Nat
         /\ Cardinality(Written(Append(s, x))) = Cardinality(Written(s)) + Counts(x)
  <1> DEFINE t == Append(s, x)
             n == Len(s)
             G == {k \in 1..(n + 1) : t[k].event = "step_completed" /\ Writes(t[k].step_id)}
  <1>1. /\ n \in Nat /\ DOMAIN t = 1..(n + 1) /\ DOMAIN s = 1..n
        /\ \A j \in 1..n : t[j] = s[j]
        /\ t[n + 1] = x
    BY Appended
  <1>2. /\ Cardinality(G \cap (1..n)) \in Nat
        /\ Cardinality(G \cap (1..(n + 1)))
             = Cardinality(G \cap (1..n)) + (IF n + 1 \in G THEN 1 ELSE 0)
    <2> HIDE DEF G
    <2>1. QED
      BY <1>1, CountUpTo
  <1> HIDE DEF t, n
  <1>3. G \cap (1..n) = Written(s)
    BY <1>1 DEF Written
  <1>4. G \cap (1..(n + 1)) = Written(t)
    BY <1>1 DEF Written
  <1>5. (IF n + 1 \in G THEN 1 ELSE 0) = Counts(x)
    BY <1>1 DEF Counts
  <1>6. QED
    BY <1>2, <1>3, <1>4, <1>5 DEF t

\* The table is ahead of the telemetry by the call that is pending, and a demo makes
\* its call where the step declares one.
TableInv ==
    config.host = "db_demo" =>
        /\ before \in Nat /\ reply \in {"none", "success", "failure"}
        /\ pc # "execute" => at = 0 /\ reply = "none"
        /\ pc = "execute" =>
               /\ currentViolation = None
               /\ at = 0 <=> reply = "none"
               /\ at # 0 => /\ at \in DOMAIN Node.capabilities_declared
                            /\ IsDbCall(Node.capabilities_declared[at])
                            /\ Node.condition = None
        /\ phase = "running" \/ runs > 0 =>
               Len(Orders) - before = Cardinality(Written(events)) + Pending

\* The table that the demo has set up.
LEMMA DemoOrders ==
  ASSUME TypeOK, SeedInv, config.host = "db_demo", phase # "start",
         phase # "over" \/ runs # 0
  PROVE  /\ db # None /\ "orders" \in DOMAIN db /\ db \in DemoDatabases(config)
         /\ Orders = db["orders"] /\ Orders \in Seq(DemoRows) /\ Len(Orders) \in Nat
  <1>1. config \in Configs /\ db \in DemoDatabases(config)
    BY DEF TypeOK, SeedInv, SetUpFailed
  <1>2. db # None /\ "orders" \in DOMAIN db
    BY <1>1, OrdersOf
  <1>3. Orders = db["orders"] /\ Orders \in Seq(DemoRows)
    BY <1>1, <1>2 DEF Orders, SeedInv
  <1>4. QED
    BY <1>1, <1>2, <1>3

\* A demo's step has one call to make.
LEMMA OneDbCall ==
  ASSUME TypeOK, config.host = "db_demo", currentId \in DOMAIN Nodes, Node.condition = None,
         NEW j \in DOMAIN Node.capabilities_declared, IsDbCall(Node.capabilities_declared[j]),
         NEW k \in DOMAIN Node.capabilities_declared, IsDbCall(Node.capabilities_declared[k])
  PROVE  j = k /\ j \in Nat /\ j # 0
  <1> DEFINE db_calls == {i \in DOMAIN Node.capabilities_declared :
                             IsDbCall(Node.capabilities_declared[i])}
  <1>1. config \in Configs /\ j \in db_calls /\ k \in db_calls
    BY DEF TypeOK
  <1>2. /\ DOMAIN Node.capabilities_declared \subseteq Nat \ {0}
        /\ \A i, l \in db_calls : i = l
    <2>1. /\ currentId \in DOMAIN config.program.nodes
          /\ Node = config.program.nodes[currentId]
      BY DEF Node, Nodes
    <2> DEFINE node == config.program.nodes[currentId]
               calls_of == {i \in DOMAIN node.capabilities_declared :
                               IsDbCall(node.capabilities_declared[i])}
    <2>2. /\ DOMAIN node.capabilities_declared \subseteq Nat \ {0}
          /\ node.condition = None => \A i, l \in calls_of : i = l
      <3>1. \A n \in DOMAIN config.program.nodes :
                LET made == config.program.nodes[n]
                    made_calls == {i \in DOMAIN made.capabilities_declared :
                                      IsDbCall(made.capabilities_declared[i])}
                IN  /\ DOMAIN made.capabilities_declared \subseteq Nat \ {0}
                    /\ made.condition = None => \A i, l \in made_calls : i = l
        BY <1>1, HostsDemo
      <3>2. QED
        BY <2>1, <3>1
    <2>3. QED
      BY <2>1, <2>2
  <1>3. QED
    BY <1>1, <1>2


\* A call of the demo inserts one order, which is then pending, or none.
LEMMA TableCalls ==
  ASSUME HostCore, SeedInv, TableInv, config.host = "db_demo", DemoCalls
  PROVE  TableInv'
  <1>1. /\ phase = "running" /\ pc = "execute" /\ currentId \in DOMAIN Nodes /\ Node.condition = None
        /\ phase' = phase /\ before' = before /\ config' = config /\ pc' = pc
        /\ currentId' = currentId /\ currentViolation' = currentViolation
        /\ \/ events' = events
           \/ events' = Append(events, Event("capability_granted", currentId))
        /\ at' \in NextDbCall /\ reply' \in {"success", "failure"}
        /\ LET action == Node.capabilities_declared[at'].action
           IN  \/ db' = db /\ (reply' = "success" => action = "read")
               \/ /\ reply' = "success" /\ action = "write" /\ db # None /\ "orders" \in DOMAIN db
                  /\ db' = WithRow(db)
    BY DemoCallsOnce DEF HostCore
  <1>2. /\ Node' = Node /\ Nodes' = Nodes /\ (\A step : Writes(step)' = Writes(step))
        /\ Written(events)' = Written(events')
    BY <1>1 DEF Node, Nodes, Writes, Written
  <1>3. /\ TypeOK /\ events \in Seq(EventRecords)
        /\ Orders = db["orders"] /\ Orders \in Seq(DemoRows) /\ Len(Orders) \in Nat
        /\ config \in Configs /\ db \in DemoDatabases(config)
    <2>1. TypeOK
      BY DEF HostCore
    <2>2. QED
      BY <1>1, <2>1, DemoOrders DEF TypeOK
  <1>4. /\ at' \in DOMAIN Node.capabilities_declared /\ at' > at
        /\ IsDbCall(Node.capabilities_declared[at'])
    BY <1>1 DEF NextDbCall
  <1>5. /\ \A k \in DOMAIN Node.capabilities_declared :
               IsDbCall(Node.capabilities_declared[k]) => k = at'
        /\ at' \in Nat /\ at' # 0
    <2>1. ASSUME NEW j \in DOMAIN Node.capabilities_declared, IsDbCall(Node.capabilities_declared[j]),
                 NEW k \in DOMAIN Node.capabilities_declared, IsDbCall(Node.capabilities_declared[k])
          PROVE  j = k /\ j \in Nat /\ j # 0
      BY <1>1, <1>3, <2>1, OneDbCall
    <2>2. QED
      BY <1>4, <2>1
  <1>6. at = 0 /\ reply = "none"
    BY <1>1, <1>4, <1>5 DEF TableInv
  <1>7. Writes(currentId) <=> Node.capabilities_declared[at'].action = "write"
    BY <1>1, <1>4, <1>5 DEF Writes, DeclaresWrite, Node
  <1>8. Cardinality(Written(events)) \in Nat /\ Cardinality(Written(events')) = Cardinality(Written(events))
    <2> DEFINE x == Event("capability_granted", currentId)
    <2>1. x \in EventRecords
      BY <1>1, EventTypes1 DEF EventTypes
    <2>2. Counts(x) = 0
      BY DEF Counts, Event
    <2> HIDE DEF x
    <2>3. /\ Cardinality(Written(events)) \in Nat
          /\ Cardinality(Written(Append(events, x))) = Cardinality(Written(events)) + Counts(x)
      BY <1>3, <2>1, WrittenOneMore
    <2>4. events' = events \/ events' = Append(events, x)
      BY <1>1 DEF x
    <2>5. Cardinality(Written(Append(events, x))) = Cardinality(Written(events))
      BY <2>2, <2>3
    <2>6. QED
      BY <2>3, <2>4, <2>5
  <1>9. /\ Pending = 0
        /\ Pending' = IF reply' = "success" /\ Writes(currentId) THEN 1 ELSE 0
    BY <1>1, <1>2, <1>6 DEF Pending
  <1>10. Len(Orders') = Len(Orders) + Pending'
    <2>1. CASE db' = db /\ (reply' = "success" => Node.capabilities_declared[at'].action = "read")
      <3>1. Orders' = Orders
        BY <2>1 DEF Orders
      <3>2. Pending' = 0
        BY <1>7, <1>9, <2>1
      <3>3. QED
        BY <1>3, <3>1, <3>2
    <2>2. CASE /\ reply' = "success" /\ Node.capabilities_declared[at'].action = "write"
               /\ db # None /\ "orders" \in DOMAIN db /\ db' = WithRow(db)
      <3> DEFINE more == Append(Orders, DemoRow)
      <3>1. DemoRow \in DemoRows
        BY DEF DemoRows
      <3>2. more \in Seq(DemoRows) /\ Len(more) = Len(Orders) + 1
        BY <1>3, <3>1, Appended
      <3>3. db' \in DemoDatabases(config) /\ db'["orders"] = more
        BY <1>3, <2>2, <3>2, DatabaseWith DEF WithRow
      <3>4. Orders' = more
        <4>1. db' # None /\ "orders" \in DOMAIN db'
          BY <1>3, <3>3, OrdersOf
        <4>2. QED
          BY <3>3, <4>1 DEF Orders
      <3>5. Pending' = 1
        BY <1>7, <1>9, <2>2
      <3> HIDE DEF more
      <3>6. QED
        BY <3>2, <3>4, <3>5
    <2>3. QED
      BY <1>1, <2>1, <2>2
  <1>11. /\ before' \in Nat /\ reply' \in {"none", "success", "failure"}
         /\ currentViolation' = None
         /\ at' # 0 /\ reply' # "none"
    BY <1>1, <1>5 DEF TableInv
  <1>12. Len(Orders') - before' = Cardinality(Written(events')) + Pending'
    <2>1. Len(Orders) - before = Cardinality(Written(events)) + Pending /\ before \in Nat
      BY <1>1 DEF TableInv
    <2>2. Pending' \in {0, 1}
      BY <1>9
    <2> DEFINE told == Cardinality(Written(events))
               told1 == Cardinality(Written(events'))
               more == Pending'
               long == Len(Orders')
    <2>3. /\ Len(Orders) - before = told + 0 /\ before \in Nat /\ Len(Orders) \in Nat /\ told \in Nat
          /\ more \in {0, 1} /\ long = Len(Orders) + more /\ told1 = told
      BY <1>3, <1>8, <1>9, <1>10, <2>1, <2>2
    <2> HIDE DEF told, told1, more, long
    <2>4. long - before = told1 + more
      BY <2>3
    <2>5. QED
      BY <1>1, <2>4 DEF told1, more, long
  <1>13. QED
    BY <1>1, <1>2, <1>4, <1>11, <1>12 DEF TableInv

\* When a step of the demo returns, its telemetry tells of what was pending.
LEMMA TableReturns ==
  ASSUME HostCore, SeedInv, TableInv, config.host = "db_demo", DemoCondition \/ DemoReturns
  PROVE  TableInv'
  <1>1. PICK r \in {"DONE", "FAILED"} :
           /\ HandlerReturns(r)
           /\ \/ Node.condition # None /\ r = "FAILED"
              \/ Node.condition = None /\ reply = "failure" /\ r = "FAILED"
              \/ Node.condition = None /\ reply # "failure" /\ NextDbCall = {} /\ r = "DONE"
    BY DEF DemoCondition, DemoReturns
  <1>2. /\ pc = "execute" /\ phase = "running" /\ pc' \in {"top", "idle"} /\ config' = config
        /\ at' = 0 /\ reply' = "none"
        /\ UNCHANGED <<phase, db, before>>
        /\ TypeOK /\ currentId \in DOMAIN Nodes /\ events \in Seq(EventRecords)
        /\ currentViolation = None
    BY <1>1 DEF HandlerReturns, StepReturns, Complete, Advance, InHandler, DemoCondition, DemoReturns,
                HostCore, TypeOK, TableInv
  <1>3. /\ Nodes' = Nodes /\ (\A step : Writes(step)' = Writes(step))
        /\ Written(events)' = Written(events')
        /\ Orders' = Orders /\ Pending' = 0
    BY <1>2 DEF Nodes, Writes, Written, Orders, Pending
  <1> DEFINE x == StepEvent(r)
             y == Event("run_completed", "")
  <1>4. events' = Append(events, x) \/ events' = Append(Append(events, x), y)
    BY <1>1, <1>2 DEF HandlerReturns, StepReturns, Complete, Advance, Effective
  <1>5. x \in EventRecords /\ y \in EventRecords
    BY <1>1, <1>2, EventTypes1 DEF EventTypes, StepEvent
  <1>6. Counts(y) = 0
    BY DEF Counts, Event
  <1>7. Counts(x) = Pending
    <2>1. Counts(x) = IF r = "DONE" /\ Writes(currentId) THEN 1 ELSE 0
      BY <1>1 DEF Counts, StepEvent, Event
    <2>2. Node.condition # None => ~ Writes(currentId)
      BY DEF Writes, DeclaresWrite, Node
    <2>3. ASSUME Node.condition = None, Writes(currentId), NextDbCall = {}
          PROVE  reply # "none"
      <3>1. PICK k \in DOMAIN Node.capabilities_declared : IsDbCall(Node.capabilities_declared[k])
        BY <2>3 DEF Writes, DeclaresWrite, Node
      <3>2. \A j \in DOMAIN Node.capabilities_declared :
               IsDbCall(Node.capabilities_declared[j]) => j = k /\ j \in Nat /\ j # 0
        <4>1. ASSUME NEW j \in DOMAIN Node.capabilities_declared,
                     IsDbCall(Node.capabilities_declared[j])
              PROVE  j = k /\ j \in Nat /\ j # 0
          BY <1>2, <2>3, <3>1, <4>1, OneDbCall
        <4>2. QED
          BY <4>1
      <3>3. k \in Nat /\ k # 0
        BY <3>1, <3>2
      <3>4. at = 0 => k \in NextDbCall
        BY <3>1, <3>2, <3>3 DEF NextDbCall
      <3>5. at # 0
        BY <2>3, <3>4
      <3>6. QED
        BY <1>2, <3>5 DEF TableInv
    <2>4. reply \in {"none", "success", "failure"}
      BY DEF TableInv
    <2>5. QED
      BY <1>1, <1>2, <2>1, <2>2, <2>3, <2>4 DEF Pending
  <1>8. /\ Cardinality(Written(events)) \in Nat
        /\ Cardinality(Written(events')) = Cardinality(Written(events)) + Pending
    <2> HIDE DEF x, y
    <2>1. /\ Append(events, x) \in Seq(EventRecords)
          /\ Cardinality(Written(events)) \in Nat
          /\ Cardinality(Written(Append(events, x))) = Cardinality(Written(events)) + Counts(x)
      BY <1>2, <1>5, Appended, WrittenOneMore
    <2>2. /\ Cardinality(Written(Append(events, x))) \in Nat
          /\ Cardinality(Written(Append(Append(events, x), y)))
               = Cardinality(Written(Append(events, x))) + Counts(y)
      BY <1>5, <2>1, WrittenOneMore
    <2>3. Cardinality(Written(Append(Append(events, x), y)))
            = Cardinality(Written(Append(events, x)))
      BY <1>6, <2>2
    <2>4. Cardinality(Written(Append(events, x))) = Cardinality(Written(events)) + Pending
      BY <1>7, <2>1
    <2>5. QED
      BY <1>4, <2>1, <2>3, <2>4
  <1>9. Len(Orders') - before' = Cardinality(Written(events')) + Pending'
    <2>1. Len(Orders) - before = Cardinality(Written(events)) + Pending
      BY <1>2 DEF TableInv
    <2>2. Pending \in {0, 1} /\ before \in Nat
      BY DEF Pending, TableInv
    <2>3. Len(Orders) \in Nat
      BY <1>2, DemoOrders
    <2>4. QED
      BY <1>2, <1>3, <1>8, <2>1, <2>2, <2>3
  <1>10. before' \in Nat
    BY <1>2 DEF TableInv
  <1>11. QED
    BY <1>2, <1>3, <1>9, <1>10 DEF TableInv

\* Events that tell of no completed step leave the telemetry's count as it is.
LEMMA WrittenSame ==
  ASSUME NEW S, NEW s \in Seq(S), NEW x \in S, x.event # "step_completed"
  PROVE  Cardinality(Written(Append(s, x))) = Cardinality(Written(s))
  <1>1. Cardinality(Written(Append(s, x))) = Cardinality(Written(s)) + Counts(x)
        /\ Cardinality(Written(s)) \in Nat
    BY WrittenOneMore
  <1>2. Counts(x) = 0
    BY DEF Counts
  <1>3. QED
    BY <1>1, <1>2

\* The executor's own steps touch neither.
LEMMA TableDrives ==
  ASSUME HostCore, TableInv, config.host = "db_demo", Drive
  PROVE  TableInv'
  <1>1. /\ phase = "running" /\ pc # "execute"
        /\ UNCHANGED <<hostVars, config, currentViolation>>
        /\ TypeOK /\ events \in Seq(EventRecords)
        /\ runs = 0 => events = <<>>
        /\ pc = "top" => currentViolation = None
    BY DEF Drive, StartRun, RefuseRun, BeginStep, HostCore, TypeOK, ReplayInv, EvidenceInv
  <1>2. /\ Nodes' = Nodes /\ (\A step : Writes(step)' = Writes(step))
        /\ Written(events)' = Written(events')
        /\ Orders' = Orders /\ at = 0 /\ reply = "none" /\ Pending = 0 /\ Pending' = 0
    BY <1>1 DEF Nodes, Writes, Written, Orders, Pending, TableInv, hostVars
  <1>3. pc' = "execute" => pc = "top"
    BY DEF Drive, StartRun, RefuseRun, BeginStep
  <1>4. Cardinality(Written(events')) = Cardinality(Written(events))
    <2>1. \/ events' = events
          \/ events = <<>> /\ events' = Append(events, Event("run_started", ""))
          \/ currentId \in DOMAIN Nodes /\ events' = Append(events, Event("step_started", currentId))
      <3>1. CASE StartRun
        <4>1. runs = 0
          <5>1. runs \in 0..1 /\ runs < 1
            BY <3>1, <1>1, HostsAssumption DEF StartRun, TypeOK
          <5>2. QED
            BY <5>1
        <4>2. events = <<>> /\ events' = <<Event("run_started", "")>>
          BY <1>1, <3>1, <4>1 DEF StartRun
        <4>3. \A x : Append(<<>>, x) = <<x>>
          OBVIOUS
        <4>4. QED
          BY <4>2, <4>3
      <3>2. CASE RefuseRun \/ BeginStep
        BY <3>2 DEF RefuseRun, BeginStep
      <3>3. QED
        BY <3>1, <3>2 DEF Drive
    <2>2. /\ Event("run_started", "") \in EventRecords
          /\ currentId \in DOMAIN Nodes => Event("step_started", currentId) \in EventRecords
      BY EventTypes1 DEF EventTypes
    <2>3. /\ Event("run_started", "").event # "step_completed"
          /\ Event("step_started", currentId).event # "step_completed"
      BY DEF Event
    <2>4. QED
      <3>1. CASE events' = events
        BY <3>1
      <3>2. ASSUME NEW x \in EventRecords, x.event # "step_completed",
                   events' = Append(events, x)
            PROVE  Cardinality(Written(events')) = Cardinality(Written(events))
        BY <1>1, <3>2, WrittenSame
      <3>3. CASE events' = Append(events, Event("run_started", ""))
        BY <2>2, <2>3, <3>2, <3>3
      <3>4. CASE currentId \in DOMAIN Nodes /\ events' = Append(events, Event("step_started", currentId))
        BY <2>2, <2>3, <3>2, <3>4
      <3>5. QED
        BY <2>1, <3>1, <3>3, <3>4
  <1>5. QED
    BY <1>1, <1>2, <1>3, <1>4 DEF TableInv, hostVars


\* Building the executor fixes what the table is compared with.
LEMMA TableBuilt ==
  ASSUME HostCore, SeedInv, TableInv, config.host = "db_demo", Build
  PROVE  TableInv'
  <1>1. /\ phase = "seeded" /\ before' = Len(Orders) /\ UNCHANGED <<execVars, db, at, reply>>
        /\ TypeOK /\ pc = "idle" /\ runs = 0 /\ events = <<>>
    BY DEF Build, ReadyToLoad, HostCore, HostInv, ReplayInv
  <1>2. Orders' = Orders /\ Len(Orders) \in Nat
    BY <1>1, DemoOrders DEF Orders
  <1>3. Cardinality(Written(events)') = 0 /\ Pending' = 0
    <2>1. Written(events)' = {}
      BY <1>1 DEF Written, execVars
    <2>2. Cardinality({}) = 0
      BY FS_EmptySet
    <2>3. Pending' = 0
      BY <1>1 DEF Pending, execVars
    <2>4. QED
      BY <2>1, <2>2, <2>3
  <1>4. Len(Orders') - before' = Cardinality(Written(events)') + Pending'
    BY <1>1, <1>2, <1>3
  <1>5. QED
    BY <1>1, <1>2, <1>4 DEF TableInv, execVars

\* Every step of a host keeps to it.
LEMMA TableStep ==
  ASSUME HostCore, SeedInv, TableInv, [HostNext]_allVars
  PROVE  TableInv'
  <1>1. config' = config
    BY KeepsConfiguration
  <1>2. SUFFICES ASSUME config.host = "db_demo"
                 PROVE  TableInv'
    BY <1>1 DEF TableInv
  <1>3. \/ CreateTable \/ SeedTable \/ DemoCalls
        \/ db' = db /\ (SetUpFails \/ LoadFails \/ Build \/ Drive \/ Exit \/ DemoCondition \/ DemoReturns
                         \/ Restart \/ UNCHANGED allVars)
    BY <1>2, DemoSteps DEF HostCore
  <1>4. CASE DemoCalls
    BY <1>2, <1>4, TableCalls
  <1>5. CASE DemoCondition \/ DemoReturns
    BY <1>2, <1>5, TableReturns
  <1>6. CASE Drive
    BY <1>2, <1>6, TableDrives
  <1>7. CASE Build
    BY <1>2, <1>7, TableBuilt
  <1>8. CASE CreateTable \/ SeedTable \/ SetUpFails \/ LoadFails
    <2>1. /\ UNCHANGED <<pc, before, at, reply, currentViolation, currentId>>
          /\ phase' # "running" /\ phase \in {"start", "created", "seeded"} /\ runs' = runs
      BY <1>2, <1>8 DEF CreateTable, SeedTable, SetUpFails, LoadFails, ReadyToLoad, vars, execVars
    <2>2. pc = "idle" /\ runs = 0
      BY <2>1 DEF HostCore, HostInv
    <2>3. ~ (runs' > 0)
      BY <2>1, <2>2
    <2>4. QED
      BY <1>2, <2>1, <2>2, <2>3 DEF TableInv
  <1>9. CASE Restart
    <2>1. /\ before' = before /\ pc' = "idle" /\ at' = 0 /\ reply' = "none" /\ phase' = "start"
          /\ ~ (runs' > 0)
      BY <1>9 DEF Restart, NewExecutor
    <2>2. QED
      BY <1>2, <2>1 DEF TableInv
  <1>10. CASE db' = db /\ (Exit \/ UNCHANGED allVars)
    <2>1. /\ UNCHANGED <<config, pc, runs, before, at, reply, currentViolation, currentId, events, db>>
          /\ phase' = phase \/ (phase = "running" /\ phase' = "over")
      BY <1>10 DEF Exit, vars, execVars, allVars, hostVars
    <2>2. /\ Node' = Node /\ Orders' = Orders /\ Pending' = Pending
          /\ Written(events)' = Written(events)
      BY <2>1 DEF Node, Nodes, Orders, Pending, Written, Writes
    <2>3. QED
      BY <2>1, <2>2 DEF TableInv
  <1>11. QED
    BY <1>3, <1>4, <1>5, <1>6, <1>7, <1>8, <1>9, <1>10

\* The table invariant holds in every behaviour of the programs.
LEMMA TableInvariant == HostSpec => []TableInv
  <1>1. HostInit => TableInv
    BY DEF HostInit, Init, TableInv
  <1>2. HostCore /\ SeedInv /\ TableInv /\ [HostNext]_allVars => HostCore' /\ SeedInv' /\ TableInv'
    BY HostCoreStep, SeedStep, TableStep DEF HostCore
  <1>3. QED
    BY <1>1, <1>2, HostCoreInit, SeedInit, PTL DEF HostSpec

\* The demo's telemetry and its table tell one story, wherever it was killed before,
\* whatever fails, and however the steps are routed.
THEOREM TablesTellTheRun == HostSpec => []TableTellsTheRun
  <1>1. TableInv => TableTellsTheRun
    BY DEF TableInv, TableTellsTheRun, Written, Pending
  <1>2. QED
    BY <1>1, TableInvariant, PTL

-----------------------------------------------------------------------------
(* The demo writes an order or rejects it. *)

\* The demo's node is that of its step: paging has not touched what decides its way.
LEMMA DemoNode ==
  ASSUME config \in Configs, config.host = "db_demo", NEW id \in Ids(DemoSop)
  PROVE  LET node == Nodes[id]
             step == StepOf(DemoSop, id)
         IN  /\ node.capabilities_declared = step.requires /\ node.condition = step.condition
             /\ node.terminal = step.terminal /\ node.edges = LoweredNode(step).edges
             /\ node.loop = LoopValue(step.loop) /\ node.on_limit = step.on_limit
  <1>1. config.program = CompileSop(DemoSop, DemoPolicy)
    BY HostsOrders
  <1>2. QED
    BY <1>1, CompiledNode DEF Nodes

\* From a step that neither rejects the order nor writes, the run goes on among such
\* steps, or raises.
LEMMA UnsettledSteps ==
  ASSUME config \in Configs, config.host = "db_demo",
         NEW S \in SUBSET Ids(DemoSop), Unsettled(DemoSop, S),
         currentId \in S, currentId # "reject_order"
  PROVE  /\ ~ Node.terminal => NextStep("FAILED") \in S \cup {None}
         /\ Node.condition = None /\ ~ Writes(currentId) =>
                ~ Node.terminal /\ NextStep("DONE") \in S \cup {None}
  <1> DEFINE step == StepOf(DemoSop, currentId)
             limit == IF step.loop = None THEN {} ELSE {step.on_limit}
  <1>1. currentId \in Ids(DemoSop)
    OBVIOUS
  <1>2. /\ Node.capabilities_declared = step.requires /\ Node.condition = step.condition
        /\ Node.terminal = step.terminal /\ Node.edges = LoweredNode(step).edges
        /\ Node.loop = LoopValue(step.loop) /\ Node.on_limit = step.on_limit
    BY <1>1, DemoNode DEF Node
  <1>3. PICK i \in DOMAIN DemoSop.steps :
           DemoSop.steps[i].id = currentId /\ step = DemoSop.steps[i]
    BY <1>1, StepOfId
  <1>4. /\ ~ step.terminal => {step.on_failure} \cup limit \subseteq S \cup {None}
        /\ step.condition = None /\ ~ DeclaresWrite(step.requires) =>
               ~ step.terminal /\ {step.on_success} \cup limit \subseteq S \cup {None}
    BY <1>3 DEF Unsettled
  <1> HIDE DEF step
  <1>5. AtLimit => step.loop # None
    BY <1>2 DEF AtLimit, LoopValue
  <1>6. \A edge \in {"on_success", "on_failure"} :
           IF edge \in DOMAIN Node.edges THEN Node.edges[edge] = step[edge] ELSE step[edge] = None
    BY <1>2 DEF LoweredNode
  <1>7. /\ NextStep("FAILED") \in {step.on_failure, None} \cup limit
        /\ NextStep("DONE") \in {step.on_success, None} \cup limit
    <2>1. AtLimit => Node.on_limit \in limit
      BY <1>2, <1>5
    <2>2. \A edge \in {"on_success", "on_failure"} : edge \in DOMAIN Node.edges =>
             Node.edges[edge] = step[edge]
      BY <1>6
    <2> HIDE DEF limit
    <2>3. QED
      BY <2>1, <2>2 DEF NextStep
  <1>8. Writes(currentId) <=> Node.condition = None /\ DeclaresWrite(Node.capabilities_declared)
    BY DEF Writes, Node
  <1>9. QED
    BY <1>2, <1>4, <1>7, <1>8

\* The run has completed the step that writes, or has come to the one that rejects.
Settled == Written(events) # {} \/ \E k \in DOMAIN path : path[k] = "reject_order"

\* Until then it is in one of the steps that may come before, and it is not DONE.
SettledInv ==
    config.host = "db_demo" =>
        \A S \in SUBSET Ids(DemoSop) : Unsettled(DemoSop, S) =>
            /\ pc # "idle" => currentId \in S \/ Settled
            /\ Returns("DONE") => Settled

\* What is settled stays so, until a new executor starts.
LEMMA SettledStays ==
  ASSUME TypeOK, config' = config,
         \/ events' = events
         \/ \E x \in EventRecords : events' = Append(events, x)
         \/ \E x, y \in EventRecords : events' = Append(Append(events, x), y),
         path' = path \/ \E x : path' = Append(path, x),
         Settled
  PROVE  Settled'
  <1>1. \A step : Writes(step)' = Writes(step)
    BY DEF Writes, Nodes
  <1>2. /\ events \in Seq(EventRecords) /\ path \in Seq(DOMAIN Nodes)
    BY DEF TypeOK
  <1>3. ASSUME NEW k \in DOMAIN events
        PROVE  k \in DOMAIN events' /\ events'[k] = events[k]
    <2>1. \A t \in Seq(EventRecords), x \in EventRecords :
             /\ Append(t, x) \in Seq(EventRecords)
             /\ \A n \in DOMAIN t : n \in DOMAIN Append(t, x) /\ Append(t, x)[n] = t[n]
      OBVIOUS
    <2>2. QED
      BY <1>2, <1>3, <2>1
  <1>4. ASSUME NEW k \in DOMAIN path
        PROVE  k \in DOMAIN path' /\ path'[k] = path[k]
    BY <1>2
  <1>5. QED
    BY <1>1, <1>3, <1>4 DEF Settled, Written


\* The demo's handler returns DONE only where nothing has failed, and its step then
\* has no condition.
LEMMA SettledReturns ==
  ASSUME HostCore, SeedInv, TableInv, SettledInv, config.host = "db_demo",
         DemoCondition \/ DemoReturns
  PROVE  SettledInv'
  <1>1. PICK r \in {"DONE", "FAILED"} :
           /\ HandlerReturns(r)
           /\ r = "DONE" => Node.condition = None
    BY DEF DemoCondition, DemoReturns
  <1>2. /\ pc = "execute" /\ StepReturns(r) /\ UNCHANGED <<config, path>>
        /\ TypeOK /\ config \in Configs /\ currentId \in DOMAIN Nodes
        /\ currentViolation = None /\ Effective(r) = r
        /\ events \in Seq(EventRecords)
    BY <1>1 DEF HandlerReturns, StepReturns, HostCore, TypeOK, TableInv, Effective
  <1> DEFINE x == StepEvent(r)
             y == Event("run_completed", "")
  <1>3. x \in EventRecords /\ y \in EventRecords
    BY <1>1, <1>2, EventTypes1 DEF EventTypes, StepEvent
  <1>4. \/ Complete(r) /\ events' = Append(Append(events, x), y) /\ (Returns("DONE")' => r = "DONE")
        \/ Advance(r) /\ events' = Append(events, x) /\ result'.status # "returned"
    <2>1. CASE Complete(r)
      BY <1>2, <2>1 DEF Complete, Returned, Returns
    <2>2. CASE Advance(r)
      <3>1. result = NoResult
        BY <1>2 DEF HostCore, BudgetInv, ReplayInv
      <3>2. result'.status # "returned"
        BY <2>2, <3>1 DEF Advance, NoResult, Raised
      <3>3. QED
        BY <1>2, <2>2, <3>2 DEF Advance
    <2>3. QED
      BY <1>2, <2>1, <2>2 DEF StepReturns
  <1>5. Settled => Settled'
    BY <1>2, <1>3, <1>4, SettledStays
  <1>6. SUFFICES ASSUME NEW S \in SUBSET Ids(DemoSop), Unsettled(DemoSop, S), ~ Settled'
                 PROVE  (pc' # "idle" => currentId' \in S) /\ ~ Returns("DONE")'
    BY <1>2 DEF SettledInv
  <1>7. currentId \in S
    BY <1>2, <1>5, <1>6 DEF SettledInv
  <1>8. currentId # "reject_order"
    <2>1. Len(path) \in DOMAIN path /\ path[Len(path)] = currentId
      <3>1. Len(path) \in 1..MaxSteps /\ path[Len(path)] = currentId /\ path \in Seq(DOMAIN Nodes)
        BY <1>2 DEF HostCore, BudgetInv, StepBudget, TypeOK
      <3>2. QED
        BY <3>1
    <2>2. QED
      BY <1>5, <1>6, <2>1 DEF Settled
  <1>9. /\ ~ Node.terminal => NextStep("FAILED") \in S \cup {None}
        /\ Node.condition = None /\ ~ Writes(currentId) =>
               ~ Node.terminal /\ NextStep("DONE") \in S \cup {None}
    BY <1>2, <1>6, <1>7, <1>8, UnsettledSteps
  <1>10. r = "DONE" => ~ Writes(currentId)
    <2>1. SUFFICES ASSUME r = "DONE", Writes(currentId)
                   PROVE  Settled'
      BY <1>6
    <2>2. x.event = "step_completed" /\ x.step_id = currentId
      BY <2>1 DEF StepEvent, Event
    <2>3. Len(events) + 1 \in DOMAIN events' /\ events'[Len(events) + 1] = x
      <3> HIDE DEF x, y
      <3>1. /\ Append(events, x) \in Seq(EventRecords) /\ Len(events) + 1 \in DOMAIN Append(events, x)
            /\ Append(events, x)[Len(events) + 1] = x
        BY <1>2, <1>3, Appended
      <3>2. /\ Len(events) + 1 \in DOMAIN Append(Append(events, x), y)
            /\ Append(Append(events, x), y)[Len(events) + 1] = x
        BY <1>3, <3>1
      <3>3. QED
        BY <1>4, <3>1, <3>2
    <2>4. PICK n \in DOMAIN events' :
             events'[n].event = "step_completed" /\ events'[n].step_id = currentId
      BY <2>2, <2>3
    <2>5. Nodes' = Nodes
      BY <1>2 DEF Nodes
    <2>6. n \in Written(events)'
      BY <2>1, <2>4, <2>5 DEF Written, Writes
    <2>7. QED
      BY <2>6 DEF Settled
  <1>11. CASE Complete(r) /\ (Returns("DONE")' => r = "DONE")
    <2>1. Node.terminal /\ pc' = "idle"
      BY <1>1, <1>2, <1>11 DEF Complete
    <2>2. QED
      BY <1>1, <1>9, <1>10, <1>11, <2>1
  <1>12. CASE Advance(r) /\ result'.status # "returned"
    <2>1. ~ Node.terminal /\ (pc' # "idle" => currentId' = NextStep(r) /\ NextStep(r) # None)
      BY <1>2, <1>12 DEF Advance
    <2>2. NextStep(r) \in S \cup {None}
      BY <1>1, <1>9, <1>10, <2>1
    <2>3. QED
      BY <1>12, <2>1, <2>2 DEF Returns
  <1>13. QED
    BY <1>4, <1>11, <1>12


\* Every step of a host keeps to it.
LEMMA SettledStep ==
  ASSUME HostCore, SeedInv, TableInv, SettledInv, [HostNext]_allVars
  PROVE  SettledInv'
  <1>1. config' = config
    BY KeepsConfiguration
  <1>2. SUFFICES ASSUME config.host = "db_demo"
                 PROVE  SettledInv'
    BY <1>1 DEF SettledInv
  <1>3. TypeOK /\ config \in Configs
    BY DEF HostCore, TypeOK
  <1>4. \/ CreateTable \/ SeedTable \/ DemoCalls
        \/ db' = db /\ (SetUpFails \/ LoadFails \/ Build \/ Drive \/ Exit \/ DemoCondition \/ DemoReturns
                         \/ Restart \/ UNCHANGED allVars)
    BY <1>2, DemoSteps DEF HostCore
  <1>5. CASE UNCHANGED <<pc, currentId, events, path, result>>
    <2>1. Nodes' = Nodes
      BY <1>1 DEF Nodes
    <2>2. Settled' = Settled /\ Returns("DONE")' = Returns("DONE")
      BY <1>5, <2>1 DEF Settled, Written, Writes, Returns
    <2>3. QED
      BY <1>1, <1>5, <2>2 DEF SettledInv
  <1>6. CASE CreateTable \/ SeedTable \/ SetUpFails \/ LoadFails \/ Build \/ Exit \/ UNCHANGED allVars
    BY <1>5, <1>6 DEF CreateTable, SeedTable, SetUpFails, LoadFails, Build, Exit, allVars, vars, execVars
  <1>7. CASE DemoCondition \/ DemoReturns
    BY <1>2, <1>7, SettledReturns
  <1>8. CASE DemoCalls
    <2>1. /\ pc' = pc /\ currentId' = currentId /\ currentId \in DOMAIN Nodes
          /\ \/ events' = events
             \/ events' = Append(events, Event("capability_granted", currentId))
          /\ UNCHANGED <<path, result>>
      <3>1. /\ pc' = pc /\ currentId' = currentId /\ currentId \in DOMAIN Nodes
            /\ \/ events' = events
               \/ events' = Append(events, Event("capability_granted", currentId))
        BY <1>2, <1>3, <1>8, DemoCallsOnce DEF HostCore
      <3>2. UNCHANGED <<path, result>>
        BY <1>8 DEF DemoCalls, CallTool, RequestTool
      <3>3. QED
        BY <3>1, <3>2
    <2>2. Event("capability_granted", currentId) \in EventRecords
      BY <2>1, EventTypes1 DEF EventTypes
    <2>3. Settled => Settled'
      BY <1>1, <1>3, <2>1, <2>2, SettledStays
    <2>4. QED
      BY <1>1, <1>2, <2>1, <2>3 DEF SettledInv, Returns
  <1>9. CASE Drive
    <2>1. CASE StartRun
      <3>1. currentId' = config.program.entry /\ result' = NoResult
        BY <2>1 DEF StartRun
      <3>2. config.program.entry = DemoSop.steps[1].id
        BY <1>2, <1>3, HostsOrders, CompiledShape
      <3>3. ~ Returns("DONE")'
        BY <3>1 DEF Returns, NoResult
      <3>4. QED
        BY <3>1, <3>2, <3>3 DEF SettledInv, Unsettled
    <2>2. CASE RefuseRun
      <3>1. pc' = "idle" /\ \E e : result' = Raised(e)
        BY <2>2 DEF RefuseRun
      <3>2. ~ Returns("DONE")'
        BY <3>1 DEF Returns, Raised
      <3>3. QED
        BY <3>1, <3>2 DEF SettledInv
    <2>3. CASE BeginStep
      <3>1. /\ pc = "top" /\ currentId' = currentId
            /\ \/ events' = events
               \/ /\ currentId \in DOMAIN Nodes
                  /\ events' = Append(events, Event("step_started", currentId))
            /\ path' = path \/ path' = Append(path, currentId)
            /\ result' = result \/ \E e : result' = Raised(e)
        BY <2>3 DEF BeginStep
      <3>2. currentId \in DOMAIN Nodes => Event("step_started", currentId) \in EventRecords
        BY EventTypes1 DEF EventTypes
      <3>3. Settled => Settled'
        BY <1>1, <1>3, <3>1, <3>2, SettledStays
      <3>4. result = NoResult
        BY <3>1 DEF HostCore, BudgetInv, ReplayInv
      <3>5. ~ Returns("DONE")'
        BY <3>1, <3>4 DEF Returns, NoResult, Raised
      <3>6. QED
        BY <1>1, <1>2, <3>1, <3>3, <3>5 DEF SettledInv
    <2>4. QED
      BY <1>9, <2>1, <2>2, <2>3 DEF Drive
  <1>10. CASE Restart
    <2>1. pc' = "idle" /\ result' = NoResult
      BY <1>10 DEF Restart, NewExecutor
    <2>2. QED
      BY <2>1 DEF SettledInv, Returns, NoResult
  <1>11. QED
    BY <1>4, <1>6, <1>7, <1>8, <1>9, <1>10

\* For every procedure without a way around both: a demo that exits 0 has written an
\* order or rejected it, whatever fails, wherever it was killed before and whatever
\* its database holds.
THEOREM DemosWriteOrReject == HostSpec => []DemoWritesOrRejects
  <1>1. ASSUME HostCore, SeedInv, TableInv, ExitInv, SettledInv
        PROVE  DemoWritesOrRejects
    <2>1. SUFFICES ASSUME config.host = "db_demo", exit = 0,
                          \A k \in DOMAIN path : path[k] # "reject_order"
                   PROVE  Len(Orders) > before
      BY DEF DemoWritesOrRejects
    <2>2. phase = "over" /\ Returns("DONE")
      BY <1>1, <2>1, HostsAssumption DEF ExitInv
    <2>3. TypeOK /\ runs # 0 /\ runs > 0
      <3>1. TypeOK /\ runs # 0
        BY <1>1, <2>2 DEF HostCore, EndInv, Returns
      <3>2. runs \in 0..MaxRuns /\ MaxRuns = 1
        BY <3>1, HostsAssumption DEF TypeOK
      <3>3. QED
        BY <3>1, <3>2
    <2>4. PICK S \in SUBSET Ids(DemoSop) : Unsettled(DemoSop, S)
      BY HostsOrders
    <2>5. Written(events) # {}
      BY <1>1, <2>1, <2>2, <2>4 DEF SettledInv, Settled
    <2>6. Cardinality(Written(events)) \in Nat /\ Cardinality(Written(events)) > 0
      <3>1. IsFiniteSet(Written(events))
        <4>1. events \in Seq(EventRecords)
          BY <2>3 DEF TypeOK
        <4>2. Written(events) \subseteq 1..Len(events) /\ Len(events) \in Nat
          BY <4>1 DEF Written
        <4>3. IsFiniteSet(1..Len(events))
          BY <4>2, FS_Interval
        <4>4. QED
          BY <4>2, <4>3, FS_Subset
      <3>2. QED
        BY <2>5, <3>1, FS_CardinalityType, FS_EmptySet
    <2>7. /\ Len(Orders) - before = Cardinality(Written(events)) + Pending
          /\ before \in Nat /\ Pending \in {0, 1}
      BY <1>1, <2>1, <2>2, <2>3 DEF TableInv, Pending
    <2>8. Len(Orders) \in Nat
      BY <1>1, <2>1, <2>2, <2>3, DemoOrders
    <2>9. QED
      BY <2>6, <2>7, <2>8
  <1>2. HostInit => SeedInv /\ TableInv /\ ExitInv /\ SettledInv
    <2>1. HostInit => TableInv /\ ExitInv /\ SettledInv
      BY DEF HostInit, Init, TableInv, ExitInv, SettledInv, Returns, NoResult
    <2>2. QED
      BY <2>1, SeedInit
  <1>3. HostCore /\ SeedInv /\ TableInv /\ ExitInv /\ SettledInv /\ [HostNext]_allVars
          => HostCore' /\ SeedInv' /\ TableInv' /\ ExitInv' /\ SettledInv'
    BY HostCoreStep, SeedStep, TableStep, ExitStep, SettledStep DEF HostCore
  <1>4. QED
    BY <1>1, <1>2, <1>3, HostCoreInit, PTL DEF HostSpec


-----------------------------------------------------------------------------
(* Why these programs end. *)

SetUpLeft ==
    CASE phase = "start" -> 3 [] phase = "created" -> 2 [] phase = "seeded" -> 1
      [] OTHER -> 0

\* The steps a program has left at most: of setting up, of its one run, with a tool
\* call in every step of it, and the exit.
ToDo ==
    IF phase = "over" THEN 0
    ELSE IF phase = "running" /\ runs > 0
    THEN 2 * Rank + 1 + IF pc = "execute" /\ reply = "none" THEN 1 ELSE 0
    ELSE 4 * MaxSteps + 4 + SetUpLeft

\* There is something left until the program is over.
LEMMA ToDoIsNumber ==
  ASSUME HostCore
  PROVE  /\ MaxSteps \in Nat /\ Rank \in Nat /\ ToDo \in Nat
         /\ ToDo = 0 <=> phase = "over"
  <1>1. MaxSteps \in Nat /\ Rank \in Nat
    BY RankIsNumber DEF HostCore
  <1>2. SetUpLeft \in 0..3
    BY DEF SetUpLeft
  <1>3. QED
    BY <1>1, <1>2 DEF ToDo

\* A step of the executor's loop takes from it.
LEMMA LoopTakes ==
  ASSUME HostCore, HostCore', Running, phase = "running", phase' = "running"
  PROVE  ToDo' < ToDo
  <1>1. Rank \in Nat /\ Rank' < Rank
    BY ToDoIsNumber, RunningTakes DEF HostCore
  <1>2. pc # "idle" /\ runs' = runs
    BY DEF Running, BeginStep, StepReturns, HandlerRaises
  <1>3. runs \in 0..MaxRuns /\ runs # 0 /\ MaxRuns = 1
    BY <1>2, HostsAssumption DEF HostCore, TypeOK, ReplayInv
  <1>4. runs > 0 /\ runs' > 0
    BY <1>2, <1>3
  <1>5. ToDo >= 2 * Rank + 1
    BY <1>1, <1>4 DEF ToDo
  <1>6. ToDo' <= 2 * Rank' + 2 /\ Rank' \in Int /\ ToDo' \in Int
    <2>1. Rank' \in Int
      <3>1. stepCount' \in Nat /\ MaxSteps \in Nat
        BY ToDoIsNumber DEF HostCore, TypeOK
      <3>2. QED
        BY <3>1 DEF Rank
    <2>2. \/ ToDo' = 2 * Rank' + 1 + 1
          \/ ToDo' = 2 * Rank' + 1 + 0
      BY <1>4 DEF ToDo
    <2>3. QED
      BY <2>1, <2>2
  <1>7. ToDo \in Int
    BY ToDoIsNumber
  <1>8. \A a, b, x, y \in Int : a < b /\ x <= 2 * a + 2 /\ y >= 2 * b + 1 => x < y
    OBVIOUS
  <1>9. Rank \in Int
    BY <1>1
  <1>10. QED
    BY <1>1, <1>5, <1>6, <1>7, <1>8, <1>9, Zenon

\* So does the tool call of a step: the handler then holds its result.
LEMMA CallTakes ==
  ASSUME HostCore, InHandler, reply = "none", NEW cap, NEW args, CallTool(cap, args)
  PROVE  ToDo' < ToDo
  <1>1. phase = "running" /\ pc = "execute" /\ Rank \in Nat /\ runs \in 0..1 /\ runs # 0
    BY ToDoIsNumber, HostsAssumption DEF InHandler, HostCore, TypeOK, ReplayInv
  <1>2. UNCHANGED <<phase, pc, runs, stepCount>> /\ reply' # "none"
    BY DEF CallTool, RequestTool
  <1>3. Rank' = Rank
    BY <1>2 DEF Rank
  <1>4. runs > 0 /\ runs' > 0
    BY <1>1, <1>2
  <1>5. ToDo = 2 * Rank + 2 /\ ToDo' = 2 * Rank + 1
    BY <1>1, <1>2, <1>3, <1>4 DEF ToDo
  <1>6. QED
    BY <1>1, <1>5

\* And everything else that a process does.
LEMMA ProcessTakes ==
  ASSUME HostCore, HostCore', TableInv, Process
  PROVE  ToDo' < ToDo
  <1>n. MaxSteps \in Nat /\ Rank \in Nat /\ ToDo \in Nat /\ (ToDo = 0 <=> phase = "over")
    BY ToDoIsNumber
  <1>u. phase # "over" /\ phase' = "over" => ToDo' < ToDo
    BY <1>n DEF ToDo
  <1>r. \A state \in HandlerStates : InHandler /\ HandlerReturns(state) => ToDo' < ToDo
    BY LoopTakes DEF InHandler, HandlerReturns, Running
  <1>c. \A cap, args : InHandler /\ reply = "none" /\ CallTool(cap, args) => ToDo' < ToDo
    BY CallTakes
  <1>d. "DONE" \in HandlerStates /\ "FAILED" \in HandlerStates
    BY HostsAssumption
  <1>1. CASE CreateTable \/ SeedTable
    <2>1. \/ phase = "start" /\ phase' = "created"
          \/ phase = "created" /\ phase' = "seeded"
      BY <1>1 DEF CreateTable, SeedTable
    <2>2. QED
      BY <1>n, <2>1 DEF ToDo, SetUpLeft
  <1>2. CASE SetUpFails \/ LoadFails \/ Exit
    BY <1>2, <1>u DEF SetUpFails, LoadFails, ReadyToLoad, Exit
  <1>3. CASE Build
    <2>1. phase \in {"start", "seeded"} /\ phase' = "running" /\ runs' = runs
      BY <1>3 DEF Build, ReadyToLoad, execVars
    <2>2. runs = 0
      BY <2>1 DEF HostCore, HostInv
    <2>3. ToDo' = 4 * MaxSteps + 4 /\ ToDo = 4 * MaxSteps + 4 + SetUpLeft
      BY <2>1, <2>2, <1>n DEF ToDo, SetUpLeft
    <2>4. SetUpLeft \in {1, 3}
      BY <2>1 DEF SetUpLeft
    <2>5. QED
      BY <1>n, <2>3, <2>4
  <1>4. CASE Drive
    <2>1. phase = "running" /\ phase' = "running"
      BY <1>4 DEF Drive, hostVars
    <2>2. CASE BeginStep
      BY <2>1, <2>2, LoopTakes DEF Running
    <2>3. CASE StartRun \/ RefuseRun
      <3>1. /\ runs < MaxRuns /\ runs' = runs + 1 /\ pc = "idle"
            /\ \/ pc' = "top" /\ stepCount' = 0
               \/ pc' = "idle"
        BY <2>3 DEF StartRun, RefuseRun
      <3>2. runs = 0 /\ runs' = 1
        BY <3>1, HostsAssumption DEF HostCore, TypeOK
      <3>3. Rank' = 0 \/ Rank' = 2 * MaxSteps + 1
        BY <3>1, <1>n DEF Rank
      <3>4. ToDo' = 2 * Rank' + 1
        BY <1>n, <2>1, <3>1, <3>2, <3>3 DEF ToDo
      <3>5. ToDo = 4 * MaxSteps + 4
        BY <1>n, <2>1, <3>2 DEF ToDo, SetUpLeft
      <3>6. QED
        BY <1>n, <3>3, <3>4, <3>5
    <2>4. QED
      BY <1>4, <2>2, <2>3 DEF Drive
  <1>5. CASE SimpleReturns \/ DemoCondition \/ DemoReturns \/ LlmReturns
    BY <1>5, <1>r, <1>d DEF SimpleReturns, DemoCondition, DemoReturns, LlmReturns
  <1>6. CASE config.host = "db_demo" /\ DemoCalls
    <2>1. InHandler /\ reply # "failure" /\ Node.condition = None
      BY <1>6 DEF DemoCalls
    <2>2. PICK k \in NextDbCall :
             CallTool(ParseCapability(Node.capabilities_declared[k]),
                      DemoArgs(ParseCapability(Node.capabilities_declared[k]).action))
      BY <1>6 DEF DemoCalls
    <2>3. reply = "none"
      <3>1. /\ k \in DOMAIN Node.capabilities_declared /\ k > at
            /\ IsDbCall(Node.capabilities_declared[k])
        BY DEF NextDbCall
      <3>2. at # 0 => at \in DOMAIN Node.capabilities_declared
                      /\ IsDbCall(Node.capabilities_declared[at])
        BY <1>6, <2>1 DEF TableInv, InHandler
      <3>3. currentId \in DOMAIN Nodes
        BY <2>1 DEF HostCore, TypeOK, InHandler
      <3>4. at # 0 => at = k /\ at \in Nat
        BY <1>6, <2>1, <3>1, <3>2, <3>3, OneDbCall DEF HostCore
      <3>5. at = 0
        BY <3>1, <3>4
      <3>6. QED
        BY <1>6, <2>1, <3>5 DEF TableInv, InHandler
    <2>4. QED
      BY <2>1, <2>2, <2>3, <1>c
  <1>7. ASSUME NEW decision \in Decisions, LlmDecides(decision)
        PROVE  ToDo' < ToDo
    <2>1. InHandler /\ reply = "none"
      BY <1>7 DEF LlmDecides
    <2>2. CASE HandlerReturns("DONE") \/ HandlerReturns("FAILED")
      BY <2>1, <2>2, <1>r, <1>d
    <2>3. CASE HandlerRaises /\ UNCHANGED hostVars
      BY <2>1, <2>3, LoopTakes DEF InHandler, hostVars, Running
    <2>4. CASE CallTool(decision.cap, decision.args)
      BY <2>1, <2>4, <1>c
    <2>5. QED
      BY <1>7, <2>2, <2>3, <2>4 DEF LlmDecides
  <1>8. QED
    BY <1>1, <1>2, <1>3, <1>4, <1>5, <1>6, <1>7
       DEF Process, SopvmRun, NodeCall, DbDemo, LlmDemo, Executing

\* The measure behind HostEnds: whatever the procedure, the model and SQLite do, every
\* step that a process takes leaves it with less to do, and it has nothing left to do
\* only when it is over.  (That fairness then ends it is what TLC checks.)
THEOREM ProgramsWindDown ==
  HostSpec => [][/\ ToDo \in Nat /\ ToDo' \in Nat
                 /\ ToDo = 0 <=> phase = "over"
                 /\ Process => ToDo' < ToDo]_allVars
  <1> DEFINE ToDoInv == ToDo \in Nat /\ (ToDo = 0 <=> phase = "over")
  <1>1. HostCore => ToDoInv
    BY ToDoIsNumber
  <1>2. ToDoInv /\ ToDoInv' /\ HostCore /\ HostCore' /\ TableInv
          => [/\ ToDo \in Nat /\ ToDo' \in Nat
              /\ ToDo = 0 <=> phase = "over"
              /\ Process => ToDo' < ToDo]_allVars
    BY ProcessTakes
  <1> HIDE DEF ToDoInv
  <1>3. HostSpec => []HostCore
    <2>1. HostCore /\ [HostNext]_allVars => HostCore'
      BY HostCoreStep
    <2>2. QED
      BY <2>1, HostCoreInit, PTL DEF HostSpec
  <1>4. QED
    BY <1>1, <1>2, <1>3, TableInvariant, PTL DEF HostSpec
=============================================================================
