------------------------------ MODULE Executor ------------------------------
(***************************************************************************)
(* One Executor object (src/sopvm/runtime/executor.py) with its gate       *)
(* (gate.py) and its provider registry, over one or more calls of run().   *)
(*                                                                         *)
(* The executor is single-threaded; what interleaves with it are the       *)
(* callbacks.  Between "step_started" and the return of handler.execute    *)
(* the handler may call request_tool as often as it likes, the embedding   *)
(* program may register providers and providers may change what they       *)
(* declare.  Failures of on_event and of the sink are swallowed by _emit,  *)
(* so "events" is the sequence of events offered to them.                  *)
(***************************************************************************)
EXTENDS Registry, Ir, FiniteSets

CONSTANTS
    Configs,          \* the arguments of Executor(): program, policy, registry
    Requests,         \* the tokens a handler may ask for
    HandlerStates,    \* the states handler.execute may return
    RetainClosures,   \* may a handler call request_tool closures of earlier steps?
    MaxSteps,         \* the argument max_steps
    MaxRuns,          \* bound: calls of run() on this object
    MaxCalls          \* bound: tool calls within one step, or between two runs

(* Step ids are strings, so None is none of them; nor is it a Violation.  The *)
(* policy is what load_policy returns: parsed tokens, whose params are flat.  *)
ASSUME ExecutorAssumption ==
    /\ MaxSteps \in Nat /\ MaxRuns \in Nat /\ MaxCalls \in Nat
    /\ RetainClosures \in BOOLEAN
    /\ HandlerStates \subseteq {"PENDING", "RUNNING", "DONE", "FAILED", "DENIED"}
    /\ \A c \in Configs :
           /\ None \notin DOMAIN c.program.nodes
           /\ \A n \in DOMAIN c.program.nodes, r \in Requests :
                  None # [step_id |-> n, requested |-> r]
           /\ c.policy # None => \A t \in c.policy : FlatToken(t)

StepStates == {"PENDING", "RUNNING", "DONE", "FAILED", "DENIED"}
EventTypes == {"run_started", "run_completed", "step_started", "step_completed",
               "step_failed", "capability_granted", "capability_denied"}

VARIABLES
    config,             \* [program, policy, registry], fixed when constructed
    loopCounts,         \* self._loop_counts
    currentViolation,   \* self._current_violation
    pc,                 \* "idle", "top" (of the loop) or "execute" (in the handler)
    runs,               \* calls of run() so far
    currentId, path, stepCount,   \* the locals of run()
    events,             \* what _emit was called with under this run_id
    result,             \* how the last run() ended
    closures,           \* the steps a request_tool closure was built for
    lastCall,           \* the last request_tool call and what became of it
    calls               \* tool calls since control was last with the caller

execVars == <<config, loopCounts, currentViolation, pc, runs, currentId, path,
              stepCount, events, result, closures, lastCall, calls>>
vars == <<execVars, regVars>>

-----------------------------------------------------------------------------
Nodes == config.program.nodes
Node  == Nodes[currentId]

Event(type, step) == [event |-> type, step_id |-> step]

NoCall    == [verdict |-> "none"]
NoResult  == [status |-> "none", state |-> None, violation |-> None]
Raised(e) == [status |-> "raised", state |-> e, violation |-> None]
Returned(state, violation) ==
    [status |-> "returned", state |-> state, violation |-> violation]

(* The gate. *)

\* Slip: the gate compares namespace and action only.
GateVerdictByName(requested, node) ==
    IF \E i \in DOMAIN node.capabilities_paged :
           /\ Grammatical(node.capabilities_paged[i])
           /\ KeyOf(ParseCapability(node.capabilities_paged[i])) = KeyOf(requested)
    THEN "granted" ELSE "denied"

\* check_call parses the paged strings one by one and stops at the first that
\* admits the request; parsing a malformed one before that raises.
GateVerdict(requested, node) ==
    LET paged == node.capabilities_paged
        admits(i) == Grammatical(paged[i]) /\ Satisfies(requested, ParseCapability(paged[i]))
        stops(i) == admits(i) \/ ~ Grammatical(paged[i])
        first == {i \in DOMAIN paged :
                     stops(i) /\ \A j \in DOMAIN paged : j < i => ~ stops(j)}
    IN  IF first = {} THEN "denied"
        ELSE IF \E i \in first : admits(i) THEN "granted" ELSE "grammar_error"

\* _validate_paged_capabilities: with a policy, every paged capability of every
\* node lies within it; without one nothing is checked.
PagedWithinPolicy(c) == c.policy # None => AllPagedWithin(c.program, c.policy)

-----------------------------------------------------------------------------
Init ==
    /\ RegInit
    /\ config \in Configs
    /\ loopCounts = [n \in DOMAIN Nodes |-> 0]
    /\ currentViolation = None
    /\ pc = "idle" /\ runs = 0
    /\ currentId = None /\ path = <<>> /\ stepCount = 0
    /\ events = <<>> /\ result = NoResult
    /\ closures = {} /\ lastCall = NoCall /\ calls = 0

\* Slip: the step count is not reset.
StartRunGoesOnCounting ==
    /\ pc = "idle" /\ runs < MaxRuns
    /\ config.program.ir_version \in SupportedIrVersions
    /\ PagedWithinPolicy(config)
    /\ runs' = runs + 1
    /\ pc' = "top"
    /\ currentId' = config.program.entry
    /\ path' = <<>>
    /\ events' = <<Event("run_started", "")>>
    /\ result' = NoResult
    /\ UNCHANGED <<config, loopCounts, currentViolation, stepCount, closures, lastCall, calls,
                   regVars>>

\* run() up to the loop.  Nothing resets the object's own attributes.
StartRun ==
    /\ pc = "idle" /\ runs < MaxRuns
    /\ config.program.ir_version \in SupportedIrVersions
    /\ PagedWithinPolicy(config)
    /\ runs' = runs + 1
    /\ pc' = "top"
    /\ currentId' = config.program.entry
    /\ path' = <<>> /\ stepCount' = 0
    /\ events' = <<Event("run_started", "")>>
    /\ result' = NoResult
    /\ UNCHANGED <<config, loopCounts, currentViolation, closures, lastCall, calls, regVars>>

\* run() raises before it has emitted anything or taken a run_id.
RefuseRun ==
    /\ pc = "idle" /\ runs < MaxRuns
    /\ runs' = runs + 1
    /\ \/ /\ config.program.ir_version \notin SupportedIrVersions
          /\ result' = Raised("unsupported_version")
       \/ /\ config.program.ir_version \in SupportedIrVersions
          /\ ~ PagedWithinPolicy(config)
          /\ result' = Raised("paged_outside_policy")
    /\ UNCHANGED <<config, loopCounts, currentViolation, pc, currentId, path, stepCount,
                   events, closures, lastCall, calls, regVars>>

-----------------------------------------------------------------------------
\* Slips: steps that do not exist are entered; a run over the limit goes round
\* the loop instead of raising.
BeginUnknownStep ==
    /\ pc = "top" /\ stepCount < MaxSteps
    /\ path' = Append(path, currentId)
    /\ stepCount' = stepCount + 1
    /\ pc' = "execute"
    /\ events' = Append(events, Event("step_started", currentId))
    /\ closures' = closures \cup {currentId}
    /\ calls' = 0
    /\ UNCHANGED <<config, loopCounts, currentViolation, runs, currentId, result, lastCall,
                   regVars>>

BeginStepOrSpin == currentId \in DOMAIN Nodes /\ BeginUnknownStep

\* The top of the loop.  The step is on the path and counted before the limit
\* is compared.
BeginStep ==
    /\ pc = "top"
    /\ \/ /\ currentId \notin DOMAIN Nodes
          /\ pc' = "idle" /\ result' = Raised("step_not_found")
          /\ UNCHANGED <<path, stepCount, events, closures>>
       \/ /\ currentId \in DOMAIN Nodes
          /\ path' = Append(path, currentId)
          /\ stepCount' = stepCount + 1
          /\ \/ /\ stepCount' > MaxSteps
                /\ pc' = "idle" /\ result' = Raised("step_limit")
                /\ UNCHANGED <<events, closures>>
             \/ /\ stepCount' <= MaxSteps
                /\ pc' = "execute"
                /\ events' = Append(events, Event("step_started", currentId))
                /\ closures' = closures \cup {currentId}
                /\ UNCHANGED result
    /\ calls' = 0
    /\ UNCHANGED <<config, loopCounts, currentViolation, runs, currentId, lastCall, regVars>>

\* request_tool(cap) of the closure built for step sid: of the current step, or
\* of any step since the object was built when handlers keep closures.
RequestTool(sid, cap) ==
    /\ calls < MaxCalls
    /\ \/ pc = "execute" /\ sid = currentId
       \/ pc # "top" /\ RetainClosures /\ sid \in closures
    /\ calls' = calls + 1
    /\ LET gate == GateVerdict(cap, Nodes[sid])
           verdict == IF gate # "granted" THEN gate
                      ELSE IF config.registry THEN Route(cap) ELSE "stub"
       IN /\ lastCall' = [verdict |-> verdict, step_id |-> sid, requested |-> cap]
          /\ CASE gate = "denied" ->
                    /\ currentViolation' = [step_id |-> sid, requested |-> cap]
                    /\ events' = Append(events, Event("capability_denied", sid))
               [] gate = "granted" ->
                    /\ events' = Append(events, Event("capability_granted", sid))
                    /\ UNCHANGED currentViolation
               [] OTHER -> UNCHANGED <<events, currentViolation>>
    /\ UNCHANGED <<config, loopCounts, pc, runs, currentId, path, stepCount, result,
                   closures, regVars>>

-----------------------------------------------------------------------------
(* handler.execute returns r; the rest of the loop body. *)

\* Slips: a denial does not count, or counts only against DONE.
EffectiveAsReturned(r) == r
EffectiveUnlessFailed(r) == IF currentViolation # None /\ r = "DONE" THEN "DENIED" ELSE r

\* A denial during the step overrides what the handler says.
Effective(r) == IF currentViolation # None THEN "DENIED" ELSE r

StepEvent(state) ==
    Event(IF state = "FAILED" THEN "step_failed" ELSE "step_completed", currentId)

\* Slip: the result of a denied run is built like that of any other.
CompleteWithoutRecord(r) ==
    /\ Effective(r) = "DENIED" \/ Node.terminal
    /\ events' = Append(Append(events, StepEvent(Effective(r))), Event("run_completed", ""))
    /\ result' = Returned(Effective(r), None)
    /\ pc' = "idle"
    /\ UNCHANGED <<currentId, loopCounts>>

Complete(r) ==
    /\ Effective(r) = "DENIED" \/ Node.terminal
    /\ events' = Append(Append(events, StepEvent(Effective(r))), Event("run_completed", ""))
    /\ result' = Returned(Effective(r),
                          IF Effective(r) = "DENIED" THEN currentViolation ELSE None)
    /\ pc' = "idle"
    /\ UNCHANGED <<currentId, loopCounts>>

LoopCount == loopCounts[currentId] + 1

\* Slips: one iteration too many; on_limit without a loop.
AfterLimit == Node.loop # None /\ LoopCount > Node.loop.value
LimitWithoutLoop ==
    Node.on_limit # None /\ (Node.loop # None => LoopCount >= Node.loop.value)

AtLimit == Node.loop # None /\ LoopCount >= Node.loop.value

\* on_limit on the last iteration, whatever the handler returned; otherwise the
\* edge of the state; None when the program has no such edge.
NextStep(state) ==
    LET edge == IF state = "DONE" THEN "on_success" ELSE "on_failure"
    IN  IF AtLimit THEN Node.on_limit
        ELSE IF edge \in DOMAIN Node.edges THEN Node.edges[edge] ELSE None

Advance(r) ==
    /\ Effective(r) # "DENIED" /\ ~ Node.terminal
    /\ events' = Append(events, StepEvent(Effective(r)))
    /\ loopCounts' = IF Node.loop # None
                     THEN [loopCounts EXCEPT ![currentId] = LoopCount] ELSE loopCounts
    /\ \/ /\ NextStep(Effective(r)) # None
          /\ currentId' = NextStep(Effective(r))
          /\ pc' = "top"
          /\ UNCHANGED result
       \/ /\ NextStep(Effective(r)) = None
          /\ pc' = "idle"
          /\ result' = Raised(IF AtLimit THEN "loop_limit" ELSE "missing_edge")
          /\ UNCHANGED currentId

StepReturns(r) ==
    /\ pc = "execute"
    /\ Complete(r) \/ Advance(r)
    /\ calls' = 0
    /\ UNCHANGED <<config, currentViolation, runs, path, stepCount, closures,
                   lastCall, regVars>>

\* An exception of the handler (its own, or one request_tool let through)
\* leaves run(): no event closes the step or the run.
HandlerRaises ==
    /\ pc = "execute"
    /\ pc' = "idle" /\ result' = Raised("handler") /\ calls' = 0
    /\ UNCHANGED <<config, loopCounts, currentViolation, runs, currentId, path, stepCount,
                   events, closures, lastCall, regVars>>

-----------------------------------------------------------------------------
\* The steps of run() that nothing but the handler's return holds up.
Running == BeginStep \/ (\E r \in HandlerStates : StepReturns(r)) \/ HandlerRaises

Next ==
    \/ StartRun
    \/ RefuseRun
    \/ BeginStep
    \/ \E sid \in closures, cap \in Requests : RequestTool(sid, cap)
    \/ \E r \in HandlerStates : StepReturns(r)
    \/ HandlerRaises
    \/ pc # "top" /\ RegNext /\ UNCHANGED execVars

Spec == Init /\ [][Next]_vars

\* handler.execute returns or raises in the end; the loop itself never waits.
FairSpec == Spec /\ WF_vars(Running)

-----------------------------------------------------------------------------
Violations == [step_id : DOMAIN Nodes, requested : Requests]

EventRecords == [event : EventTypes, step_id : DOMAIN Nodes \cup {""}]

Verdicts == {"denied", "grammar_error", "stub"} \cup
            {"no_provider", "wrap_error", "undeclared", "invoked"}

\* The attributes and locals of the executor hold what the class declares.
TypeOK ==
    /\ RegTypeOK
    /\ config \in Configs
    /\ loopCounts \in [DOMAIN Nodes -> Nat]
    /\ currentViolation \in Violations \cup {None}
    /\ pc \in {"idle", "top", "execute"}
    /\ pc = "execute" => currentId \in DOMAIN Nodes
    /\ runs \in 0..MaxRuns
    /\ path \in Seq(DOMAIN Nodes)
    /\ stepCount \in Nat
    /\ events \in Seq(EventRecords)
    /\ result.status \in {"none", "raised", "returned"}
    /\ result.status = "returned" =>
           result.state \in StepStates /\ result.violation \in Violations \cup {None}
    /\ closures \subseteq DOMAIN Nodes
    /\ lastCall = NoCall \/
           lastCall \in [verdict : Verdicts, step_id : DOMAIN Nodes, requested : Requests]
    /\ calls \in 0..MaxCalls

(* What tool calls may do. *)

GrantedVerdicts == Verdicts \ {"denied", "grammar_error"}

\* The policy is the ceiling of everything that happens: every call the gate
\* lets through lies within the policy the executor was given, although the
\* gate itself only looks at the paged capabilities of one step (gate.py:35)
\* and the policy was consulted once, before the run (executor.py:171).
PolicyCeiling ==
    lastCall.verdict \in GrantedVerdicts /\ config.policy # None =>
        WithinPolicy(lastCall.requested, config.policy)

\* A provider's invoke() only ever runs for a key which the provider declares
\* at that moment, whatever it declared when it was registered (sandbox.py:45),
\* and it is the provider the registry was last told to use for the key.
ProviderScope ==
    [][calls' > calls /\ lastCall'.verdict = "invoked" =>
          LET k == KeyOf(lastCall'.requested)
          IN  \E i \in DOMAIN registrations :
                  /\ k \in IndexedKeys(registrations[i].declared)
                  /\ Wrappable(registrations[i].provider)
                  /\ k \in DeclaredNow(registrations[i].provider)
                  /\ \A j \in DOMAIN registrations :
                         j > i => k \notin IndexedKeys(registrations[j].declared)]_vars

(* What a denial does to the run. *)

HasDenial(s) == \E i \in DOMAIN s : s[i].event = "capability_denied"

\* No step starts, and none is reported as failed, after a denial.
StopsAtDenial(s) ==
    \A i, j \in DOMAIN s :
        i < j /\ s[i].event = "capability_denied" =>
            s[j].event \notin {"step_started", "step_failed"}

DeniedInRun == HasDenial(events)

\* A denied call is a terminal fact (executor.py:252-272): no further step of
\* the run begins, whatever the handler does next, and if run() returns it
\* returns DENIED, whatever state the handler reported.
DenialEndsRun ==
    DeniedInRun =>
        /\ pc # "top"
        /\ result.status = "returned" => result.state = "DENIED"
        /\ StopsAtDenial(events)

\* A run reported DENIED carries its evidence: a denial event under its own
\* run_id, and a violation record naming the last step of its path
\* (executor.py:205 and 267-272).
DeniedHasEvidence ==
    result.status = "returned" /\ result.state = "DENIED" =>
        /\ DeniedInRun
        /\ result.violation # None
        /\ result.violation.step_id = path[Len(path)]

(* Path, loops and limits. *)

Starts == {"step_started"}
Closes == {"step_completed", "step_failed"}

\* How many of the first n events of s are of some types.
Told(s, types, n) == Cardinality({m \in 1..n : s[m].event \in types})

Visits(i) == Cardinality({j \in 1..i : path[j] = path[i]})

\* Where the i-th step of the path leads, from the event that closed it and the
\* program alone.
LeadsTo(i, closing) ==
    LET node == Nodes[path[i]]
        edge == IF closing = "step_completed" THEN "on_success" ELSE "on_failure"
    IN  IF node.loop # None /\ Visits(i) >= node.loop.value THEN node.on_limit
        ELSE IF edge \in DOMAIN node.edges THEN node.edges[edge] ELSE None

\* The run can be replayed from its telemetry: the path begins at the entry; the
\* i-th event that starts a step names the i-th step of the path, and all are
\* started but one more when the step limit strikes; the i-th event that closes
\* a step names the i-th step too, all but the last are closed, and each hop is
\* the one that the program, the closing event and the number of visits to the
\* step within this run call for (executor.py:187-197, 256-261, 283-305).
TelemetryExplainsPath ==
    /\ path # <<>> => path[1] = config.program.entry
    /\ Told(events, Starts, Len(events)) = IF Len(path) > MaxSteps THEN MaxSteps ELSE Len(path)
    /\ \A n \in DOMAIN events : events[n].event \in Starts =>
           events[n].step_id = path[Told(events, Starts, n)]
    /\ Told(events, Closes, Len(events)) \in {Len(path), Len(path) - 1}
    /\ \A n \in DOMAIN events : events[n].event \in Closes =>
           LET i == Told(events, Closes, n)
           IN  /\ events[n].step_id = path[i]
               /\ i < Len(path) => path[i + 1] = LeadsTo(i, events[n].event)

\* max_steps bounds the number of steps handed to the handler, and a run raises
\* for it only after it has used up all of them: the path then has one step more
\* than the handler has seen (executor.py:187-194).
StepBudget ==
    /\ pc # "idle" => stepCount = Len(path)
    /\ pc = "execute" => Len(path) \in 1..MaxSteps /\ path[Len(path)] = currentId
    /\ Len(path) <= MaxSteps \/ result = Raised("step_limit")
    /\ result = Raised("step_limit") => Len(path) = MaxSteps + 1

\* Every run() ends, cyclic program or not, provided the handler comes back from
\* every step (executor.py:190).
Termination == (pc # "idle") ~> (pc = "idle")

(* Refinement of RunLifecycle. *)

Phase ==
    IF pc = "idle" THEN "idle"
    ELSE IF pc = "top" THEN "between"
    ELSE IF DeniedInRun THEN "denied" ELSE "running"

Outcome == IF result.status = "returned" THEN result.state ELSE result.status

Lifecycle == INSTANCE RunLifecycle WITH phase <- Phase, outcome <- Outcome

\* The executor implements the lifecycle of a run.
ImplementsLifecycle == Lifecycle!Spec
=============================================================================
