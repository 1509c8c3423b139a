-------------------------- MODULE DeploymentProofs --------------------------
(***************************************************************************)
(* What compiling guarantees at run time, for every procedure, policy,     *)
(* handler and number of runs, with the executor knowing the policy or not.*)
(***************************************************************************)
EXTENDS Deployment, ExecutorProofs

\* What the executor is given.
LEMMA CompiledConfig ==
  ASSUME NEW c \in Configs
  PROVE  /\ c.program.entry \in DOMAIN c.program.nodes
         /\ c.program.ir_version \in SupportedIrVersions
         /\ DOMAIN c.program.nodes = Ids(c.source)
         /\ c.program = CompileSop(c.source, c.ceiling)
         /\ CompileError(c.source, c.ceiling) = None
  <1>1. /\ 1 \in DOMAIN c.source.steps
        /\ CompileError(c.source, c.ceiling) = None
        /\ c.program = CompileSop(c.source, c.ceiling)
    BY DeploymentAssumption
  <1>2. c.source.steps[1].id \in Ids(c.source)
    BY <1>1 DEF Ids
  <1>3. QED
    BY <1>1, <1>2, CompiledShape DEF SupportedIrVersions

\* What the executor finds paged is grammatical, within the policy of the
\* compilation, and asked for by the step of the procedure.
LEMMA PagedOfConfig ==
  ASSUME NEW c \in Configs, NEW n \in DOMAIN c.program.nodes,
         NEW i \in DOMAIN c.program.nodes[n].capabilities_paged
  PROVE  LET cap == c.program.nodes[n].capabilities_paged[i]
         IN  /\ Grammatical(cap)
             /\ WithinPolicy(ParseCapability(cap), LoadPolicy(c.ceiling))
             /\ i \in DOMAIN StepOf(c.source, n).requires
             /\ cap = StepOf(c.source, n).requires[i]
  BY CompiledConfig, PagingNarrows

\* Under no policy or that of the compilation, the executor accepts the program.
LEMMA NeverRefused ==
  ASSUME NEW c \in Configs, c.policy \in {None, LoadPolicy(c.ceiling)}
  PROVE  PagedWithinPolicy(c)
  BY PagedOfConfig DEF PagedWithinPolicy, AllPagedWithin

\* Parsing a paged capability never fails.
LEMMA GateNeverRaises ==
  ASSUME NEW c \in Configs, NEW n \in DOMAIN c.program.nodes, NEW cap
  PROVE  GateVerdict(cap, c.program.nodes[n]) \in {"granted", "denied"}
  <1> DEFINE paged == c.program.nodes[n].capabilities_paged
  <1>1. \A i \in DOMAIN paged : Grammatical(paged[i])
    BY PagedOfConfig
  <1> HIDE DEF paged
  <1>2. QED
    BY <1>1 DEF GateVerdict, paged

-----------------------------------------------------------------------------
\* The executor is always at a step that exists.
DeploymentInv ==
    /\ pc = "top" => currentId \in DOMAIN Nodes
    /\ CompiledCeiling
    /\ CompiledProgramsRun

\* What an action has to do that calls no tool.
LEMMA NoCallMade ==
  ASSUME TypeOK, DeploymentInv,
         config' = config, lastCall' = lastCall,
         pc' = "top" => currentId' \in DOMAIN Nodes,
         result' # Raised("step_not_found"), result' # Raised("unsupported_version"),
         config.policy \in {None, LoadPolicy(config.ceiling)} =>
             result' # Raised("paged_outside_policy")
  PROVE  DeploymentInv'
  BY DEF DeploymentInv, CompiledCeiling, CompiledProgramsRun, Nodes, Requires

\* A tool call: the gate grants only what a paged capability covers, and that lies
\* within the policy.
LEMMA CallIsCovered ==
  ASSUME TypeOK, DeploymentInv, NEW sid \in closures, NEW cap \in Requests,
         RequestTool(sid, cap)
  PROVE  DeploymentInv'
  <1>1. /\ config \in Configs /\ sid \in DOMAIN Nodes
        /\ config' = config /\ pc' = pc /\ currentId' = currentId /\ result' = result
        /\ lastCall'.requested = cap /\ lastCall'.step_id = sid
    BY DEF TypeOK, RequestTool
  <1> DEFINE gate == GateVerdict(cap, Nodes[sid])
  <1>2. gate \in {"granted", "denied"}
    BY <1>1, GateNeverRaises DEF Nodes
  <1>3. lastCall'.verdict = IF gate # "granted" THEN gate
                            ELSE IF config.registry THEN Route(cap) ELSE "stub"
    BY DEF RequestTool
  <1>4. Route(cap) \in {"no_provider", "wrap_error", "undeclared", "invoked"}
    BY DEF Route
  <1>5. lastCall'.verdict # "grammar_error"
    <2> HIDE DEF gate
    <2>1. QED
      BY <1>2, <1>3, <1>4
  <1>6. ASSUME lastCall'.verdict \in GrantedVerdicts
        PROVE  /\ WithinPolicy(cap, LoadPolicy(config.ceiling))
               /\ \E i \in DOMAIN Requires(sid) :
                      Satisfies(cap, ParseCapability(Requires(sid)[i]))
    <2>1. gate = "granted"
      <3> HIDE DEF gate
      <3>1. QED
        BY <1>2, <1>3, <1>6 DEF GrantedVerdicts
    <2> DEFINE paged == Nodes[sid].capabilities_paged
    <2>2. PICK i \in DOMAIN paged : Satisfies(cap, ParseCapability(paged[i]))
      BY <2>1, GateGrants
    <2>3. /\ WithinPolicy(ParseCapability(paged[i]), LoadPolicy(config.ceiling))
          /\ i \in DOMAIN Requires(sid) /\ paged[i] = Requires(sid)[i]
      BY <1>1, PagedOfConfig DEF Nodes, Requires
    <2>4. \A t \in LoadPolicy(config.ceiling) : FlatToken(t)
      BY <1>1, DeploymentAssumption
    <2> HIDE DEF paged
    <2>5. QED
      BY <2>2, <2>3, <2>4, GrantsStayWithinPolicy
  <1>7. Requires(sid)' = Requires(sid)
    BY <1>1 DEF Requires
  <1>8. CompiledCeiling'
    BY <1>1, <1>6, <1>7 DEF CompiledCeiling, Requires
  <1>9. QED
    BY <1>1, <1>5, <1>8 DEF DeploymentInv, CompiledProgramsRun, Nodes

\* The step after this one exists.
LEMMA NextStepExists ==
  ASSUME TypeOK, pc = "execute", ~ Node.terminal, NEW state, NextStep(state) # None
  PROVE  NextStep(state) \in DOMAIN Nodes
  <1>1. config \in Configs /\ currentId \in DOMAIN Nodes
    BY DEF TypeOK
  <1>2. /\ DOMAIN Nodes = Ids(config.source)
        /\ config.program = CompileSop(config.source, config.ceiling)
        /\ CompileError(config.source, config.ceiling) = None
    BY <1>1, CompiledConfig DEF Nodes
  <1>3. /\ \A e \in DOMAIN Node.edges : Node.edges[e] \in DOMAIN Nodes
        /\ Node.loop # None => Node.on_limit \in DOMAIN Nodes \cup {None}
    BY <1>1, <1>2, EdgesLeadToSteps DEF Node, Nodes
  <1>4. QED
    BY <1>3 DEF NextStep, AtLimit

\* DeploymentInv holds for every procedure and policy that compile.
LEMMA DeploymentInvariant == Spec => []DeploymentInv
  <1>1. Init => DeploymentInv
    BY RaisedDiffer DEF Init, DeploymentInv, CompiledCeiling, CompiledProgramsRun, NoCall,
       GrantedVerdicts, Verdicts
  <1>2. ASSUME TypeOK, DeploymentInv, [Next]_vars
        PROVE  DeploymentInv'
    <2>c. config \in Configs
      BY <1>2 DEF TypeOK
    <2>r. /\ \A e : Raised(e) # NoResult
          /\ \A e, f : Raised(e) = Raised(f) => e = f
          /\ \A e, s, v : Raised(e) # Returned(s, v)
      BY RaisedDiffer
    <2>o. /\ result # Raised("step_not_found") /\ result # Raised("unsupported_version")
          /\ config.policy \in {None, LoadPolicy(config.ceiling)} =>
                 result # Raised("paged_outside_policy")
      BY <1>2 DEF DeploymentInv, CompiledProgramsRun
    <2>1. CASE StartRun
      <3>1. /\ config' = config /\ lastCall' = lastCall /\ result' = NoResult
            /\ currentId' = config.program.entry
        BY <2>1 DEF StartRun
      <3>2. QED
        BY <1>2, <2>c, <2>r, <3>1, NoCallMade, CompiledConfig DEF Nodes
    <2>2. CASE RefuseRun
      <3>1. /\ config' = config /\ lastCall' = lastCall /\ pc' = "idle"
            /\ result' = Raised("unsupported_version") =>
                   config.program.ir_version \notin SupportedIrVersions
            /\ result' = Raised("paged_outside_policy") => ~ PagedWithinPolicy(config)
            /\ result' # Raised("step_not_found")
        BY <2>2, <2>r DEF RefuseRun
      <3>2. QED
        BY <1>2, <2>c, <3>1, NoCallMade, CompiledConfig, NeverRefused
    <2>3. CASE BeginStep
      <3>1. /\ config' = config /\ lastCall' = lastCall /\ pc' # "top"
            /\ currentId \in DOMAIN Nodes
        BY <1>2, <2>3 DEF BeginStep, DeploymentInv
      <3>2. result' = result \/ result' = Raised("step_limit")
        BY <2>3, <3>1 DEF BeginStep
      <3>3. QED
        BY <1>2, <2>o, <2>r, <3>1, <3>2, NoCallMade
    <2>4. ASSUME NEW sid \in closures, NEW cap \in Requests, RequestTool(sid, cap)
          PROVE  DeploymentInv'
      BY <1>2, <2>4, CallIsCovered
    <2>5. ASSUME NEW r \in HandlerStates, StepReturns(r)
          PROVE  DeploymentInv'
      <3>1. config' = config /\ lastCall' = lastCall /\ pc = "execute"
        BY <2>5 DEF StepReturns
      <3>2. CASE Complete(r)
        <4>1. pc' = "idle" /\ \E s, v : result' = Returned(s, v)
          BY <3>2 DEF Complete
        <4>2. QED
          BY <1>2, <2>r, <3>1, <4>1, NoCallMade
      <3>3. CASE Advance(r)
        <4>1. /\ pc' = "top" =>
                    /\ ~ Node.terminal /\ NextStep(Effective(r)) # None
                    /\ currentId' = NextStep(Effective(r))
              /\ \/ result' = result \/ result' = Raised("loop_limit")
                 \/ result' = Raised("missing_edge")
          BY <3>3 DEF Advance
        <4>2. pc' = "top" => currentId' \in DOMAIN Nodes
          BY <1>2, <3>1, <4>1, NextStepExists
        <4>3. QED
          BY <1>2, <2>o, <2>r, <3>1, <4>1, <4>2, NoCallMade
      <3>4. QED
        BY <2>5, <3>2, <3>3 DEF StepReturns
    <2>6. CASE HandlerRaises
      <3>1. /\ config' = config /\ lastCall' = lastCall /\ pc' = "idle"
            /\ result' = Raised("handler")
        BY <2>6 DEF HandlerRaises
      <3>2. QED
        BY <1>2, <2>r, <3>1, NoCallMade
    <2>7. CASE UNCHANGED execVars
      <3>1. /\ config' = config /\ lastCall' = lastCall /\ pc' = pc
            /\ currentId' = currentId /\ result' = result
        BY <2>7 DEF execVars
      <3>2. QED
        BY <1>2, <2>o, <3>1, NoCallMade DEF DeploymentInv
    <2>8. QED
      BY <1>2, <2>1, <2>2, <2>3, <2>4, <2>5, <2>6, <2>7 DEF Next, vars
  <1>3. QED
    BY <1>1, <1>2, TypeCorrect, PTL DEF Spec

\* The policy of the compilation bounds every call of every run, even of an
\* executor that knows no policy.
THEOREM CompilationBoundsCalls == Spec => []CompiledCeiling
  BY DeploymentInvariant, PTL DEF DeploymentInv

\* Compiled programs never meet the executor's guards against malformed ones.
THEOREM CompilationIsComplete == Spec => []CompiledProgramsRun
  BY DeploymentInvariant, PTL DEF DeploymentInv
=============================================================================
