----------------------------- MODULE CliProofs ------------------------------
(***************************************************************************)
(* What a passing check says of a compiled file, for all procedures and    *)
(* policies, however the files are edited between the commands.            *)
(***************************************************************************)
EXTENDS Cli, CommonProofs

\* The fields of a node in the compiled file.
LEMMA NodeFields ==
  ASSUME NEW doc, NEW file, NEW id \in Ids(doc)
  PROVE  DOMAIN CompileSop(doc, file).nodes[id] =
            {"capabilities_declared", "capabilities_paged", "edges", "terminal",
             "condition", "loop", "on_limit"}
  BY DEF CompileSop, ApplyPaging, Lower, LoweredNode

\* A value of the field loop comes back from JSON, unless <<n>> is read as None.
LEMMA LoopsComeBack ==
  ASSUME NEW loop, <<loop>> # None
  PROVE  LoopValue(LoopText(loop)) = loop
  BY DEF LoopValue, LoopText

\* The file gives back the program, but for what becomes of loops.
LEMMA FileGivesProgram ==
  ASSUME NEW doc, NEW file, NEW program, program = CompileSop(doc, file),
         NEW loaded, loaded = FromJson(ToJson(program))
  PROVE  /\ DOMAIN loaded.nodes = Ids(doc)
         /\ loaded.entry = program.entry
         /\ \A id \in Ids(doc) :
                LET node == program.nodes[id]
                    back == loaded.nodes[id]
                IN  /\ back.capabilities_declared = node.capabilities_declared
                    /\ back.capabilities_paged = node.capabilities_paged
                    /\ back.edges = node.edges
                    /\ back.terminal = node.terminal
                    /\ back.condition = node.condition
                    /\ back.on_limit = node.on_limit
                    /\ back.loop = LoopValue(LoopText(node.loop))
                    /\ back.loop # None => node.loop # None
  <1>1. /\ DOMAIN program.nodes = Ids(doc)
        /\ DOMAIN program = {"ir_version", "entry", "nodes"}
    BY DEF CompileSop, ApplyPaging, Lower
  <1> DEFINE text == ToJson(program)
  <1>2. /\ DOMAIN text = {"ir_version", "entry", "nodes"}
        /\ text.entry = program.entry
        /\ text.nodes = [id \in Ids(doc) |->
                           [program.nodes[id] EXCEPT !.loop = LoopText(program.nodes[id].loop)]]
    BY <1>1 DEF ToJson, WithNodeLoops
  <1> HIDE DEF text
  <1>3. /\ loaded.entry = program.entry
        /\ loaded.nodes = [id \in Ids(doc) |->
                             [text.nodes[id] EXCEPT !.loop = LoopValue(text.nodes[id].loop)]]
    BY <1>2 DEF FromJson, WithNodeLoops, text
  <1>4. ASSUME NEW id \in Ids(doc)
        PROVE  LET node == program.nodes[id]
                   back == loaded.nodes[id]
               IN  /\ back.capabilities_declared = node.capabilities_declared
                   /\ back.capabilities_paged = node.capabilities_paged
                   /\ back.edges = node.edges
                   /\ back.terminal = node.terminal
                   /\ back.condition = node.condition
                   /\ back.on_limit = node.on_limit
                   /\ back.loop = LoopValue(LoopText(node.loop))
                   /\ back.loop # None => node.loop # None
    <2> DEFINE node == program.nodes[id]
    <2>1. DOMAIN node = {"capabilities_declared", "capabilities_paged", "edges",
                         "terminal", "condition", "loop", "on_limit"}
      BY NodeFields
    <2>a. text.nodes[id] = [node EXCEPT !.loop = LoopText(node.loop)]
      BY <1>2
    <2>b. loaded.nodes[id] = [text.nodes[id] EXCEPT !.loop = LoopValue(text.nodes[id].loop)]
      BY <1>3
    <2> HIDE DEF node
    <2>2. loaded.nodes[id] =
            [[node EXCEPT !.loop = LoopText(node.loop)]
                EXCEPT !.loop = LoopValue([node EXCEPT !.loop = LoopText(node.loop)].loop)]
      BY <2>a, <2>b
    <2>3. /\ [node EXCEPT !.loop = LoopText(node.loop)].loop = LoopText(node.loop)
          /\ loaded.nodes[id] = [node EXCEPT !.loop = LoopValue(LoopText(node.loop))]
      BY <2>1, <2>2
    <2>4. node.loop = None => LoopValue(LoopText(node.loop)) = None
      BY DEF LoopValue, LoopText
    <2>5. QED
      BY <2>1, <2>3, <2>4 DEF node
  <1>5. QED
    BY <1>3, <1>4

-----------------------------------------------------------------------------
\* The compiled file, as long as nobody edits it, is what compile_sop made of the
\* procedure; a check that has just passed has found nothing.
CliInv ==
    /\ sop \in Documents
    /\ Compiled => CompileError(sop, built) = None /\ ir = ToJson(CompileSop(sop, built))
    /\ ~ Compiled /\ ~ edited => ir \in {None, Torn}
    /\ Passed => ir \notin {None, Torn} /\ CheckViolations(Program, LoadPolicy(policy)) = {}

\* CliInv holds whatever is compiled, checked and edited, in whatever order.
LEMMA CliInvariant == Spec => []CliInv
  <1>1. Init => CliInv
    BY DEF Init, CliInv, Compiled, Passed, NoCommand
  <1>2. ASSUME CliInv, [Next]_cliVars
        PROVE  CliInv'
    <2>1. CASE Compile
      <3>1. CompileError(sop, policy) = None => policy # None
        BY PassesSucceeded, NoneAssumption DEF PolicyError, Exceptions
      <3>2. QED
        BY <1>2, <2>1, <3>1 DEF Compile, CliInv, Compiled, Passed, Program, Exit
    <2>7. CASE CompileDies
      BY <1>2, <2>7 DEF CompileDies, CliInv, Compiled, Passed, Program, Exit
    <2>2. CASE Check
      <3>1. UNCHANGED <<sop, policy, ir, built, edited>>
        BY <2>2 DEF Check
      <3>2. Passed' => ir \notin {None, Torn} /\ CheckViolations(Program, LoadPolicy(policy)) = {}
        BY <2>2 DEF Check, Passed, Program, Exit, Loads
      <3>3. QED
        BY <1>2, <3>1, <3>2 DEF CliInv, Compiled, Program
    <2>3. ASSUME NEW file \in PolicyFiles, EditPolicy(file)
          PROVE  CliInv'
      BY <1>2, <2>3 DEF EditPolicy, CliInv, Compiled, Passed, Program, NoCommand
    <2>4. ASSUME NEW text \in EditedIrs, EditIr(text)
          PROVE  CliInv'
      BY <1>2, <2>4 DEF EditIr, CliInv, Compiled, Passed, Program, NoCommand
    <2>5. CASE UNCHANGED cliVars
      BY <1>2, <2>5 DEF cliVars, CliInv, Compiled, Passed, Program
    <2>6. QED
      BY <1>2, <2>1, <2>2, <2>3, <2>4, <2>5, <2>7 DEF Next
  <1>3. QED
    BY <1>1, <1>2, PTL DEF Spec

\* A check that passes on a file nobody edited has read a whole compiled program,
\* and bounds what a run of it can be granted, by the policy of the check.
THEOREM PassingCheckBoundsRuns == Spec => []CheckIsSound
  <1>1. ASSUME CliInv, Compiled, Passed
        PROVE  AllPagedWithin(Program, LoadPolicy(policy))
    <2> DEFINE program == CompileSop(sop, built)
    <2>1. CompileError(sop, built) = None /\ Program = FromJson(ToJson(program))
      BY <1>1 DEF CliInv, Program
    <2>2. /\ DOMAIN Program.nodes = Ids(sop)
          /\ \A id \in Ids(sop) :
                 /\ Program.nodes[id].capabilities_declared = StepOf(sop, id).requires
                 /\ Program.nodes[id].capabilities_paged = program.nodes[id].capabilities_paged
      BY <2>1, FileGivesProgram, CompiledNode
    <2>3. CheckViolations(Program, LoadPolicy(policy)) = {}
      BY <1>1 DEF CliInv
    <2>4. ASSUME NEW id \in Ids(sop), NEW i \in DOMAIN StepOf(sop, id).requires
          PROVE  Allowed(StepOf(sop, id).requires[i], LoadPolicy(policy))
      <3> DEFINE v == [step_id |-> id, requested |-> StepOf(sop, id).requires[i]]
                 W(n) == {[step_id |-> n, requested |-> Program.nodes[n].capabilities_declared[k]] :
                            k \in {j \in DOMAIN Program.nodes[n].capabilities_declared :
                                     ~ Allowed(Program.nodes[n].capabilities_declared[j],
                                               LoadPolicy(policy))}}
      <3>1. CheckViolations(Program, LoadPolicy(policy)) = UNION {W(n) : n \in Ids(sop)}
        BY <2>2 DEF CheckViolations
      <3>2. W(id) = {}
        BY <3>1, <2>3
      <3>3. ~ Allowed(StepOf(sop, id).requires[i], LoadPolicy(policy)) => v \in W(id)
        BY <2>2, <2>4
      <3>4. QED
        BY <3>2, <3>3
    <2>5. ASSUME NEW id \in Ids(sop), NEW i \in DOMAIN program.nodes[id].capabilities_paged
          PROVE  Allowed(program.nodes[id].capabilities_paged[i], LoadPolicy(policy))
      BY <2>1, <2>4, <2>5, PagingNarrows
    <2> HIDE DEF program
    <2>6. QED
      BY <2>2, <2>5 DEF AllPagedWithin, Allowed
  <1>2. CliInv => CheckIsSound
    BY <1>1 DEF CheckIsSound, CliInv
  <1>3. QED
    BY <1>2, CliInvariant, PTL

\* The file of a compiled program sends no run where there is no step.
THEOREM FilesLeadToSteps == Spec => []EveryWayLeadsToAStep
  <1>1. ASSUME CliInv, Compiled
        PROVE  EveryWayLeadsToAStep
    <2> DEFINE program == CompileSop(sop, built)
    <2>1. /\ CompileError(sop, built) = None /\ Program = FromJson(ToJson(program))
          /\ sop \in Documents
      BY <1>1 DEF CliInv, Program
    <2>2. DOMAIN Program.nodes = Ids(sop) /\ Program.entry = sop.steps[1].id
      BY <2>1, FileGivesProgram, CompiledShape
    <2>3. sop.steps[1].id \in Ids(sop)
      BY <2>1, PassesSucceeded, CliAssumption DEF Ids
    <2>4. ASSUME NEW n \in Ids(sop), ~ Program.nodes[n].terminal
          PROVE  /\ \A e \in DOMAIN Program.nodes[n].edges :
                       Program.nodes[n].edges[e] \in Ids(sop)
                 /\ Program.nodes[n].loop # None =>
                       Program.nodes[n].on_limit \in Ids(sop) \cup {None}
      <3>1. /\ Program.nodes[n].edges = program.nodes[n].edges
            /\ Program.nodes[n].terminal = program.nodes[n].terminal
            /\ Program.nodes[n].on_limit = program.nodes[n].on_limit
            /\ Program.nodes[n].loop # None => program.nodes[n].loop # None
        BY <2>1, FileGivesProgram
      <3>2. QED
        BY <2>1, <2>4, <3>1, EdgesLeadToSteps
    <2> HIDE DEF program
    <2>5. QED
      BY <2>2, <2>3, <2>4 DEF EveryWayLeadsToAStep
  <1>2. CliInv => EveryWayLeadsToAStep
    BY <1>1 DEF EveryWayLeadsToAStep
  <1>3. QED
    BY <1>2, CliInvariant, PTL
-----------------------------------------------------------------------------
(* What comes back from the file. *)

\* A step of a document that compiles, and its loop.
LEMMA StepCompiles ==
  ASSUME NEW doc \in Documents, NEW file, CompileError(doc, file) = None,
         NEW i \in DOMAIN doc.steps
  PROVE  LET step == doc.steps[i]
         IN  /\ step.id \in Ids(doc) /\ StepOf(doc, step.id) = step
             /\ step.requires \in Seq({step.requires[j] : j \in DOMAIN step.requires})
             /\ \/ step.loop = None
                \/ step.loop = <<step.loop[1]>> /\ step.loop[1] \in Iterations \ {None}
  <1> DEFINE step == doc.steps[i]
  <1>1. doc.schema_valid
    BY PassesSucceeded
  <1>2. ParseError(doc) = None /\ LowerError(doc) = None
    BY DEF CompileError
  <1>3. ~ BuildFails(doc)
    BY <1>1, <1>2, NoneAssumption DEF ParseError, Exceptions
  <1>4. step.loop # <<>>
    BY <1>3 DEF BuildFails
  <1>5. \A j \in DOMAIN doc.steps : doc.steps[j].id = step.id => j = i
    BY <1>2, NoneAssumption DEF LowerError, Exceptions
  <1>6. step.id \in Ids(doc)
    BY DEF Ids
  <1>7. StepOf(doc, step.id) = step
    BY <1>5, <1>6, StepOfId
  <1>8. /\ step.requires \in Seq({step.requires[j] : j \in DOMAIN step.requires})
        /\ \/ step.loop \in {None, <<>>}
           \/ step.loop = <<step.loop[1]>> /\ step.loop[1] \in Iterations \ {None}
    BY <1>1, CliAssumption
  <1> HIDE DEF step
  <1>9. \/ step.loop = None
        \/ step.loop = <<step.loop[1]>> /\ step.loop[1] \in Iterations \ {None}
    BY <1>4, <1>8
  <1>10. QED
    BY <1>6, <1>7, <1>8, <1>9 DEF step

\* A compiled node, field by field.
LEMMA NodeIsRecord ==
  ASSUME NEW doc, NEW file, NEW id \in Ids(doc)
  PROVE  LET step == StepOf(doc, id)
         IN  CompileSop(doc, file).nodes[id] =
                [capabilities_declared |-> step.requires,
                 capabilities_paged |-> PagedSubset(step.requires, LoadPolicy(file)),
                 edges |-> LoweredNode(step).edges,
                 terminal |-> step.terminal,
                 condition |-> step.condition,
                 loop |-> LoopValue(step.loop),
                 on_limit |-> step.on_limit]
  BY DEF CompileSop, ApplyPaging, Lower, LoweredNode

\* The way through the file changes nothing in the program of a procedure that
\* compiles, loops included: the schema admits no <<None>>.
LEMMA RoundTrip ==
  ASSUME NEW doc \in Documents, NEW file, CompileError(doc, file) = None
  PROVE  FromJson(ToJson(CompileSop(doc, file))) = CompileSop(doc, file)
  <1> DEFINE program == CompileSop(doc, file)
             text == ToJson(program)
             loaded == FromJson(text)
             sent(id) == [program.nodes[id] EXCEPT !.loop = LoopText(program.nodes[id].loop)]
             back(id) == [sent(id) EXCEPT !.loop = LoopValue(sent(id).loop)]
  <1>1. program = [ir_version |-> "0.1", entry |-> doc.steps[1].id, nodes |-> program.nodes]
    <2> DEFINE lowered == Lower(doc)
               paged == [n \in DOMAIN lowered.nodes |->
                            [lowered.nodes[n] EXCEPT !.capabilities_paged =
                                PagedSubset(lowered.nodes[n].capabilities_declared,
                                            LoadPolicy(file))]]
               entry == doc.steps[1].id
    <2>1. program = [lowered EXCEPT !.nodes = paged]
      BY DEF CompileSop, ApplyPaging
    <2>2. lowered = [ir_version |-> "0.1", entry |-> entry, nodes |-> lowered.nodes]
      BY DEF Lower
    <2> HIDE DEF program, lowered, paged, entry
    <2>3. program = [ir_version |-> "0.1", entry |-> entry, nodes |-> paged]
      BY <2>1, <2>2
    <2>4. QED
      BY <2>3 DEF entry
  <1>2. program.nodes = [id \in Ids(doc) |-> program.nodes[id]]
    BY DEF CompileSop, ApplyPaging, Lower
  <1>3. ASSUME NEW id \in Ids(doc)
        PROVE  back(id) = program.nodes[id]
    <2> DEFINE step == StepOf(doc, id)
               loop == LoopValue(step.loop)
    <2>1. LoopValue(LoopText(loop)) = loop
      <3>1. PICK i \in DOMAIN doc.steps : step = doc.steps[i]
        BY StepOfId
      <3>2. \/ step.loop = None
            \/ step.loop = <<step.loop[1]>> /\ step.loop[1] \in Iterations \ {None}
        <4>1. \/ doc.steps[i].loop = None
              \/ /\ doc.steps[i].loop = <<doc.steps[i].loop[1]>>
                 /\ doc.steps[i].loop[1] \in Iterations \ {None}
          BY StepCompiles
        <4>2. QED
          BY <3>1, <4>1
      <3> HIDE DEF step
      <3>3. CASE step.loop = None
        BY <3>3 DEF LoopValue, LoopText
      <3>4. CASE step.loop # None
        <4> DEFINE n == step.loop[1]
        <4>1. step.loop = <<n>> /\ n \in Iterations \ {None}
          BY <3>2, <3>4
        <4> HIDE DEF n
        <4>2. loop = n
          BY <3>4, <4>1 DEF LoopValue
        <4>3. LoopText(n) = <<n>> /\ <<n>> # None
          BY <3>4, <4>1 DEF LoopText
        <4>4. QED
          BY <4>2, <4>3, LoopsComeBack
      <3>5. QED
        BY <3>3, <3>4
    <2>2. program.nodes[id] =
             [capabilities_declared |-> step.requires,
              capabilities_paged |-> PagedSubset(step.requires, LoadPolicy(file)),
              edges |-> LoweredNode(step).edges,
              terminal |-> step.terminal,
              condition |-> step.condition,
              loop |-> loop,
              on_limit |-> step.on_limit]
      BY NodeIsRecord
    <2> HIDE DEF step, loop, program
    <2>3. sent(id).loop = LoopText(loop)
      BY <2>2
    <2>4. back(id) = [program.nodes[id] EXCEPT !.loop = LoopValue(LoopText(loop))]
      BY <2>2, <2>3
    <2>5. QED
      BY <2>1, <2>2, <2>4
  <1> HIDE DEF program
  <1>4. text = [ir_version |-> "0.1", entry |-> doc.steps[1].id,
                nodes |-> [id \in Ids(doc) |-> sent(id)]]
    BY <1>1, <1>2 DEF ToJson, WithNodeLoops
  <1>5. loaded = [ir_version |-> "0.1", entry |-> doc.steps[1].id,
                  nodes |-> [id \in Ids(doc) |-> back(id)]]
    <2> HIDE DEF text, sent
    <2>1. QED
      BY <1>4 DEF FromJson, WithNodeLoops
  <1>6. [id \in Ids(doc) |-> back(id)] = program.nodes
    <2> HIDE DEF back
    <2>1. QED
      BY <1>2, <1>3
  <1>7. QED
    BY <1>1, <1>5, <1>6 DEF program

\* A loop that the schema admits is in the compiled file as it was written.
LEMMA LoopsInTheFile ==
  ASSUME NEW doc \in Documents, NEW file, CompileError(doc, file) = None,
         NEW text, text = ToJson(CompileSop(doc, file))
  PROVE  /\ text # Torn
         /\ DOMAIN text.nodes = Ids(doc)
         /\ \A id \in Ids(doc) : text.nodes[id].loop = StepOf(doc, id).loop
  <1> DEFINE program == CompileSop(doc, file)
  <1>1. /\ DOMAIN program.nodes = Ids(doc)
        /\ DOMAIN program = {"ir_version", "entry", "nodes"}
    BY DEF CompileSop, ApplyPaging, Lower
  <1>2. /\ DOMAIN text = {"ir_version", "entry", "nodes"}
        /\ text.nodes = [id \in Ids(doc) |->
                           [program.nodes[id] EXCEPT !.loop = LoopText(program.nodes[id].loop)]]
    BY <1>1 DEF ToJson, WithNodeLoops
  <1>3. text # Torn
    <2>1. DOMAIN Torn = {"torn"}
      BY DEF Torn
    <2>2. QED
      BY <1>2, <2>1
  <1>4. ASSUME NEW id \in Ids(doc)
        PROVE  text.nodes[id].loop = StepOf(doc, id).loop
    <2> DEFINE node == program.nodes[id]
               loop == StepOf(doc, id).loop
    <2>1. text.nodes[id] = [node EXCEPT !.loop = LoopText(node.loop)]
      BY <1>2, <1>4
    <2>2. "loop" \in DOMAIN node
      BY NodeFields
    <2>3. node.loop = LoopValue(loop)
      BY CompiledNode
    <2>4. \/ loop = None
          \/ loop = <<loop[1]>> /\ loop[1] \in Iterations \ {None}
      <3>1. PICK i \in DOMAIN doc.steps : StepOf(doc, id) = doc.steps[i]
        BY StepOfId
      <3>2. \/ doc.steps[i].loop = None
            \/ /\ doc.steps[i].loop = <<doc.steps[i].loop[1]>>
               /\ doc.steps[i].loop[1] \in Iterations \ {None}
        BY StepCompiles
      <3>3. QED
        BY <3>1, <3>2
    <2> HIDE DEF node, loop
    <2>5. text.nodes[id].loop = LoopText(LoopValue(loop))
      BY <2>1, <2>2, <2>3
    <2>6. CASE loop = None
      BY <2>5, <2>6 DEF LoopValue, LoopText, loop
    <2>7. CASE loop # None
      <3> DEFINE n == loop[1]
      <3>1. loop = <<n>> /\ n # None
        BY <2>4, <2>7
      <3> HIDE DEF n
      <3>2. LoopValue(loop) = n
        BY <2>7, <3>1 DEF LoopValue
      <3>3. QED
        BY <2>5, <3>1, <3>2 DEF LoopText, loop
    <2>8. QED
      BY <2>6, <2>7
  <1>5. QED
    BY <1>2, <1>3, <1>4

\* A compiled file can be loaded if and only if its loops count in ints.
LEMMA CompiledLoads ==
  ASSUME NEW doc \in Documents, NEW file, CompileError(doc, file) = None
  PROVE  Loads(ToJson(CompileSop(doc, file))) <=>
             \A i \in DOMAIN doc.steps :
                 doc.steps[i].loop # None => doc.steps[i].loop[1].type = "int"
  <1> DEFINE text == ToJson(CompileSop(doc, file))
             Accepted(loop) == loop \notin {None, <<>>} =>
                                loop[1].type = "int" /\ loop[1].value >= 1
  <1>1. /\ text # Torn
        /\ DOMAIN text.nodes = Ids(doc)
        /\ \A id \in Ids(doc) : text.nodes[id].loop = StepOf(doc, id).loop
    BY LoopsInTheFile
  <1>2. Loads(text) <=> \A id \in Ids(doc) : Accepted(StepOf(doc, id).loop)
    <2> HIDE DEF text
    <2>1. QED
      BY <1>1 DEF Loads, Loadable
  <1>3. ASSUME NEW i \in DOMAIN doc.steps
        PROVE  /\ doc.steps[i].id \in Ids(doc)
               /\ StepOf(doc, doc.steps[i].id) = doc.steps[i]
               /\ Accepted(doc.steps[i].loop) <=>
                      (doc.steps[i].loop # None => doc.steps[i].loop[1].type = "int")
    <2> DEFINE loop == doc.steps[i].loop
    <2>1. /\ doc.steps[i].id \in Ids(doc) /\ StepOf(doc, doc.steps[i].id) = doc.steps[i]
          /\ \/ loop = None
             \/ loop = <<loop[1]>> /\ loop[1] \in Iterations \ {None}
      BY StepCompiles
    <2> HIDE DEF loop
    <2>2. CASE loop = None
      BY <2>1, <2>2 DEF loop
    <2>3. CASE loop # None
      <3>1. loop # <<>> /\ loop[1].value \in Nat \ {0}
        BY <2>1, <2>3 DEF Iterations
      <3>2. loop[1].value >= 1
        BY <3>1
      <3>3. QED
        BY <2>1, <2>3, <3>1, <3>2 DEF loop
    <2>4. QED
      BY <2>2, <2>3
  <1>4. \A id \in Ids(doc) : \E i \in DOMAIN doc.steps :
            id = doc.steps[i].id /\ StepOf(doc, id) = doc.steps[i]
    BY <1>3 DEF Ids
  <1> HIDE DEF text, Accepted
  <1>5. QED
    BY <1>2, <1>3, <1>4 DEF text

\* The file of a compiled procedure, for as long as nobody edits it.
LEMMA FileLoads == CliInv /\ Compiled => (Loads(ir) <=> LoopsAreInts)
  BY CompiledLoads DEF CliInv, LoopsAreInts

\* As long as nobody edits the file, it can be read back unless a loop is written as
\* a float, and then what is loaded from it is what compile_sop returned, in every
\* field: a run of the file is a run of the procedure as compiled.
THEOREM FilesGiveTheProgramBack ==
  Spec => [](Compiled => /\ Loads(ir) <=> LoopsAreInts
                         /\ Loads(ir) => Program = CompileSop(sop, built))
  <1>1. CliInv => (Compiled => /\ Loads(ir) <=> LoopsAreInts
                               /\ Loads(ir) => Program = CompileSop(sop, built))
    <2>1. CliInv /\ Compiled => Program = CompileSop(sop, built)
      BY RoundTrip DEF CliInv, Program
    <2>2. QED
      BY <2>1, FileLoads
  <1>2. QED
    BY <1>1, CliInvariant, PTL

\* What a step says is in the compiled file: its capabilities, edges, condition,
\* number of iterations, on_limit and terminal come back from it, for every procedure
\* that compiles and writes no loop as a float; with such a loop nothing comes back.
THEOREM FilesAreComplete == Spec => []NothingIsLost
  <1>1. ASSUME CliInv, Compiled, NEW i \in DOMAIN sop.steps
        PROVE  LET step == sop.steps[i]
                   node == Program.nodes[step.id]
               IN  /\ node.capabilities_declared = step.requires
                   /\ \A e \in {"on_success", "on_failure"} :
                          step[e] = IF e \in DOMAIN node.edges THEN node.edges[e] ELSE None
                   /\ \A field \in {"condition", "on_limit", "terminal"} :
                          node[field] = step[field]
                   /\ step.loop = IF node.loop = None THEN None ELSE <<node.loop>>
    <2> DEFINE step == sop.steps[i]
               node == Program.nodes[step.id]
               compiled == CompileSop(sop, built).nodes[step.id]
    <2>1. /\ CompileError(sop, built) = None /\ Program = CompileSop(sop, built)
          /\ sop \in Documents
      BY <1>1, RoundTrip DEF CliInv, Program
    <2>2. /\ step.id \in Ids(sop) /\ StepOf(sop, step.id) = step
          /\ \/ step.loop = None
             \/ step.loop = <<step.loop[1]>> /\ step.loop[1] \in Iterations \ {None}
      BY <2>1, StepCompiles
    <2>3. node = [capabilities_declared |-> step.requires,
                  capabilities_paged |-> PagedSubset(step.requires, LoadPolicy(built)),
                  edges |-> LoweredNode(step).edges,
                  terminal |-> step.terminal,
                  condition |-> step.condition,
                  loop |-> LoopValue(step.loop),
                  on_limit |-> step.on_limit]
      BY <2>1, <2>2, NodeIsRecord
    <2> HIDE DEF step, node
    <2>4. ASSUME NEW e \in {"on_success", "on_failure"}
          PROVE  step[e] = IF e \in DOMAIN node.edges THEN node.edges[e] ELSE None
      <3>1. node.edges = [k \in {d \in {"on_success", "on_failure"} : step[d] # None} |-> step[k]]
        BY <2>3 DEF LoweredNode
      <3>2. QED
        BY <3>1
    <2>5. ASSUME NEW field \in {"condition", "on_limit", "terminal"}
          PROVE  node[field] = step[field]
      BY <2>3
    <2>6. step.loop = IF node.loop = None THEN None ELSE <<node.loop>>
      <3>1. node.loop = LoopValue(step.loop)
        BY <2>3
      <3>2. CASE step.loop = None
        BY <3>1, <3>2 DEF LoopValue
      <3>3. CASE step.loop # None
        <4> DEFINE n == step.loop[1]
        <4>1. step.loop = <<n>> /\ n # None
          BY <2>2, <3>3
        <4> HIDE DEF n
        <4>2. node.loop = n
          BY <3>1, <3>3, <4>1 DEF LoopValue
        <4>3. QED
          BY <4>1, <4>2
      <3>4. QED
        BY <3>2, <3>3
    <2>7. node.capabilities_declared = step.requires
      BY <2>3
    <2>8. QED
      BY <2>4, <2>5, <2>6, <2>7 DEF step, node
  <1>2. CliInv => NothingIsLost
    BY <1>1, FileLoads DEF NothingIsLost
  <1>3. QED
    BY <1>2, CliInvariant, PTL
-----------------------------------------------------------------------------
(* What a failing check says. *)

\* A check finds nothing if and only if all that is declared is allowed.
LEMMA NoViolations ==
  ASSUME NEW program, NEW tokens
  PROVE  CheckViolations(program, tokens) = {} <=>
             \A n \in DOMAIN program.nodes :
                 \A i \in DOMAIN program.nodes[n].capabilities_declared :
                     Allowed(program.nodes[n].capabilities_declared[i], tokens)
  <1> DEFINE W(n) == {[step_id |-> n, requested |-> program.nodes[n].capabilities_declared[k]] :
                         k \in {j \in DOMAIN program.nodes[n].capabilities_declared :
                                  ~ Allowed(program.nodes[n].capabilities_declared[j], tokens)}}
  <1>1. CheckViolations(program, tokens) = UNION {W(n) : n \in DOMAIN program.nodes}
    BY DEF CheckViolations
  <1>2. \A n : W(n) = {} <=>
                  \A i \in DOMAIN program.nodes[n].capabilities_declared :
                      Allowed(program.nodes[n].capabilities_declared[i], tokens)
    OBVIOUS
  <1> HIDE DEF W
  <1>3. QED
    BY <1>1, <1>2

\* What the last check found still stands: an edit clears it.
CheckInv ==
    last.command = "check" /\ Compiled /\ PolicyError(policy) = None =>
        last.exit = IF ~ Loads(ir) THEN 2
                    ELSE IF CheckViolations(Program, LoadPolicy(policy)) = {} THEN 0 ELSE 1

\* Under the policy of the compilation a check ends in an error if and only if a loop
\* is written as a float; otherwise it fails if and only if paging took a capability
\* away from a step.
THEOREM ChecksFindNarrowing == Spec => []CheckFindsNarrowing
  <1>1. Init => CheckInv
    BY DEF Init, CheckInv, NoCommand
  <1>2. ASSUME CheckInv, [Next]_cliVars
        PROVE  CheckInv'
    <2>1. CASE Compile \/ CompileDies
      BY <2>1 DEF Compile, CompileDies, CheckInv, Exit
    <2>2. CASE Check
      <3>1. UNCHANGED <<sop, policy, ir, built, edited>>
        BY <2>2 DEF Check
      <3>2. PolicyError(policy) = None =>
                last'.exit = IF ~ Loads(ir) THEN 2
                             ELSE IF CheckViolations(Program, LoadPolicy(policy)) = {} THEN 0 ELSE 1
        BY <2>2 DEF Check, Exit, Program
      <3>3. QED
        BY <3>1, <3>2 DEF CheckInv, Compiled, Program
    <2>3. ASSUME NEW file \in PolicyFiles, EditPolicy(file)
          PROVE  CheckInv'
      BY <2>3 DEF EditPolicy, CheckInv, NoCommand
    <2>4. ASSUME NEW text \in EditedIrs, EditIr(text)
          PROVE  CheckInv'
      BY <2>4 DEF EditIr, CheckInv, NoCommand
    <2>5. CASE UNCHANGED cliVars
      BY <1>2, <2>5 DEF cliVars, CheckInv, Compiled, Program
    <2>6. QED
      BY <1>2, <2>1, <2>2, <2>3, <2>4, <2>5 DEF Next
  <1>3. ASSUME CliInv, CheckInv, Compiled, built = policy, last.command = "check"
        PROVE  /\ last.exit = 2 <=> ~ LoopsAreInts
               /\ LoopsAreInts =>
                      (Passed <=> \A n \in DOMAIN Program.nodes :
                                      Program.nodes[n].capabilities_paged
                                          = Program.nodes[n].capabilities_declared)
    <2> DEFINE tokens == LoadPolicy(policy)
    <2>1. /\ CompileError(sop, policy) = None
          /\ Program = FromJson(ToJson(CompileSop(sop, policy))) /\ sop \in Documents
      BY <1>3 DEF CliInv, Program
    <2>2. /\ Loads(ir) <=> LoopsAreInts
          /\ last.exit = IF ~ Loads(ir) THEN 2
                         ELSE IF CheckViolations(Program, tokens) = {} THEN 0 ELSE 1
      BY <1>3, <2>1, FileLoads, PassesSucceeded DEF CheckInv
    <2>3. DOMAIN Program.nodes = Ids(sop)
      BY <2>1, FileGivesProgram
    <2> HIDE DEF tokens
    <2>4. ASSUME NEW id \in Ids(sop)
          PROVE  Program.nodes[id].capabilities_paged = Program.nodes[id].capabilities_declared
                     <=> \A i \in DOMAIN Program.nodes[id].capabilities_declared :
                             Allowed(Program.nodes[id].capabilities_declared[i], tokens)
      <3> DEFINE declared == StepOf(sop, id).requires
                 paged == Program.nodes[id].capabilities_paged
                 W == {j \in DOMAIN declared : WithinPolicy(ParseCapability(declared[j]), tokens)}
      <3>1. /\ Program.nodes[id].capabilities_declared = declared
            /\ paged = PagedSubset(declared, tokens)
        BY <2>1, FileGivesProgram, CompiledNode DEF tokens
      <3>2. PICK i \in DOMAIN sop.steps : StepOf(sop, id) = sop.steps[i]
        BY StepOfId
      <3>3. declared = [j \in DOMAIN declared |-> declared[j]]
        <4>1. declared \in Seq({declared[j] : j \in DOMAIN declared})
          BY <2>1, <3>2, StepCompiles
        <4>2. \A S : \A s \in Seq(S) : s = [j \in DOMAIN s |-> s[j]]
          OBVIOUS
        <4> HIDE DEF declared
        <4>3. QED
          BY <4>1, <4>2
      <3>4. \A j \in DOMAIN declared : Grammatical(declared[j])
        <4>1. /\ DOMAIN Lower(sop).nodes = Ids(sop)
              /\ Lower(sop).nodes[id].capabilities_declared = declared
          BY DEF Lower, LoweredNode
        <4>2. PagingError(Lower(sop)) = None
          BY <2>1, PassesSucceeded
        <4> HIDE DEF declared
        <4>3. QED
          BY <4>1, <4>2, NoneAssumption DEF PagingError, Exceptions
      <3> HIDE DEF declared, paged
      <3>5. paged = [j \in W |-> declared[j]]
        BY <3>1 DEF PagedSubset
      <3>6. W = DOMAIN declared <=> \A j \in DOMAIN declared : Allowed(declared[j], tokens)
        BY <3>4 DEF Allowed
      <3> HIDE DEF W
      <3>7. paged = declared <=> W = DOMAIN declared
        BY <3>3, <3>5
      <3>8. QED
        BY <3>1, <3>6, <3>7 DEF paged
    <2>5. CheckViolations(Program, tokens) = {} <=>
              \A n \in DOMAIN Program.nodes :
                  Program.nodes[n].capabilities_paged = Program.nodes[n].capabilities_declared
      BY <2>3, <2>4, NoViolations
    <2>6. QED
      BY <1>3, <2>2, <2>5 DEF Passed
  <1>4. CliInv /\ CheckInv => CheckFindsNarrowing
    BY <1>3 DEF CheckFindsNarrowing
  <1>5. QED
    BY <1>1, <1>2, <1>4, CliInvariant, PTL DEF Spec
=============================================================================
