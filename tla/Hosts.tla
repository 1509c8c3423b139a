-------------------------------- MODULE Hosts --------------------------------
(***************************************************************************)
(* The programs around the executor, from the start of the process to its  *)
(* exit, with the database that outlives it:                               *)
(*   run      "sopvm run" (src/sopvm/cli/main.py)                          *)
(*   node     Runtime and the LangGraph node, called again and again       *)
(*   db_demo  examples/run_db_demo.py, on SqliteProvider                   *)
(*   llm      examples/run_llm_demo.py, LlamaHandler with or without a     *)
(*            registry                                                     *)
(* None of them gives the executor a policy.  A configuration has more     *)
(* fields here: host; loads, whether the program and the providers can be  *)
(* loaded; found, the database at the first start.                         *)
(***************************************************************************)
EXTENDS ExecutorDocs, Compiler, SqliteProvider

CONSTANTS
    DemoSop,        \* the procedure that the database demo compiles ...
    DemoPolicy,     \* ... and the policy file it compiles it with
    Decisions,      \* what an answer of the model comes to, once parsed
    MaxSessions     \* bound: executors built, in one process or in several

(* These programs call run() once on an executor; their handlers keep no closure *)
(* and return one of two states; the provider they register is SqliteProvider.   *)
(* None is no exit code.                                                         *)
ASSUME HostsAssumption ==
    /\ MaxSessions \in Nat /\ None \notin {0, 1, 2}
    /\ \A c \in Configs : c.host \in {"run", "node", "db_demo", "llm"} /\ c.loads \in BOOLEAN
    /\ MaxRuns = 1 /\ ~ RetainClosures /\ HandlerStates = {"DONE", "FAILED"}
    /\ Declarations = {DeclaredCapabilities}

VARIABLES
    phase,      \* "start", "created", "seeded", "running" or "over"
    db,         \* the database file
    before,     \* the number of orders when the executor was built
    at,         \* DemoHandler: the declared capabilities it has gone through
    reply,      \* "none", "success" or "failure": the ToolResult the handler holds
    exit,       \* the exit code, None while there is none
    sessions    \* executors built or begun to be built

hostVars == <<phase, db, before, at, reply, exit, sessions>>
allVars  == <<vars, hostVars>>

Orders == IF db # None /\ "orders" \in DOMAIN db THEN db.orders ELSE <<>>

HostInit ==
    /\ Init
    /\ phase = "start" /\ db = config.found /\ before = 0
    /\ at = 0 /\ reply = "none" /\ exit = None /\ sessions = 1

-----------------------------------------------------------------------------
(* Setting up. *)

\* CREATE TABLE commits by itself, the seeds need the commit that follows them.
CreateTable ==
    /\ phase = "start"
    /\ db' = WithTable(db) /\ phase' = "created"
    /\ UNCHANGED <<vars, before, at, reply, exit, sessions>>

SeedTable ==
    /\ phase = "created"
    /\ db' = WithSeeds(db) /\ phase' = "seeded"
    /\ UNCHANGED <<vars, before, at, reply, exit, sessions>>

\* init_db or the first print_table raises: a database that is locked or cannot be
\* opened.  Seeds that are not committed are lost.
SetUpFails ==
    /\ phase \in {"start", "created", "seeded"}
    /\ phase' = "over" /\ exit' = 1
    /\ UNCHANGED <<vars, db, before, at, reply, sessions>>

\* The demos compile, "run" loads a compiled file.
ReadyToLoad == phase = IF config.host = "db_demo" THEN "seeded" ELSE "start"

LoadFails ==
    /\ ReadyToLoad /\ ~ config.loads
    /\ phase' = "over" /\ exit' = IF config.host = "run" THEN 2 ELSE 1
    /\ UNCHANGED <<vars, db, before, at, reply, sessions>>

Build ==
    /\ ReadyToLoad /\ config.loads
    /\ IF config.registry THEN \E p \in Providers : Register(p) ELSE UNCHANGED regVars
    /\ phase' = "running" /\ before' = Len(Orders)
    /\ UNCHANGED <<execVars, db, at, reply, exit, sessions>>

\* run() up to a handler, and its refusal of a program.
Drive ==
    /\ phase = "running"
    /\ StartRun \/ RefuseRun \/ BeginStep
    /\ UNCHANGED hostVars

-----------------------------------------------------------------------------
(* The handlers. *)

InHandler == phase = "running" /\ pc = "execute"

\* The step is over: the handler forgets what it held.
HandlerReturns(state) ==
    /\ StepReturns(state)
    /\ at' = 0 /\ reply' = "none"
    /\ UNCHANGED <<phase, db, before, exit, sessions>>

\* A tool call, through the gate, the registry and the provider.
CallTool(cap, args) ==
    /\ RequestTool(currentId, cap)
    /\ IF lastCall'.verdict = "invoked"
       THEN \E outcome \in Invoke(db, cap, args) :
                /\ db' = outcome.db
                /\ reply' = IF outcome.success THEN "success" ELSE "failure"
       ELSE /\ reply' = IF lastCall'.verdict = "stub" THEN "success" ELSE "failure"
            /\ UNCHANGED db
    /\ UNCHANGED <<phase, before, exit, sessions>>

\* _SimpleHandler and _SopvmHandler.
SimpleReturns == InHandler /\ HandlerReturns("DONE")

\* DemoHandler: a condition is never true.
DemoCondition ==
    /\ InHandler /\ Node.condition # None
    /\ HandlerReturns("FAILED")

\* The next declared capability that begins with "db:read(" or "db:write(".
IsDbCall(s) == s.wellformed /\ s.namespace = "db" /\ s.action \in {"read", "write"}

(* Requests has the tokens that the handlers ask for. *)
ASSUME HostsRequests ==
    /\ \A decision \in Decisions : decision.kind = "tool" => decision.cap \in Requests
    /\ \A c \in Configs : \A n \in DOMAIN c.program.nodes :
           LET declared == c.program.nodes[n].capabilities_declared
           IN  \A k \in DOMAIN declared :
                   IsDbCall(declared[k]) => ParseCapability(declared[k]) \in Requests

NextDbCall ==
    LET calls_left == {k \in DOMAIN Node.capabilities_declared :
                          k > at /\ IsDbCall(Node.capabilities_declared[k])}
    IN  {k \in calls_left : \A j \in calls_left : k <= j}

DemoRow == Row("Customer", 99, "approved")

DemoArgs(action) ==
    IF action = "read" THEN <<>> ELSE [action |-> "insert", row |-> DemoRow]

(* The demo runs one procedure, whose steps make at most one call of the database,  *)
(* which is paged; it comes with a registry, and finds no orders in its database at *)
(* first.  None is no database, and no value in the row that the demo inserts.      *)
DemoTables(c) == {"orders"} \cup IF c.found = None THEN {} ELSE DOMAIN c.found

DemoDatabases(c) ==
    [DemoTables(c) -> Seq({Seeds[k] : k \in DOMAIN Seeds} \cup {DemoRow})
                          \cup IF c.found = None THEN {} ELSE {c.found[t] : t \in DOMAIN c.found}]

ASSUME HostsDemo ==
    /\ \A column \in Columns : DemoRow[column] # None
    /\ \A c \in Configs : c.host = "db_demo" =>
           /\ c.registry
           /\ None \notin DemoDatabases(c)
           /\ c.found # None /\ "orders" \in DOMAIN c.found => c.found.orders = <<>>
           /\ \A n \in DOMAIN c.program.nodes :
                  LET node == c.program.nodes[n]
                      db_calls == {k \in DOMAIN node.capabilities_declared :
                                      IsDbCall(node.capabilities_declared[k])}
                  IN  /\ DOMAIN node.capabilities_declared \subseteq Nat \ {0}
                      /\ node.condition = None =>
                             \A j, k \in db_calls :
                                 /\ j = k /\ Grammatical(node.capabilities_declared[k])
                                 /\ GateVerdict(ParseCapability(node.capabilities_declared[k]), node)
                                        # "denied"

DeclaresWrite(declared) ==
    \E k \in DOMAIN declared : IsDbCall(declared[k]) /\ declared[k].action = "write"

\* Steps that the demo may come to without having written or rejected an order: the
\* first one, and those that such a step leads to, unless it rejects or has written.
\* What is DONE there has no condition, and does not end the run.
Unsettled(doc, S) ==
    /\ doc.steps[1].id \in S
    /\ \A i \in DOMAIN doc.steps :
           LET step  == doc.steps[i]
               limit == IF step.loop = None THEN {} ELSE {step.on_limit}
           IN  step.id \in S \ {"reject_order"} =>
                   /\ ~ step.terminal => {step.on_failure} \cup limit \subseteq S \cup {None}
                   /\ step.condition = None /\ ~ DeclaresWrite(step.requires) =>
                          ~ step.terminal /\ {step.on_success} \cup limit \subseteq S \cup {None}

(* The two files are named in the demo; every way through that procedure passes a *)
(* write of an order or its rejection.                                            *)
ASSUME HostsOrders ==
    /\ \A c \in Configs : c.host = "db_demo" => c.program = CompileSop(DemoSop, DemoPolicy)
    /\ \E S \in SUBSET Ids(DemoSop) : Unsettled(DemoSop, S)

DemoCalls ==
    /\ InHandler /\ Node.condition = None /\ reply # "failure"
    /\ \E k \in NextDbCall :
           LET cap == ParseCapability(Node.capabilities_declared[k])
           IN  CallTool(cap, DemoArgs(cap.action)) /\ at' = k

\* Slip: the result of a call is not looked at.
DemoReturnsDone ==
    /\ InHandler /\ Node.condition = None
    /\ reply = "failure" \/ NextDbCall = {}
    /\ HandlerReturns("DONE")

DemoReturns ==
    /\ InHandler /\ Node.condition = None
    /\ \/ reply = "failure" /\ HandlerReturns("FAILED")
       \/ reply # "failure" /\ NextDbCall = {} /\ HandlerReturns("DONE")

\* LlamaHandler: an answer that cannot be parsed counts as one that asks for no
\* tool; the model may be missing, and JSON that is no object is an exception.
LlmDecides(decision) ==
    /\ InHandler /\ reply = "none"
    /\ \/ decision.kind = "no_tool" /\ HandlerReturns("DONE")
       \/ decision.kind = "no_capability" /\ HandlerReturns("FAILED")
       \/ decision.kind = "raises" /\ HandlerRaises /\ UNCHANGED hostVars
       \/ decision.kind = "tool" /\ CallTool(decision.cap, decision.args) /\ UNCHANGED at

LlmReturns ==
    /\ InHandler /\ reply # "none"
    /\ HandlerReturns(IF reply = "success" THEN "DONE" ELSE "FAILED")

-----------------------------------------------------------------------------
(* The end of a session, and the next one. *)

\* Slip: only a denial counts against a run.
ExitUnlessDenied ==
    /\ phase = "running" /\ pc = "idle" /\ runs > 0
    /\ phase' = "over" /\ exit' = IF Returns("DENIED") THEN 1 ELSE 0
    /\ UNCHANGED <<vars, db, before, at, reply, sessions>>

\* An exception of run() ends the process with code 1 too; for a node, 0 stands
\* for the result DONE.  The demo prints the table before it returns: that may raise
\* after any run.
Exit ==
    /\ phase = "running" /\ pc = "idle" /\ runs > 0
    /\ phase' = "over"
    /\ \/ exit' = IF Returns("DONE") THEN 0 ELSE 1
       \/ config.host = "db_demo" /\ exit' = 1
    /\ UNCHANGED <<vars, db, before, at, reply, sessions>>

\* The attributes of a new Executor, and the locals of no run.
NewExecutor ==
    /\ loopCounts' = [n \in DOMAIN Nodes |-> 0] /\ currentViolation' = None
    /\ pc' = "idle" /\ runs' = 0 /\ currentId' = None /\ path' = <<>> /\ stepCount' = 0
    /\ events' = <<>> /\ result' = NoResult
    /\ closures' = {} /\ lastCall' = NoCall /\ calls' = 0
    /\ UNCHANGED config

\* A new process, after the end of the last one or because it died anywhere.
Restart ==
    /\ sessions < MaxSessions /\ sessions' = sessions + 1
    /\ NewExecutor
    /\ index' = <<>> /\ registrations' = <<>>
    /\ phase' = "start" /\ at' = 0 /\ reply' = "none" /\ exit' = None
    /\ UNCHANGED <<declares, db, before>>

\* Slip: the executor of the first call is kept.
CallAgainOnOneExecutor ==
    /\ config.host = "node" /\ phase = "over" /\ config.loads
    /\ sessions < MaxSessions /\ sessions' = sessions + 1
    /\ runs' = 0 /\ phase' = "running" /\ exit' = None
    /\ UNCHANGED <<config, loopCounts, currentViolation, pc, currentId, path, stepCount, events,
                   result, closures, lastCall, calls, regVars, db, before, at, reply>>

\* The node is called again: a new executor on the registry of the first call.
CallAgain ==
    /\ config.host = "node" /\ phase = "over" /\ config.loads
    /\ sessions < MaxSessions /\ sessions' = sessions + 1
    /\ NewExecutor
    /\ phase' = "running" /\ exit' = None
    /\ UNCHANGED <<regVars, db, before, at, reply>>

-----------------------------------------------------------------------------
(* The programs. *)

Executing == LoadFails \/ Build \/ Drive \/ Exit

SopvmRun == config.host = "run" /\ (Executing \/ SimpleReturns)

NodeCall == config.host = "node" /\ (Executing \/ SimpleReturns)

DbDemo ==
    /\ config.host = "db_demo"
    /\ \/ CreateTable \/ SeedTable \/ SetUpFails \/ Executing
       \/ DemoCondition \/ DemoCalls \/ DemoReturns

LlmDemo ==
    config.host = "llm" /\
        (Executing \/ (\E decision \in Decisions : LlmDecides(decision)) \/ LlmReturns)

Process == SopvmRun \/ NodeCall \/ DbDemo \/ LlmDemo

HostNext == Process \/ Restart \/ CallAgain

HostSpec == HostInit /\ [][HostNext]_allVars

\* A process that is not killed goes on: calls of the provider and of the model,
\* which is held to max_tokens, come back.
FairHostSpec == HostSpec /\ WF_allVars(Process)

-----------------------------------------------------------------------------
\* Data changes only through what a step is paged: outside the set-up, a database
\* changes in no table but orders, and by a call whose token is a db:write under a
\* paged capability of the step being executed, whatever tool, table and arguments
\* the handler, or the model behind it, asks for (sqlite_provider.py:69, 102).
ChangesAreGranted ==
    [][db' # db /\ phase = "running" =>
          /\ calls' = calls + 1 /\ pc = "execute"
          /\ KeyOf(lastCall'.requested) = <<"db", "write">>
          /\ \E k \in DOMAIN Node.capabilities_paged :
                 Satisfies(lastCall'.requested, ParseCapability(Node.capabilities_paged[k]))
          /\ \A t \in DOMAIN db : t # "orders" => db'[t] = db[t]]_allVars

Writes(step) == Nodes[step].condition = None /\ DeclaresWrite(Nodes[step].capabilities_declared)

\* The demo's telemetry and its table tell one story, failing calls included: since
\* the executor was built, there is one more order for every step completed that
\* declares a db:write, and one while such a step holds a success in its hands
\* (run_db_demo.py:92-120).
TableTellsTheRun ==
    config.host = "db_demo" /\ (phase = "running" \/ runs > 0) =>
        Len(Orders) - before =
            Cardinality({k \in DOMAIN events :
                            events[k].event = "step_completed" /\ Writes(events[k].step_id)})
            + IF pc = "execute" /\ reply = "success" /\ Writes(currentId) THEN 1 ELSE 0

\* However often the set-up runs, and wherever it was cut off or failed: once it is
\* over the seeds are there, and where there is an order they come first and are
\* there once (init_demo_db.py:30-41).
SeededOnce ==
    config.host = "db_demo" =>
        \/ Orders = <<>> /\ phase \notin {"seeded", "running"} /\ runs = 0
        \/ /\ Len(Orders) >= Len(Seeds) /\ SubSeq(Orders, 1, Len(Seeds)) = Seeds
           /\ \A k \in (Len(Seeds) + 1)..Len(Orders) : \A j \in DOMAIN Seeds : Orders[k] # Seeds[j]

\* A demo that exits 0 has written an order or has rejected it.  When paging lost
\* the conditions of the steps it did neither (POSTMORTEM.md:219-227).
DemoWritesOrRejects ==
    config.host = "db_demo" /\ exit = 0 =>
        Len(Orders) > before \/ \E k \in DOMAIN path : path[k] = "reject_order"

\* The run is closed, after the completion of a terminal step, with no denial.
ClosedWell ==
    /\ Len(events) >= 2 /\ events[Len(events)].event = "run_completed"
    /\ events[Len(events) - 1].event = "step_completed"
    /\ Nodes[events[Len(events) - 1].step_id].terminal
    /\ ~ DeniedInRun

\* The exit code and the telemetry agree: 0 only if the run was closed well, and if
\* it was, unless the demo could not print its table (run_db_demo.py:135); 2 only
\* where no run began (main.py:114-147).
ExitTellsTheRun ==
    exit # None =>
        /\ exit = 0 => ClosedWell
        /\ ClosedWell => exit = 0 \/ (config.host = "db_demo" /\ exit = 1)
        /\ exit = 2 => events = <<>>

\* Whoever starts one of these programs gets an answer, unless the process is
\* killed, whatever the model says and however often SQLite fails.
HostEnds == (phase # "over") ~> (phase = "over")
=============================================================================
