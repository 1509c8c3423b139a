# SOPVM in TLA+

SOPVM compiles a standard operating procedure (YAML) and a capability policy
into a small program graph, and runs that graph step by step: a handler carries
out each step and asks for tools, a gate compares each request with the
capabilities the step was *paged*, and a sandbox stands between the gate and the
tool providers.  The promise of the project is that nothing above the policy is
ever called, that a denial ends the run, and that a run can be reconstructed
from its telemetry.  This directory states these promises, and what they rest
on, as TLA+ modules that TLC checks on small instances and TLAPS proves for all.

`file.py:n` in a comment is a line of `src/sopvm/**/file.py`.

## 1. Inventory

| Part | State | Operations | Talks to | What makes it correct |
|---|---|---|---|---|
| Capability tokens (`capability/token.py`) | none | `parse_capability` | everything | what is written is what is compared |
| Policy loader (`capability/policy.py`) | none | `load_policy` | tokens | all entries parsed or `PolicyError` |
| Ceiling comparison, static checker (`checker/check.py`) | none | `satisfies`, `check` | tokens, policy, IR | a ceiling admits what it says; grants compose; a passing check bounds the run |
| Parser (`parser/parse.py`) | schema cache | `parse` | compiler | every way a run can take leads to a step |
| Compiler (`compiler/*.py`) | none | `lower`, `apply_paging`, `compile_sop` | parser, policy, IR | pages no more than the policy; loses nothing |
| IR (`ir/model.py`) | the program | `to_json`, `from_json` | compiler, checker, executor | comes back from its file as it was |
| Executor (`runtime/executor.py`) | program, policy, `_loop_counts`, `_current_violation`, `_run_id`, locals of `run` | `run`, `request_tool` closures, `_emit` | handler (callback), gate, registry, sink and `on_event` (callbacks) | policy ceiling, denial is terminal, bounded steps, telemetry explains the path, runs end |
| Gate (`runtime/gate.py`) | none | `check_call`, `enforce` | tokens, `satisfies` | grants exactly what is paged |
| Registry, sandbox (`plugins/*.py`) | `_index`; what a wrapper read | `register`, `lookup`, `wrap_provider`, `invoke` | providers (callbacks) | last registration wins; no provider beyond its declaration |
| Telemetry (`telemetry/*.py`) | log file | `new_event`, `emit` | executor, `sopvm trace` | order, evidence of a denial |
| CLI (`cli/main.py`) | files | `compile`, `check`, `run`, `trace` | all of the above | a passing check speaks for the run; exit codes tell the truth |
| Public API, LangGraph node (`__init__.py`, `integrations/`) | registry | `compile`, `check`, `Runtime.run`, node | executor | each run has a fresh executor |
| Example hosts (`examples/`) | SQLite file, what a handler holds | `init_db`, `invoke`, `DemoHandler`, `LlamaHandler`, both demo scripts | executor, registry, model | only what was granted changes data; table, telemetry and exit code tell one story; the process ends |
| Milestone-1 snapshot (`sopvm-milestone-1/`) | the scan of a file | `parse`, `compile --check` | none | accepts its grammar and nothing else; diagnostics are exact |

Everything is synchronous and single-threaded.  What interleaves are callbacks:
a handler may call `request_tool` any number of times, after a denial too, may
keep the closure and call it in a later step or run, may return anything or
raise; providers may be registered during a step and may change what they
declare; an embedding program may call `run()` again on one object.  Beyond
that, hard to test are the limits (`max_steps`, `max_iterations`), half-done
registrations, values that are hardly numbers in a capability, and files (policy,
compiled IR) that are edited between two commands or left torn by a command that
died.  The hosts add a database that outlives the process, killed and started
again, and a model that may answer anything.  `PROJECT.json` lists each hazard
at its line with the properties meant to catch it.

## 2. Modules

```
Capability --- Registry ---------+
     |                           +-- Executor -- ExecutorDocs -- MCExecutor
     +-------- Ir ---------------+      |   \ RunLifecycle (refined)
     |          |                       |
     |          +------ Compiler ---- Deployment ------------- MCDeployment
     |          |           |           |
     |          |           +-- Cli ----|--------------------- MCCli
     |          |           +---------- Hosts ---------------- MCHosts
     |          +-- SqliteProvider -----+
     +-- CapabilityLaws -- MCCapability

Telemetry -- MCTelemetry         LinearParser -- MCLinearParser

proofs: CommonProofs -+- CapabilityLawsProofs
                      +- CliProofs
                      +- ExecutorProofs -+- DeploymentProofs
                      |                  +- HostsProofs
                      +- TelemetryProofs
                      +- LinearParserProofs
```

**Capability.**  A capability string is kept as the parts its grammar splits it
into; a parameter value is a tagged record for the Python value it becomes
(`True`, a float, nan, a string, a comparator dict).  `ParseCapability` keeps the
last of several parts with one key, since `params` is a dict; `Satisfies`
follows `satisfies` branch by branch, with Python's equality (`True == 1.0`,
`nan != nan`) and `_to_float` (which takes `True` for 1).  Integers stand for
floats: only their order matters.

**Registry.**  `Register(p)` reads the declaration of `p` string by string up to
the first malformed one and stays half-done there, as `register` does.
`Redeclare` is the provider changing its mind.  `Route` is the path of a granted
call through `lookup`, `wrap_provider` (which reads the declaration again) and
the sandbox's `invoke`.  `registrations` is a history variable.

**Ir.**  The program graph and its way through JSON, where only the loop clause
is not a plain copy.  The number of a loop keeps its type, since 2 and 2.0 are equal
in Python and to the schema an integer both, while `from_json` wants an int.

**Executor.**  One `Executor` object.  `pc` is "idle" between runs, "top" at the
head of the `while` loop and "execute" inside `handler.execute`.

| Action | Code |
|---|---|
| `StartRun`, `RefuseRun` | `run` up to the loop; IR version, paged capabilities within the policy |
| `BeginStep` | head of the loop: unknown step, step limit, `step_started` |
| `RequestTool(sid, cap)` | the closure built for step `sid`: gate, events, routing |
| `StepReturns(r)` = `Complete(r)` or `Advance(r)` | the handler returns `r`: override by a denial, closing event, end of run, or loop count and next step |
| `HandlerRaises` | an exception leaves `run` |
| `RegNext` | what happens to the registry meanwhile |

`currentViolation` and `loopCounts` are attributes, and no action resets them,
because the code does not; `path`, `stepCount` and `currentId` are locals.
`events` is the sequence of events handed to `_emit` under the current run id:
failures of `on_event` and of the sink are swallowed there.

**RunLifecycle** is the abstract machine of INTERFACES.md section 5 (one step at
a time, a denial absorbs, a run that starts ends).  `Executor!Lifecycle`
instantiates it with a refinement mapping from `pc`, `events` and `result`.

**Compiler** has one operator for the result and one for the exception of each
pass.  **Cli** puts `sopvm compile` and `sopvm check` around it as actions on
three files that change in between.  `CompileDies` is the compile whose output
cannot be opened, or which dies after opening has truncated it and before the
IR is in it (`main.py:62`); what it leaves is `Torn`, which no command loads.
**Deployment** composes the compiler with the executor: the program of a
configuration is what `compile_sop` makes of a procedure.

**Hosts** composes everything that runs: compiler, executor, registry, provider
and database, from the start of a process to its exit code.  A configuration
names one of four programs: `run` (`sopvm run`), `node` (`Runtime` and the
LangGraph node, called again on one registry), `db_demo` (`run_db_demo.py`) and
`llm` (`run_llm_demo.py`).  A handler step is an action of its own: `DemoCalls` is one turn of
`DemoHandler`'s loop over the declared capabilities, which ends at the first
failure, and `DemoSop` and `DemoPolicy` are the two files that the demo names;
`LlmDecides` is what an answer of the model comes to once it is parsed,
which may be no tool, a tool the step lacks, a call with any arguments, or an
exception.  `CallTool` is `RequestTool` of Executor together with what the
provider then does.  `Restart` may come at any point, also between the creation of
the table and its seeds: it forgets the process and keeps the database.
`SetUpFails` is the demo's first use of the database raising, and `Exit` lets the
demo's last use of it, the table it prints after the run, turn any exit code into 1.

**SqliteProvider** has the database and the provider.  `Perform` is the code path
by path; `Invoke` adds that SQLite may fail any call, which leaves the database as
it was, and that any bare parameter may be the table, since tokens of Capability
do not keep the order of their parameters.  Values are what NOT NULL, a `where`
and a default tell apart.  Ids are not kept, rows are in their order: an insert that
names one may put its row anywhere, a `where` that names one may find any one of the
rows it would find otherwise, or none, and an update that sets one may move its row;
each may also fail.

**LinearParser** is the parser of the first milestone, a scan of a file line by
line.  A line is what its regular expressions tell apart; the text of a step is
the sequence of the lines it was taken from, so that properties can say which
line went where.  What is nearly an item ("2." without a space, an indented
number, "2)") is a line like any other, and continues the step above.

**Telemetry** is the log: `_emit` with `JsonlSink` behind it, on a file that
several runs append to, and `sopvm trace`.  A write may leave the whole line, a
record without its line end, a piece of it, or nothing; the sink swallows the
exception, or the process dies, which leaves the same file and a run that emits
nothing more.  The next event is appended to whatever is there.  The i-th event
of a run stands for its content; what the events are and in which order they
come is the business of Executor.

**ExecutorDocs** holds sentences of documents and docstrings that an executor
which is used again does not live up to.  One of them is checked a second time in
Hosts, where every run has an executor of its own and it holds.

## 3. Runs

| Run | Question | States |
|---|---|---|
| `capability_laws` | does a ceiling mean what it says, and do grants compose? | 33,825 |
| `executor_single` | one run of every kind of program: ceiling, denial, evidence, telemetry, refinement | 2,461 |
| `executor_reused` | three runs of one object, handlers that keep closures and return any state | 48,934 |
| `executor_routed` | providers that register late, in part, and redeclare | 83,304 |
| `cli` | compile and check in any order, files edited and torn in between | 44,938 |
| `telemetry` | two runs on one log, every write may fail | 152,652 |
| `deployment` | a compiled procedure in the executor, with and without a policy | 43,734 |
| `linear_parser` | every short file through the milestone-1 parser | 95,613 |
| `hosts` | four programs around the executor, killed at any point and started again | 103,657 |

Bounds and why they are enough:

- `capability_laws`: 32 grammatical strings in each of three places: every
  comparator, assignment and bare form over two numbers, a word and nan, and
  pairs of parts on one and on two keys.  `Satisfies` compares key by key and a
  comparator distinguishes only less, equal and greater, so two numbers, with a
  third outside, show every outcome.
- `executor_single`: nine configurations of seven programs of at most four
  steps: a branch, a loop of two iterations, a cycle without a loop, missing
  edges, paged capabilities above the policy, a malformed one, an unknown
  version.  `MaxSteps = 4` lets every path end and cuts the cycle in its middle;
  two calls per step let a grant follow a denial.  `MaxCalls` bounds a counter
  that the code does not have.
- `executor_reused`: `MaxRuns = 3`, `MaxSteps = 3`, closures kept: whatever leaks
  from one run into the next has leaked after two, and a third one starts from
  it.  `DenialEndsRun` is not
  asked here: a closure called after the run returned can be denied under the
  id of that run.
- `executor_routed`: two providers, two registrations, three declarations, one
  of them malformed in its middle.
- `cli`: 1,729 procedures (a first step of every shape, its loop absent, empty, an
  int or a float, before six kinds of rest), five policy files, three hand-edited IRs.
  What somebody edits is outside the promises: `built` and `edited` keep those to what
  the compiler wrote.  Deadlock is checked: some command
  can always be given.  The executor runs stop once their runs are used up, and
  `capability_laws` after its three strings, so there it is not.
- `telemetry`: two runs of three events: a write damages at most what follows it
  directly, so that a damaged line, the event it spoils and a line after the
  recovery fit in, of one run or of both.
- `deployment`: three procedures, narrowed, looping and dangling, each with no
  policy, its own and a narrower one.  Here, in `executor_reused` and in
  `executor_routed` handlers return any of the five states.
- `linear_parser`: every body of up to five lines below a title and of up to three
  without one, and every state of the frontmatter before five bodies.  A step is
  an item, its lines and what ends it; numbering looks back at one item and at the
  set of those seen; so a gap, a duplicate and what comes after both fit in.
- `hosts`: the order procedure of the examples, with its policy, and small programs
  that loop, have no way out or go in a circle.  `MaxSteps = 12` (the default is
  10,000) exceeds the longest way through the order procedure and cuts the circle;
  `MaxCalls = 2` lets a call follow a call; `MaxSessions = 2` is a process and the
  one after it.  Restart leaves nothing but the database behind, so a third session
  starts like the second.  The model may ask for inserts and updates that name an id.

*Fairness.*  `FairSpec` is weak fairness of `Running`: the loop of `run` never
waits for anything but the handler, and a handler that comes back from every
`execute`, by returning or raising, is what `Termination` and the liveness of
`RunLifecycle` assume.  Tool calls, further runs and the registry get no
fairness, and no action that ends a step is singled out: a cyclic program may
go on cycling until the step limit stops it.  `FairHostSpec` is weak fairness of the
process as a whole: it goes on unless it is killed, since neither SQLite nor the
model, which is held to `max_tokens`, keeps a call for ever.  Being killed and
started again gets no fairness; `HostEnds` holds because `MaxSessions` bounds how
often that happens.

### Where the code and its documents disagree

Each of these has a run of its own that finds the behaviour:

- `doc_every_comparator`: of two comparators on one parameter of a ceiling,
  only the last one counts: `amount=1` is within `amount>=2, amount<=3`
  (`token.py:107`, against `check.py:50`).
- `doc_reused_loop`: loop counts outlive the run (`executor.py:110`, against
  `sop.schema.json:87`).
- `doc_reused_violation`: so does the violation (`executor.py:109`, against
  `executor.py:60`).

Read in the code, and true of the models, but without a run:

- `max_iterations: 2.0` is an integer to the JSON Schema (`parse.py:68`), is compiled
  with exit code 0 and written as it is (`parse.py:99`, `model.py:124`), and then
  refused by `from_json` (`model.py:90`), so that `check` and `run` of the compiled file
  exit 2 (POSTMORTEM.md:210: the deserializer "needs to enforce the same invariants" as
  the schema); `CheckFindsNarrowing` and `NothingIsLost` say that this happens to
  procedures with such a loop and to no other;
- a call the sandbox refuses is not a DENIED event (`executor.py:238`, against
  INTERFACES.md:211);
- the checker does not run before the IR is written (`pipeline.py:27`, against
  README.md:165);
- after a denial the step goes on until its handler returns, and further calls
  of it are granted (`executor.py:252`; "the step transitions to DENIED
  immediately", `gate.py:55`);
- a write that fails in the middle spoils the next record too, and `sopvm trace`
  then ends in a traceback for every run in the file (`main.py:163`;
  "one JSON object per line", `sink.py:27`);
- a handler that itself returns DENIED ends the run with no violation record
  (`executor.py:264-272`; line 60 promises one), and one that returns PENDING or
  RUNNING in a terminal step makes that the final state (`executor.py:278`,
  against line 58).  In a step that is not terminal they are reported as
  `step_completed` and follow `on_failure` (`executor.py:299`);
  `executor_single`, which is about evidence and replay, lets handlers return DONE
  and FAILED;
- the last iteration of a loop takes `on_limit` even when it succeeded
  (`executor.py:286`, against the schema's "repeats until condition is false
  or max_iterations is hit");
- a retained closure is checked against the step it was built for and not the
  current one (INTERFACES.md:210);
- the sandbox compares with what a provider declares now, not with what it
  declared at registration (`sandbox.py:58-60`, against line 36);
- `LoweringError` "should not occur after validation" (`lower.py:29`) but does
  for two steps of one name; `loop: {}` passes the schema and ends in a
  `KeyError` (`parse.py:99`); a blank parameter passes the parser and fails in
  paging (`page.py:38`);
- `sopvm run`, `Runtime` and the LangGraph node give the executor no policy, so
  the re-validation of README.md:166 does not take place (`main.py:135`,
  `__init__.py:79`); the `policy:` field of a procedure is never consulted;
- an answer of the model that cannot be parsed counts as a step that is DONE
  (`llm_handler.py:133`), one that is JSON and no object ends the run in a
  traceback;
- the database demo evaluates no condition: `DemoHandler` fails every step that has
  one, so no order is reviewed and no payment succeeds, and the demo ends in
  `payment_failed` with exit code 0 (`run_db_demo.py:95`; its docstring, line 86:
  "checks the database to evaluate the condition"); it exits 1 after a run that was DONE
  if the table it then prints cannot be read (`run_db_demo.py:135`), as
  `ExitTellsTheRun` states;
- the milestone-1 parser takes items without text (`parser.py:43`, `246`) and blank
  lines between steps, which the grammar of its docstring does not have
  (`parser.py:6-10`, a `<text>` in each step).  `ExitZeroIffWiderGrammar` is about the
  grammar that is accepted, `InWiderGrammar`, which differs from the documented one in
  these two points;
- a missing frontmatter block is reported at line 1, not as an error of the document as
  a whole (`parser.py:66-75`, against `errors.py:22-23`);
- the milestone-1 parser promises diagnostics for all errors (its `errors.py:3-5`)
  but a field that is missing beside a key that is no string, or a date that does
  not exist, ends it in a traceback; a missing title hides that there are no steps
  (against `test_parser.py:328-329`);
- `check_api_compat.py` never reads the baseline it names, so it cannot compare
  with the last release (against VERSIONING_POLICY.md:47).

## 4. Proofs

All of the following hold for every value of the constants, under the assumptions
named in the modules: bounds are natural numbers; step ids are never `None`; a
policy holds parsed tokens, whose comparator values are plain values
(`ExecutorAssumption`, which `ParsedTokensAreFlat` establishes for every string);
a string splits into parts whose values are texts, words or nan (`LawsAssumption`);
what the JSON Schema guarantees (`CliAssumption`, `DeploymentAssumption`); a field
of a frontmatter that is a mapping is absent, valid or not (`CallsAssumption`).
Hosts says what its programs are: each executor runs once, no handler keeps a
closure or returns anything but DONE and FAILED, the provider is SqliteProvider
(`HostsAssumption`); `Requests` has what the handlers ask for (`HostsRequests`); and
the demo's procedure makes at most one database call per step, which the step is
paged, starts with an empty table of orders if any, and has a registry
(`HostsDemo`).  What a demo can come to depends on its procedure, so `HostsOrders`
says of the one it compiles that every way the demo can take through it passes a
write of an order, or its rejection, before it ends with DONE: some set of steps
that holds the first is closed under the other ways and has no such end
(`Unsettled`, stated on the document, before lowering and paging).  TLC evaluates
each of them on the instances of the runs.

- **CommonProofs.**  What several proofs need.  Numbers, sets, sequences: the least and
  greatest of some numbers, induction up to a bound in the form of a set (`UpTo`), the
  count of the numbers up to n that are in a set, one more element (`CountUpTo`,
  `Appended`): these replace sums and filtered sequences, which no backend reasons
  about.  Capabilities: `Satisfies` is transitive on flat tokens.  The heart is
  `AdmitsTransitive`: a comparator in the middle is admitted by nothing, so the
  middle value is concrete, and equality preserves admission
  (`EqualValuesAdmitted`).  Hence `GrantsStayWithinPolicy`.  Compiled programs: the
  shape of a node, `PagingNarrows`, and `EdgesLeadToSteps`.  `TighterPoliciesGiveLess`
  compares two compilations of one procedure: since a comparator lies under no
  comparator, "tighter" is not the order of `Satisfies` (`amount<=100` does not lie
  under `amount<=500`) but a relation of its own (`Tightens`), and needs that what is
  written has numbers for its numbers (`ParsedNumbers`).
- **CapabilityLawsProofs.**  The strings in use are grammatical (`LawsInv`), so parsing
  keeps one part per key (`ParsedString`); with keys that differ it is the only one.
  `PartAsWritten` then compares one part with what is written, form by form, for every
  bound, and gives `CeilingsReadAsWritten`.  `GatesComposeWithPolicies` is
  `SatisfiesIsTransitive` on parsed strings; `PagedIsNeverARange` its middle case.
- **ExecutorProofs.**  `LastOneServes`, of the registry: the invariant is inductive
  together with the type of the registry's variables; the step appends a registration,
  which is last for exactly the keys it reads before an error.
  Then `TypeCorrect`, one step per action.
  `PolicyIsCeiling` needs more than the property says: that a started run has
  passed the validation, so closures exist only where every paged capability lies
  within the policy; `GrantsStayWithinPolicy` then closes the step for
  `RequestTool`.  `StepsAreBounded` rests on the agreement of `stepCount` with
  the path, `DenialIsTerminal` on the fact that in the middle of a step a denial
  event implies a violation that is still set; it assumes that no closures are
  retained.  `DenialsHaveEvidence` needs the converse, that a violation set in a
  step is one of this step and has its event (`EvidenceInv`), and so an object that
  runs once.  The two together make the refinement mapping work: in the middle of a
  step "denied" is the same for the events and for the attribute, which gives
  `ExecutorRefinesLifecycle`, one step of `RunLifecycle` or none for each action.
  `LifecycleStep` is that one step, for Hosts to use again.
  `CheckedProgramsStayWithin` is `PolicyIsCeiling` for a policy that the executor was
  never given: what counts is only that all that is paged lies within it, which is
  what `CheckIsSound` of Cli says of a check that passes.
  `RunsWindDown` is the part of `Termination` that a proof can have: `Rank`, two for
  each step that the budget leaves, falls with every step of the loop and never rises
  during a run.
  `ProvidersStayInScope` takes `LastOneServes` over to the executor, whose steps are
  steps of the registry or leave it alone.
  `RunsReplayFromTelemetry` is the longest argument.  `ReplayInv` says that the events
  told so far explain the path so far (`Explains`), that the path is as long as the
  steps told to begin and at most one longer than those told to end, and that before
  a step the last closing event has led to the step that is next.  The last conjunct
  needs the loop counters to be the visits on the path (`CountsVisits`), which is
  false for an object that runs again, as `doc_reused_loop` shows: hence one
  run.  Its handlers do not return PENDING or RUNNING, which the code reports
  as completed and follows as failed.
- **CliProofs.**  From `CliInv` (an unedited compiled file is the JSON of the
  compilation of the procedure, or torn or absent) follow `PassingCheckBoundsRuns`,
  for a check under *any* policy, `FilesLeadToSteps`, and `FilesAreComplete`: two
  steps never share a name, so `StepOf` finds the step, and `FromJson` undoes
  `ToJson`.  A compiled file loads if and only if every loop of the procedure is an int
  (`CompiledLoads`, from what the schema admits).  `FilesGiveTheProgramBack` says more:
  what is loaded then equals what `compile_sop` returned, field by field (`RoundTrip`),
  so that a run of the file is a run of the program that Deployment and Hosts compile.
  `ChecksFindNarrowing` needs that what the last check found still stands (`CheckInv`),
  and when a compiled file loads.
- **DeploymentProofs.**  `DeploymentInv` (at the head of the loop the current step
  is one of the program, besides the two properties themselves) gives
  `CompilationBoundsCalls` and `CompilationIsComplete`.
- **HostsProofs.**  Every action of a host is a step of the executor or the
  construction of a new one, so the invariants of ExecutorProofs carry over
  (`HostCore`), which is `HostsKeepTheContract`; `HostsLoopInFull` follows from
  `ReplayInv`.  `ExitCodesTellTheRun` needs `EndInv`: the events of a run end in
  run_completed exactly if run() returned, and the event before is the state it
  returned.  So a run is `ClosedWell` in its telemetry exactly if it returned DONE; the
  one way to another exit code than 0 from there is the demo's table.  `ChangesStayGranted` goes through the paths of the provider: what is
  allowed to write is a db:write that the gate granted, and what is written is the table
  of orders.  `SeedInv` follows the demo's database through the set-up and every call,
  for `SeedsAreThereOnce`: what is below the seeds is the demo's own row.
  `TablesTellTheRun` adds `TableInv`, where the table is ahead of the telemetry by the
  call that the step holds in its hands: a step has one database call, so it is made
  once, and a successful one leads to DONE and so to step_completed.
  `DemosWriteOrReject` follows the demo through `Unsettled`: as long as no step that
  writes is completed and no order rejected, the current step is one of that set, so
  the run cannot end with DONE (`SettledInv`); that an order was written then shows in
  the table, by `TableInv`.  It rests on paging leaving the edges, loops and
  conditions alone, which is where POSTMORTEM.md:215 went wrong.
  `HostsFollowTheLifecycle` and `HostsStayWithinTheCheck` take the refinement and the
  ceiling of a checked policy through kills, restarts and new calls.
  `ProgramsWindDown` is the measure for whole programs, `ToDo`: set-up, the one run
  with a tool call in each of its steps, and the exit.  It needs `TableInv` for the
  demo, whose step never calls twice.
- **TelemetryProofs.**  `SettledLinesStay`, from the types and the fact that a file
  whose last line lacks its end has a last line.  `LinesInOrder` (the events of a run
  are in the order of their lines) gives `TracesTellTheTruth`: of lines that parse and
  are in order, reading line by line prints each event of the run once
  (`EventsInOrder`).  `CleanTracesAreComplete` needs a count besides: as long as every
  line parses, a run lacks no more lines than its writes have failed
  (`NothingLostYet`).  For `DamageStaysBounded` neither is enough: a line without its
  end will cost the next event, and if it is a whole record itself too, so the
  inductive form counts what is at stake (`AtStake`) as lost already (`DamageSoFar`).
- **LinearParserProofs.**  `Position` says where the scan is in each phase, and gives
  `DiagnosticsPointIntoFile`.  `AcceptedFilesAreWhole` needs to know what has been
  read so far as long as there is no error (`Reading`): the steps are numbered from
  one, `seen` and `expected` agree with them, the open step is a block that ends
  just above the line to be read, and every line above it that is not blank belongs
  to a step.  An error spoils `Reading`, but errors stay, and a file with errors is
  not accepted.  For the other two the invariant has to hold in files with errors:
  `ScanInv` says that `seen` has the numbers of the items above, `expected` counts the
  fresh ones among them, a step is open where the lines say so, and the complaints are
  those of the wrong lines above (`Scanned`, `Diagnosed`); and whether the title was
  found where the grammar wants it.  At the end of the file this is
  `DiagnosticsTellTheLines`, and, since a file without complaints whose fields are valid
  is one of the grammar that is accepted,
  `ExitZeroIsTheWiderGrammar`.

Only model-checked: `Termination`, `HostEnds` and the liveness half of
`ImplementsLifecycle`.  The steps that are under fairness are proved to lower a
natural number that no other step raises before the run, or the process, is over
(`RunsWindDown`, `ProgramsWindDown`).  What is left to TLC is that one of them is
enabled until then, and that fairness therefore takes it: ENABLED and liveness are out
of the prover's reach.

## 5. Not modelled

- *YAML, JSON Schema, SQLite, the language model*: libraries and services, modelled
  by the verdicts and results that reach the code.
- *Mock providers* (`mock_db.py`, `mock_payments.py`): constants, and a list that
  lives as long as the process; Executor and Registry take providers that do
  anything.
- *`check_api_compat.py`*: a developer's script, one pass over one file without
  state.
- *Wording and layout*: messages, what `trace` prints, `state_mapper` of the
  LangGraph node (a function of the result that the embedding graph brings along),
  the path in `policy_ref`, timestamps and ids of runs.  Records longer than a buffer,
  which two processes could mix, are left out of Telemetry: those of the executor
  are short.
- *Names of customers in the demo*: its insert numbers them by a counter that starts
  again with every process, so names repeat after a restart; nothing depends on them.
- *What a failed call leaves behind in SQLite*: `Invoke` assumes that a call that fails
  leaves the database as it was, since `commit` is the last thing a write does; what
  SQLite itself makes of a failed commit is its own.
- *Printing*: writing to standard output is taken not to fail.
- *What a step meant to do*: an answer of the model that cannot be parsed makes the
  step DONE, which is what the code does (`llm_handler.py:133`) and what
  `LlmDecides` does; no property asks whether the work of the step was done.
- *Two processes on one database or one compiled file at once*: the examples and
  commands are started one after the other; SQLite's failures cover the lock one
  would run into.

What would come next: the telemetry of Hosts written through Telemetry, so that an
exit code is compared with what `sopvm trace` prints.
