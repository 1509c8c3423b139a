----------------------------- MODULE Deployment -----------------------------
(***************************************************************************)
(* The compiler and the executor together: an Executor whose program is    *)
(* what compile_sop made of a procedure.  "sopvm run", Runtime and the     *)
(* LangGraph node construct it without a policy (cli/main.py:135,          *)
(* sopvm/__init__.py:79), an embedding program may give it the policy of   *)
(* the compilation or a newer one.  A configuration has two more fields:   *)
(* source, the procedure, and ceiling, the policy file it was compiled     *)
(* with.                                                                   *)
(***************************************************************************)
EXTENDS Executor, Compiler

\* The schema asks for a step; a parsed policy has flat parameters.
ASSUME DeploymentAssumption ==
    \A c \in Configs :
        /\ 1 \in DOMAIN c.source.steps
        /\ CompileError(c.source, c.ceiling) = None
        /\ c.program = CompileSop(c.source, c.ceiling)
        /\ \A t \in LoadPolicy(c.ceiling) : FlatToken(t)

Requires(id) == StepOf(config.source, id).requires

\* The compiler's policy outlives the compiler: every call the gate lets through
\* lies within the policy the program was compiled with, and under a capability
\* that the step of the procedure asks for, whether or not the executor is given
\* a policy (page.py:37-40, gate.py:35-43).
CompiledCeiling ==
    lastCall.verdict \in GrantedVerdicts =>
        /\ WithinPolicy(lastCall.requested, LoadPolicy(config.ceiling))
        /\ \E i \in DOMAIN Requires(lastCall.step_id) :
               Satisfies(lastCall.requested, ParseCapability(Requires(lastCall.step_id)[i]))

\* What the executor guards against in hand-made programs, a compiled program
\* never does: no run looks for a step that does not exist (executor.py:181) and
\* no tool call meets a malformed capability (gate.py:41); nor is a run refused
\* under the policy the program was compiled with (executor.py:145,165).
CompiledProgramsRun ==
    /\ result # Raised("step_not_found")
    /\ result # Raised("unsupported_version")
    /\ lastCall.verdict # "grammar_error"
    /\ config.policy \in {None, LoadPolicy(config.ceiling)} =>
           result # Raised("paged_outside_policy")
=============================================================================
