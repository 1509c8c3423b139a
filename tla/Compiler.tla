------------------------------ MODULE Compiler ------------------------------
(***************************************************************************)
(* From a procedure to a compiled program: parse and its semantic checks   *)
(* (src/sopvm/parser/parse.py), lowering (compiler/lower.py), loading the  *)
(* policy (capability/policy.py), paging (compiler/page.py), and the       *)
(* static checker (checker/check.py).                                      *)
(*                                                                         *)
(* A document is [schema_valid, steps]: whether the YAML passes the JSON   *)
(* Schema, and its steps, each [id, requires, on_success, on_failure,      *)
(* terminal, condition, loop, on_limit], None where not given.  A policy   *)
(* file is the sequence of its entries, None where its YAML is no policy.  *)
(* Each pass is one operator for its result and one for the exception it   *)
(* raises, None if it returns.                                             *)
(***************************************************************************)
EXTENDS Ir

\* The exceptions compile_sop may end in, besides those of reading a file.
Exceptions ==
    {"SchemaValidationError", "KeyError", "SemanticError", "LoweringError", "PolicyError",
     CapabilityGrammarError}

ASSUME NoneAssumption == None \notin Exceptions

Ids(doc) == {doc.steps[i].id : i \in DOMAIN doc.steps}

Edges(step) == {step.on_success, step.on_failure} \ {None}

-----------------------------------------------------------------------------
(* parse.  The schema lets "loop: {}" through, _build_step then indexes it. *)

BuildFails(doc) == \E i \in DOMAIN doc.steps : doc.steps[i].loop = <<>>

\* Slip: on_limit is not looked up.
EdgesResolveButLimit(doc) ==
    \A i \in DOMAIN doc.steps :
        ~ doc.steps[i].terminal =>
            Edges(doc.steps[i]) # {} /\ Edges(doc.steps[i]) \subseteq Ids(doc)

\* _check_edges.  Terminal steps are skipped; on_limit counts only with a loop.
EdgesResolve(doc) ==
    \A i \in DOMAIN doc.steps :
        LET step == doc.steps[i]
        IN  ~ step.terminal =>
                /\ Edges(step) # {}
                /\ Edges(step) \subseteq Ids(doc)
                /\ step.loop # None => step.on_limit \in Ids(doc) \cup {None}

\* _check_reachability: every edge and every on_limit counts, those of terminal
\* steps and of steps without a loop included.
ClosedUnderEdges(doc, S) ==
    \A i \in DOMAIN doc.steps :
        doc.steps[i].id \in S =>
            (Edges(doc.steps[i]) \cup {doc.steps[i].on_limit}) \cap Ids(doc) \subseteq S

AllReachable(doc) ==
    \A S \in SUBSET Ids(doc) :
        doc.steps[1].id \in S /\ ClosedUnderEdges(doc, S) => S = Ids(doc)

\* _check_capability_grammar looks at the outer form only.
SurfaceGrammar(doc) ==
    \A i \in DOMAIN doc.steps :
        \A j \in DOMAIN doc.steps[i].requires : doc.steps[i].requires[j].wellformed

ParseError(doc) ==
    IF ~ doc.schema_valid THEN "SchemaValidationError"
    ELSE IF BuildFails(doc) THEN "KeyError"
    ELSE IF EdgesResolve(doc) /\ AllReachable(doc) /\ SurfaceGrammar(doc) THEN None
    ELSE "SemanticError"

-----------------------------------------------------------------------------
(* lower. *)

LowerError(doc) ==
    IF \E i, j \in DOMAIN doc.steps : i # j /\ doc.steps[i].id = doc.steps[j].id
    THEN "LoweringError" ELSE None

LoweredNode(step) ==
    [capabilities_declared |-> step.requires,
     capabilities_paged |-> step.requires,
     edges |-> [e \in {k \in {"on_success", "on_failure"} : step[k] # None} |-> step[e]],
     terminal |-> step.terminal,
     condition |-> step.condition,
     loop |-> LoopValue(step.loop),
     on_limit |-> step.on_limit]

StepOf(doc, id) == doc.steps[CHOOSE i \in DOMAIN doc.steps : doc.steps[i].id = id]

Lower(doc) ==
    [ir_version |-> "0.1",
     entry |-> doc.steps[1].id,
     nodes |-> [id \in Ids(doc) |-> LoweredNode(StepOf(doc, id))]]

-----------------------------------------------------------------------------
(* load_policy: a non-empty list, every entry of it grammatical. *)

PolicyError(file) ==
    IF file # None /\ file # <<>> /\ \A i \in DOMAIN file : Grammatical(file[i])
    THEN None ELSE "PolicyError"

LoadPolicy(file) == {ParseCapability(file[i]) : i \in DOMAIN file}

(* apply_paging. *)

PagingError(program) ==
    IF \A n \in DOMAIN program.nodes :
           \A i \in DOMAIN program.nodes[n].capabilities_declared :
               Grammatical(program.nodes[n].capabilities_declared[i])
    THEN None ELSE CapabilityGrammarError

\* Slip: the placeholder that lower leaves.
PagedPlaceholder(declared, policy) == declared

\* The declared capabilities under the policy, in their order.  They keep the
\* positions they have in the declared list, so the list may have gaps.
PagedSubset(declared, policy) ==
    [i \in {j \in DOMAIN declared : WithinPolicy(ParseCapability(declared[j]), policy)} |->
        declared[i]]

\* Slip: the nodes are built anew without the condition.
ApplyPagingBare(program, policy) ==
    [program EXCEPT !.nodes =
        [n \in DOMAIN program.nodes |->
            [program.nodes[n] EXCEPT !.condition = None, !.capabilities_paged =
                PagedSubset(program.nodes[n].capabilities_declared, policy)]]]

\* Slip: without on_limit.
ApplyPagingWithoutLimit(program, policy) ==
    [program EXCEPT !.nodes =
        [n \in DOMAIN program.nodes |->
            [program.nodes[n] EXCEPT !.on_limit = None, !.capabilities_paged =
                PagedSubset(program.nodes[n].capabilities_declared, policy)]]]

ApplyPaging(program, policy) ==
    [program EXCEPT !.nodes =
        [n \in DOMAIN program.nodes |->
            [program.nodes[n] EXCEPT !.capabilities_paged =
                PagedSubset(program.nodes[n].capabilities_declared, policy)]]]

(* compile_sop: the passes in their order.  It never calls the checker. *)

CompileError(doc, file) ==
    IF ParseError(doc) # None THEN ParseError(doc)
    ELSE IF LowerError(doc) # None THEN LowerError(doc)
    ELSE IF PolicyError(file) # None THEN PolicyError(file)
    ELSE PagingError(Lower(doc))

CompileSop(doc, file) == ApplyPaging(Lower(doc), LoadPolicy(file))

-----------------------------------------------------------------------------
(* check: a violation for every declared capability that is malformed or not *)
(* under the policy.                                                         *)

\* Slip: the checker compares namespace and action only.
AllowedByName(cap, policy) ==
    /\ Grammatical(cap)
    /\ \E t \in policy : t.namespace = cap.namespace /\ t.action = cap.action

Allowed(cap, policy) == Grammatical(cap) /\ WithinPolicy(ParseCapability(cap), policy)

CheckViolations(program, policy) ==
    UNION {{[step_id |-> n, requested |-> program.nodes[n].capabilities_declared[i]] :
                i \in {j \in DOMAIN program.nodes[n].capabilities_declared :
                         ~ Allowed(program.nodes[n].capabilities_declared[j], policy)}} :
           n \in DOMAIN program.nodes}
=============================================================================
