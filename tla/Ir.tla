--------------------------------- MODULE Ir ---------------------------------
(***************************************************************************)
(* The compiled program (src/sopvm/ir/model.py): what the compiler writes, *)
(* the checker reads and the executor runs, and its way through a JSON     *)
(* file.  A program is a record with ir_version, entry and nodes, a        *)
(* function from step ids to nodes.  A condition is text that only         *)
(* handlers read; policy_ref, the path of the policy file, is left out.    *)
(*                                                                         *)
(* The loop of a node is None or its max_iterations, a number: 2 and 2.0   *)
(* are equal in Python and two numbers in YAML and JSON, of which one is   *)
(* an int.  In a file the loop is a mapping that may lack the key: None    *)
(* where there is none, <<>> for {} and <<n>> for {max_iterations: n}.     *)
(***************************************************************************)
EXTENDS Capability

CONSTANT None       \* Python's None

Whole(n) == [type |-> "int", value |-> n]
Float(n) == [type |-> "float", value |-> n]

SupportedIrVersions == {"0.1"}

WithNodeLoops(program, LoopOf(_)) ==
    [program EXCEPT !.nodes =
        [n \in DOMAIN program.nodes |->
            [program.nodes[n] EXCEPT !.loop = LoopOf(program.nodes[n].loop)]]]

\* to_json.
LoopText(loop) == IF loop = None THEN None ELSE <<loop>>
ToJson(program) == WithNodeLoops(program, LoopText)

\* from_json: a loop that is absent or falsy is none at all, any other must
\* have a positive int as max_iterations; otherwise ValueError.
LoopValue(text) == IF text = None \/ text = <<>> THEN None ELSE text[1]
Loadable(text) ==
    \A n \in DOMAIN text.nodes :
        LET loop == text.nodes[n].loop
        IN  loop \notin {None, <<>>} => loop[1].type = "int" /\ loop[1].value >= 1
FromJson(text) == WithNodeLoops(text, LoopValue)

\* Every paged capability of every node lies within the policy, a set of tokens
\* (the loop that _validate_paged_capabilities runs through).
AllPagedWithin(program, policy) ==
    \A n \in DOMAIN program.nodes :
        LET paged == program.nodes[n].capabilities_paged
        IN  \A i \in DOMAIN paged :
                /\ Grammatical(paged[i])
                /\ WithinPolicy(ParseCapability(paged[i]), policy)
=============================================================================
