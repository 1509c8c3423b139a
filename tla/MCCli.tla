------------------------------- MODULE MCCli --------------------------------
(***************************************************************************)
(* Procedures of two steps: the first of every shape, the second a         *)
(* terminal step with or without edges, a way back, a third step that may  *)
(* be missing, or a second step of the same name.                          *)
(***************************************************************************)
EXTENDS Cli

Part2(form, n) == [form |-> form, key |-> "amount", value |-> Text(n)]
Cap(action, parts) ==
    [wellformed |-> TRUE, namespace |-> "payments", action |-> action, parts |-> parts]

Refund(n)  == Cap("refund", <<Part2("=", n)>>)
Look       == Cap("look", <<>>)
BlankParam == Cap("look", <<[form |-> "blank", key |-> "", value |-> Str("")], Part2("=", 1)>>)
Junk       == [wellformed |-> FALSE, parts |-> <<>>]

Step(id, requires, yes, no, terminal, loop, limit) ==
    [id |-> id, requires |-> requires, on_success |-> yes, on_failure |-> no,
     terminal |-> terminal,
     condition |-> IF terminal THEN None ELSE "Is it?", loop |-> loop, on_limit |-> limit]

FirstSteps ==
    {Step("a", requires, yes, no, terminal, loop, limit) :
        requires \in {<<Look>>, <<Refund(2), Look>>}, yes \in {None, "b", "c"},
        no \in {None, "a"}, terminal \in BOOLEAN, loop \in {None, <<>>, <<Whole(2)>>, <<Float(2)>>},
        limit \in {None, "b", "c"}}

End(id, requires) == Step(id, requires, None, None, TRUE, None, None)

Rests ==
    {<<End("b", <<Refund(1)>>)>>,
     <<End("b", <<BlankParam>>)>>,
     <<End("b", <<Junk>>)>>,
     <<Step("b", <<Look>>, "a", None, FALSE, None, None), End("c", <<Refund(3)>>)>>,
     <<Step("b", <<Look>>, "c", None, TRUE, None, None), End("c", <<Look>>)>>,
     <<End("a", <<Look>>), End("b", <<Look>>)>>}

MCDocuments ==
    {[schema_valid |-> TRUE, steps |-> <<first>> \o rest] :
        first \in FirstSteps, rest \in Rests}
    \cup {[schema_valid |-> FALSE]}

MCPolicyFiles ==
    {<<Look, Cap("refund", <<Part2("<=", 2)>>)>>, <<Look>>, <<Cap("refund", <<>>), Look>>,
     <<Look, BlankParam>>, None}

Node(paged, loop) ==
    [capabilities_declared |-> <<Look>>, capabilities_paged |-> paged,
     edges |-> [on_success |-> "b"], terminal |-> FALSE, condition |-> None,
     loop |-> loop, on_limit |-> None]
Edited(node) ==
    [ir_version |-> "0.1", entry |-> "a", nodes |-> [a |-> node]]

MCEditedIrs ==
    {Edited(Node(<<Cap("refund", <<>>)>>, None)), Edited(Node(<<Look>>, <<Whole(0)>>)),
     Edited(Node(<<Look>>, <<>>))}
=============================================================================
