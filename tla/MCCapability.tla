---------------------------- MODULE MCCapability ----------------------------
(***************************************************************************)
(* Capability strings of up to two parts: every comparator, assignment and *)
(* bare form over numbers, a word and nan; two keys; a blank part.         *)
(***************************************************************************)
EXTENDS CapabilityLaws

P(form, key, value) == [form |-> form, key |-> key, value |-> value]

Values == {Text(1), Text(2), Str("slack"), NaN}

OneKey ==
    {P(f, "amount", v) : f \in Comparators \cup {"="}, v \in Values}
    \cup {P("bare", "amount", Str("")), P("blank", "", Str(""))}

Pairs ==
    {<<P(">=", "amount", Text(2)), P("<=", "amount", Text(3))>>,
     <<P("<=", "amount", Text(1)), P("<", "amount", Text(2))>>,
     <<P("<=", "amount", Text(2)), P("=", "to", Str("slack"))>>,
     <<P("=", "amount", Text(3)), P("=", "to", Str("slack"))>>,
     <<P("=", "amount", Text(2)), P("=", "amount", Text(4))>>}

Cap(ns, parts) ==
    [wellformed |-> TRUE, namespace |-> ns, action |-> "refund", parts |-> parts]

MCBase == Cap("payments", <<>>)

MCStrings ==
    {MCBase, Cap("db", <<>>), [wellformed |-> FALSE, parts |-> <<>>]}
    \cup {Cap("payments", <<p>>) : p \in OneKey}
    \cup {Cap("payments", p) : p \in Pairs}
=============================================================================
