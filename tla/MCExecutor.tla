----------------------------- MODULE MCExecutor -----------------------------
(***************************************************************************)
(* Small instances of Executor: two kinds of tools, programs of at most    *)
(* four steps with a branch, a bounded loop, a cycle and a missing edge,   *)
(* and requests under, over and outside what a step is paged.              *)
(***************************************************************************)
EXTENDS ExecutorDocs

CONSTANTS p1, p2    \* two providers

Written(ns, action, parts) ==
    [wellformed |-> TRUE, namespace |-> ns, action |-> action, parts |-> parts]
Assign(k, n)   == [form |-> "=", key |-> k, value |-> Text(n)]
AtMost(k, n)   == [form |-> "<=", key |-> k, value |-> Text(n)]

Refund(n)      == Written("payments", "refund", <<Assign("amount", n)>>)
RefundAny      == Written("payments", "refund", <<>>)
ReadOrders     == Written("db", "read", <<>>)
Malformed      == [wellformed |-> FALSE, parts |-> <<>>]

SmallPolicy ==
    {ParseCapability(Written("payments", "refund", <<AtMost("amount", 2)>>)),
     ParseCapability(ReadOrders)}

MCRequests ==
    {ParseCapability(Refund(1)), ParseCapability(Refund(3)), ParseCapability(ReadOrders)}

Step(caps, edges, terminal) ==
    [capabilities_paged |-> caps, edges |-> edges, terminal |-> terminal,
     loop |-> None, on_limit |-> None]
End(caps) == Step(caps, <<>>, TRUE)
To(yes, no) == [on_success |-> yes, on_failure |-> no]
Program(entry, nodes) == [ir_version |-> "0.1", entry |-> entry, nodes |-> nodes]

\* A support procedure: look the order up, then refund or escalate.
Branching == Program("verify",
    [verify |-> Step(<<ReadOrders>>, To("refund", "escalate"), FALSE),
     refund |-> End(<<Refund(1)>>),
     escalate |-> End(<<>>)])

\* A bounded retry: the step repeats on failure, at most twice.
Retrying(max) == Program("try",
    [try  |-> [Step(<<Refund(1), ReadOrders>>, To("ok", "try"), FALSE)
                  EXCEPT !.loop = Whole(max), !.on_limit = "gaveup"],
     ok   |-> End(<<>>),
     gaveup |-> End(<<ReadOrders>>)])

\* A cycle without a loop clause.
Cyclic == Program("ping",
    [ping |-> Step(<<ReadOrders>>, To("pong", "done"), FALSE),
     pong |-> Step(<<>>, To("ping", "done"), FALSE),
     done |-> End(<<>>)])

\* The first step has no failure edge; the looping one no on_limit; one edge
\* leads to a step the program does not have.
Broken == Program("first",
    [first  |-> Step(<<ReadOrders>>, [on_success |-> "second"], FALSE),
     second |-> [Step(<<ReadOrders>>, To("second", "nowhere"), FALSE) EXCEPT !.loop = Whole(2)]])

\* IR that was edited by hand: a step is paged more than the policy allows, or
\* something that is no capability.
Edited    == Program("go", [go |-> End(<<RefundAny>>)])
Corrupted == Program("go", [go |-> End(<<ReadOrders, Malformed>>)])
Future    == [Branching EXCEPT !.ir_version = "0.2"]

Config(program, policy, registry) ==
    [program |-> program, policy |-> policy, registry |-> registry]

StubConfigs ==
    {Config(p, SmallPolicy, FALSE) :
        p \in {Branching, Retrying(2), Cyclic, Broken, Edited, Corrupted, Future}}
    \cup {Config(p, None, FALSE) : p \in {Edited, Corrupted}}
ReuseConfigs  == {Config(p, SmallPolicy, FALSE) : p \in {Branching, Retrying(2), Cyclic}}
RoutedConfigs == {Config(Branching, SmallPolicy, TRUE)}
RetryConfigs  == {Config(Retrying(2), SmallPolicy, FALSE)}

NoProviders   == {}
TwoProviders  == {p1, p2}
MCDeclarations ==
    {<<RefundAny>>, <<ReadOrders, Malformed, RefundAny>>, <<RefundAny, ReadOrders>>}

OneProvider    == {p1}
DoneOrFailed == {"DONE", "FAILED"}
=============================================================================
