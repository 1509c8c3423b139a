---------------------------- MODULE MCDeployment ----------------------------
(***************************************************************************)
(* Procedures that ask for more than the policy, that loop, that leave     *)
(* edges dangling where the parser does not look; each run without a       *)
(* policy, with that of the compilation and with a narrower one.           *)
(***************************************************************************)
EXTENDS MCExecutor, Deployment

DocStep(id, requires, yes, no) ==
    [id |-> id, requires |-> requires, on_success |-> yes, on_failure |-> no,
     terminal |-> FALSE, condition |-> None, loop |-> None, on_limit |-> None]
DocEnd(id, requires) == [DocStep(id, requires, None, None) EXCEPT !.terminal = TRUE]
Doc(steps) == [schema_valid |-> TRUE, steps |-> steps]

\* The refund asks for more than the policy allows and is narrowed.
Support == Doc(<<
    DocStep("verify", <<ReadOrders>>, "refund", "escalate"),
    DocStep("refund", <<Refund(3), Refund(1), RefundAny>>, "escalate", None),
    DocEnd("escalate", <<ReadOrders>>)>>)

\* A bounded retry whose last step names a target that does not exist.
Retry == Doc(<<
    [DocStep("try", <<Refund(1), ReadOrders>>, "ok", "try")
        EXCEPT !.loop = <<Whole(2)>>, !.on_limit = "ok"],
    [DocEnd("ok", <<Refund(2)>>) EXCEPT !.on_failure = "nowhere"]>>)

\* The on_limit of a step without a loop is not looked up.
Dangling == Doc(<<
    [DocStep("one", <<ReadOrders>>, "two", "one") EXCEPT !.on_limit = "nowhere"],
    [DocStep("two", <<Refund(2)>>, "one", "end") EXCEPT !.loop = <<Whole(3)>>],
    DocEnd("end", <<RefundAny>>)>>)

Ceiling  == <<Written("payments", "refund", <<AtMost("amount", 2)>>), ReadOrders>>
Narrower == {ParseCapability(ReadOrders)}

MCDeployments ==
    {[program |-> CompileSop(doc, Ceiling), policy |-> policy, registry |-> FALSE,
      source |-> doc, ceiling |-> Ceiling] :
        doc \in {Support, Retry, Dangling},
        policy \in {None, LoadPolicy(Ceiling), Narrower}}
=============================================================================
