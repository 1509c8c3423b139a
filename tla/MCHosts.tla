------------------------------ MODULE MCHosts -------------------------------
(***************************************************************************)
(* The order procedure of the examples under its policy in the database    *)
(* demo and in "sopvm run"; small programs for the model, which may ask    *)
(* for any table, and for repeated calls of a node.                        *)
(***************************************************************************)
EXTENDS Hosts

CONSTANT sqlite     \* the provider

Text1(ns, action, parts) ==
    [wellformed |-> TRUE, namespace |-> ns, action |-> action, parts |-> parts]
BareName(k) == [form |-> "bare", key |-> k, value |-> Str("")]
On(ns, action, what) == Text1(ns, action, <<BareName(what)>>)
Amount(form) ==
    Text1("payments", "refund", <<[form |-> form, key |-> "max_amount", value |-> Text(500)]>>)

Plain(id, cap, yes, no) ==
    [id |-> id, requires |-> <<cap>>, on_success |-> yes, on_failure |-> no,
     terminal |-> FALSE, condition |-> None, loop |-> None, on_limit |-> None]
Ask(id, cap, yes, no) == [Plain(id, cap, yes, no) EXCEPT !.condition = "Is it?"]
EndsAt(id, cap) == [Plain(id, cap, None, None) EXCEPT !.terminal = TRUE]
Doc(steps) == [schema_valid |-> TRUE, steps |-> steps]

\* examples/sops/order-processing.sop.yaml and its policy.
OrderProcessing == Doc(<<
    Plain("receive_order", OnOrders("read"), "check_value", "reject_order"),
    Ask("check_value", OnOrders("read"), "high_value_review", "auto_approve"),
    Plain("high_value_review", On("notify", "slack", "management"), "process_payment",
          "reject_order"),
    Plain("auto_approve", OnOrders("write"), "process_payment", "reject_order"),
    Ask("process_payment", Amount("="), "ship_order", "retry_payment"),
    [Ask("retry_payment", Amount("="), "ship_order", "retry_payment")
        EXCEPT !.loop = <<Whole(3)>>, !.on_limit = "payment_failed"],
    Plain("ship_order", On("net", "http", "shipping_api"), "notify_customer", "escalate"),
    EndsAt("notify_customer", On("notify", "email", "customer")),
    EndsAt("reject_order", On("notify", "email", "customer")),
    [EndsAt("payment_failed", On("notify", "email", "customer"))
        EXCEPT !.requires = Append(@, On("notify", "slack", "support"))],
    EndsAt("escalate", On("notify", "slack", "escalation"))>>)

OrderPolicy ==
    <<OnOrders("read"), OnOrders("write"), Amount("<="), On("notify", "email", "customer"),
      On("notify", "slack", "management"), On("notify", "slack", "support"),
      On("notify", "slack", "escalation"), On("net", "http", "shipping_api")>>

\* Look orders up, then try twice to record something.
Recording == Doc(<<
    Ask("look", OnOrders("read"), "record", "stop"),
    [Plain("record", OnOrders("write"), "stop", "record")
        EXCEPT !.loop = <<Whole(2)>>, !.on_limit = "gave_up"],
    EndsAt("stop", OnOrders("read")), EndsAt("gave_up", OnOrders("write"))>>)

\* A loop that repeats on success, one without a way out, a cycle.
Polls == Doc(<<
    [Plain("poll", OnOrders("read"), "poll", None) EXCEPT !.loop = <<Whole(2)>>, !.on_limit = "end"],
    EndsAt("end", OnOrders("read"))>>)
Stuck == [Polls EXCEPT !.steps[1].on_limit = None, !.steps[1].on_failure = "end"]
Circle == Doc(<<Plain("ping", OnOrders("read"), "pong", "end"),
                Plain("pong", OnOrders("read"), "ping", "end"),
                EndsAt("end", OnOrders("read"))>>)

Users     == <<Row("Dave", 0, "pending")>>
NoOrders  == [users |-> Users]
Emptied   == [users |-> Users, orders |-> <<>>]
InUse     == [users |-> Users, orders |-> SubSeq(Seeds, 1, 2)]

Host(host, program, registry, loads, found) ==
    [program |-> program, policy |-> None, registry |-> registry, host |-> host,
     loads |-> loads, found |-> found]
Compiled(doc) == CompileSop(doc, OrderPolicy)

MCHostConfigs ==
    {Host("db_demo", Compiled(OrderProcessing), TRUE, loads, found) :
        loads \in BOOLEAN, found \in {None, NoOrders, Emptied}}
    \cup {Host("run", program, registry, TRUE, InUse) :
             program \in {Compiled(OrderProcessing), Compiled(Stuck), Compiled(Circle),
                          [Compiled(Polls) EXCEPT !.ir_version = "0.2"]},
             registry \in BOOLEAN}
    \cup {Host("run", Compiled(Polls), TRUE, FALSE, None)}
    \cup {Host("node", Compiled(doc), registry, TRUE, InUse) :
             doc \in {Polls, OrderProcessing}, registry \in BOOLEAN}
    \cup {Host("llm", Compiled(Recording), TRUE, TRUE, found) : found \in {None, InUse}}
    \cup {Host("llm", Compiled(Recording), FALSE, loads, None) : loads \in BOOLEAN}

MCProviders    == {sqlite}
MCDeclarations == {DeclaredCapabilities}

\* What the model may ask for: its tools, on another table, on both, and an action
\* nobody declares.
Asked(action, tables) ==
    ParseCapability(Text1("db", action, [k \in DOMAIN tables |-> BareName(tables[k])]))
MCRequests ==
    {Asked("read", <<"orders">>), Asked("write", <<"orders">>), Asked("write", <<"users">>),
     Asked("write", <<"orders", "users">>), Asked("delete", <<"orders">>)}
    \cup {ParseCapability(Compiled(OrderProcessing).nodes[n].capabilities_declared[k]) :
             n \in DOMAIN Compiled(OrderProcessing).nodes, k \in {1}}

MCArgs ==
    {<<>>, None, [columns |-> <<"customer", "price">>],
     [row |-> [customer |-> "Eve", amount |-> 1]], [row |-> [customer |-> None, amount |-> 1]],
     [action |-> "update", set |-> [status |-> "shipped"], where |-> [customer |-> "Bob"]],
     [action |-> "update", set |-> [status |-> None], where |-> [amount |-> 50]],
     [row |-> [id |-> 1, customer |-> "Eve", amount |-> 1]],
     [action |-> "update", set |-> [id |-> 9, amount |-> 5], where |-> [id |-> 1]],
     [action |-> "drop"]}

MCDecisions ==
    {[kind |-> k] : k \in {"no_tool", "no_capability", "raises"}}
    \cup {[kind |-> "tool", cap |-> cap, args |-> args] :
             cap \in {Asked("read", <<"orders">>), Asked("write", <<"orders">>),
                      Asked("write", <<"users">>), Asked("write", <<"orders", "users">>),
                      Asked("delete", <<"orders">>)},
             args \in MCArgs}
=============================================================================
