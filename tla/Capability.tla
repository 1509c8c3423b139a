----------------------------- MODULE Capability -----------------------------
(***************************************************************************)
(* Capability tokens: how a capability string becomes a token              *)
(* (src/sopvm/capability/token.py) and when a requested token lies under a *)
(* ceiling (satisfies in src/sopvm/checker/check.py).                      *)
(*                                                                         *)
(* A string is kept as the parts its grammar splits it into.  Parameter    *)
(* values are tagged records:                                              *)
(*   bare           Python's True, the value of a bare identifier          *)
(*   num, nan       a float; integers stand for floats, nan is the one     *)
(*                  float that is unequal to itself                        *)
(*   text           a str that float() accepts, before coercion            *)
(*   str            any other str                                          *)
(*   cmp            the dict {"op": ..., "value": ...} of a comparator     *)
(***************************************************************************)
EXTENDS Integers, Sequences

Comparators == {"<=", ">=", "<", ">", "=="}

Bare       == [kind |-> "bare"]
NaN        == [kind |-> "nan"]
Num(n)     == [kind |-> "num", num |-> n]
Text(n)    == [kind |-> "text", num |-> n]
Str(s)     == [kind |-> "str", str |-> s]
Cmp(op, v) == [kind |-> "cmp", op |-> op, value |-> v]

CapabilityGrammarError == "CapabilityGrammarError"

-----------------------------------------------------------------------------
(* Parsing.  A capability string is [wellformed, namespace, action, parts]: *)
(* whether the outer expression matches, and the comma-separated parameter  *)
(* parts, each [form, key, value] with form a comparator, "=" (assignment), *)
(* "bare" (a lone identifier) or "blank" (nothing between two commas).      *)

\* The values a string can spell out, and its parts.
IsScalar(v) ==
    \/ v.kind = "nan"  /\ v = NaN
    \/ v.kind = "text" /\ v = Text(v.num) /\ v.num \in Int
    \/ v.kind = "str"  /\ v = Str(v.str)

WrittenPart(p) == p.form \in Comparators \cup {"=", "bare", "blank"} /\ IsScalar(p.value)

\* float(raw) where that succeeds, the string itself where it does not.
CoerceValue(v) == IF v.kind = "text" THEN Num(v.num) ELSE v

ParamValue(part) ==
    CASE part.form \in Comparators -> Cmp(part.form, CoerceValue(part.value))
      [] part.form = "="           -> CoerceValue(part.value)
      [] OTHER                     -> Bare

\* The parameters are a dict filled from left to right: of several parts with
\* one key, the last one is kept.
LastWith(parts, k) ==
    CHOOSE i \in DOMAIN parts :
        /\ parts[i].key = k
        /\ \A j \in DOMAIN parts : parts[j].key = k => j <= i

Params(parts) ==
    [k \in {parts[i].key : i \in DOMAIN parts} |->
        ParamValue(parts[LastWith(parts, k)])]

Grammatical(s) ==
    s.wellformed /\ \A i \in DOMAIN s.parts : s.parts[i].form # "blank"

ParseCapability(s) ==
    IF Grammatical(s)
    THEN [namespace |-> s.namespace, action |-> s.action, params |-> Params(s.parts)]
    ELSE CapabilityGrammarError

\* The type of a token's params: the value in a comparator dict is a float or a
\* str, never another dict.
FlatToken(t) ==
    \A k \in DOMAIN t.params :
        t.params[k].kind = "cmp" => t.params[k].value.kind # "cmp"

-----------------------------------------------------------------------------
(* Comparing a request with a ceiling. *)

\* The values _to_float turns into a float.  True is one: bool is an int.
IsFloat(v) == v.kind \in {"bare", "num", "nan", "text"}
FloatOf(v) == IF v.kind = "bare" THEN 1 ELSE v.num

\* Python's == on parameter values, True == 1.0 and nan != nan included.
PyEq(v, w) ==
    \/ v.kind \in {"bare", "num"} /\ w.kind \in {"bare", "num"} /\ FloatOf(v) = FloatOf(w)
    \/ v.kind \in {"text", "str", "cmp"} /\ v = w

\* Slip: "<" read as "<=".
CompareFloatsLoosely(r, op, c) ==
    \/ op \in {"<=", "<"} /\ r <= c
    \/ op = ">=" /\ r >= c
    \/ op = ">"  /\ r > c
    \/ op = "==" /\ r = c

CompareFloats(r, op, c) ==
    \/ op = "<=" /\ r <= c
    \/ op = ">=" /\ r >= c
    \/ op = "<"  /\ r < c
    \/ op = ">"  /\ r > c
    \/ op = "==" /\ r = c

\* Slip: what is not numeric passes every operator but ==.
CompareNumbersOnly(requested, op, ceiling) ==
    IF IsFloat(requested) /\ IsFloat(ceiling)
    THEN /\ requested.kind # "nan" /\ ceiling.kind # "nan"
         /\ CompareFloats(FloatOf(requested), op, FloatOf(ceiling))
    ELSE op = "==" => PyEq(requested, ceiling)

\* _compare: numerically when both sides convert to floats, else only ==.
Compare(requested, op, ceiling) ==
    IF IsFloat(requested) /\ IsFloat(ceiling)
    THEN /\ requested.kind # "nan" /\ ceiling.kind # "nan"
         /\ CompareFloats(FloatOf(requested), op, FloatOf(ceiling))
    ELSE op = "==" /\ PyEq(requested, ceiling)

\* One parameter: a comparator, a bare identifier (identity with True), or an
\* exact match.
Admits(allowed, requested) ==
    \/ allowed.kind = "cmp"  /\ Compare(requested, allowed.op, allowed.value)
    \/ allowed.kind = "bare" /\ requested.kind = "bare"
    \/ allowed.kind \notin {"cmp", "bare"} /\ PyEq(requested, allowed)

\* Every parameter of the ceiling must be present and admitted; parameters of
\* the request that the ceiling does not mention are unconstrained.
Satisfies(requested, allowed) ==
    /\ requested.namespace = allowed.namespace
    /\ requested.action = allowed.action
    /\ \A k \in DOMAIN allowed.params :
           /\ k \in DOMAIN requested.params
           /\ Admits(allowed.params[k], requested.params[k])

\* A token lies within a policy when some ceiling of it admits the token.
WithinPolicy(token, policy) == \E allowed \in policy : Satisfies(token, allowed)
=============================================================================
