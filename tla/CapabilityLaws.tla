--------------------------- MODULE CapabilityLaws ---------------------------
(***************************************************************************)
(* A capability on its way from the policy to a call: somebody writes a    *)
(* policy entry, somebody writes the capability of a step, a handler makes *)
(* a request.  The laws below relate the three strings through             *)
(* parse_capability and satisfies; the definitions they are checked        *)
(* against read a ceiling part by part, as it is written.                  *)
(***************************************************************************)
EXTENDS Capability

CONSTANTS
    Strings,    \* the capability strings to check
    Base        \* one of them, with no parameters

\* What a written string looks like once it is split into parts.
ASSUME LawsAssumption ==
    /\ Base \in Strings /\ Grammatical(Base)
    /\ \A s \in Strings : Grammatical(s) =>
           /\ s.parts \in Seq({s.parts[i] : i \in DOMAIN s.parts})
           /\ \A i \in DOMAIN s.parts : WrittenPart(s.parts[i])

VARIABLES allowed, paged, requested, written

lawVars == <<allowed, paged, requested, written>>

Init == allowed = Base /\ paged = Base /\ requested = Base /\ written = 0

WritePolicy(s) ==
    /\ written = 0 /\ Grammatical(s)
    /\ allowed' = s /\ written' = 1 /\ UNCHANGED <<paged, requested>>
WriteStep(s) ==
    /\ written = 1 /\ Grammatical(s)
    /\ paged' = s /\ written' = 2 /\ UNCHANGED <<allowed, requested>>
MakeRequest(s) ==
    /\ written = 2 /\ Grammatical(s)
    /\ requested' = s /\ written' = 3 /\ UNCHANGED <<allowed, paged>>

Next == \E s \in Strings : WritePolicy(s) \/ WriteStep(s) \/ MakeRequest(s)
Spec == Init /\ [][Next]_lawVars

Policy == ParseCapability(allowed)
Paged  == ParseCapability(paged)
Call   == ParseCapability(requested)

DistinctKeys(s) ==
    \A i, j \in DOMAIN s.parts : s.parts[i].key = s.parts[j].key => i = j

\* The numbers an operator and a bound leave.
Interval(op, b) ==
    CASE op = "<=" -> {n \in Int : n <= b} [] op = "<" -> {n \in Int : n < b}
      [] op = ">=" -> {n \in Int : n >= b} [] op = ">" -> {n \in Int : n > b}
      [] OTHER -> {b}

\* What one written part asks of a value of the request.
PartAdmits(part, v) ==
    IF part.form = "bare" THEN v = Bare
    ELSE IF part.value.kind = "text"
    THEN LET numbers == Interval(part.form, part.value.num)
         IN  \/ v.kind = "num" /\ v.num \in numbers
             \/ v = Bare /\ 1 \in numbers
    ELSE part.form \in {"=", "=="} /\ part.value # NaN /\ v = part.value

SatisfiesAsWritten(call, s) ==
    /\ call.namespace = s.namespace /\ call.action = s.action
    /\ \A i \in DOMAIN s.parts :
           /\ s.parts[i].key \in DOMAIN call.params
           /\ PartAdmits(s.parts[i], call.params[s.parts[i].key])

-----------------------------------------------------------------------------
\* A ceiling admits exactly the calls that meet each of its parts, as long as no
\* key occurs in two of them (token.py:102-127, check.py:62-124).
CeilingAsWritten ==
    DistinctKeys(allowed) =>
        (Satisfies(Call, Policy) <=> SatisfiesAsWritten(Call, allowed))

\* A call under a paged capability that is under the policy is under the policy:
\* the gate may look at the paged capability alone (gate.py:35, check.py:45).
GateComposesWithPolicy ==
    Satisfies(Call, Paged) /\ Satisfies(Paged, Policy) => Satisfies(Call, Policy)

\* A step cannot be paged a range: on every parameter the policy mentions, a
\* capability under the policy has a value and not a comparator, since
\* a comparator never satisfies one (check.py:91-115).
PagedIsConcrete ==
    Satisfies(Paged, Policy) =>
        \A k \in DOMAIN Policy.params : Paged.params[k].kind # "cmp"

(* What the docstring of satisfies says where the code does otherwise.      *)

\* check.py:50: "For each param in allowed that has a comparator ... the
\* corresponding param in requested must satisfy it numerically".  Of two comparators on one
\* key parse_capability keeps the last (token.py:107).
EveryComparatorCounts ==
    Satisfies(Call, Policy) =>
        \A i \in DOMAIN allowed.parts :
            LET part == allowed.parts[i]
            IN  part.form \in Comparators /\ part.value.kind = "text" =>
                    /\ part.key \in DOMAIN Call.params
                    /\ PartAdmits(part, Call.params[part.key])
=============================================================================
