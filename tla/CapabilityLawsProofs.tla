------------------------ MODULE CapabilityLawsProofs ------------------------
(***************************************************************************)
(* The laws of capability strings, for every policy entry, step capability *)
(* and request that can be written: however many parts, keys and numbers.  *)
(***************************************************************************)
EXTENDS CapabilityLaws, CommonProofs

\* The strings that are in use are grammatical ones.
LawsInv ==
    /\ allowed \in Strings /\ Grammatical(allowed)
    /\ paged \in Strings /\ Grammatical(paged)
    /\ requested \in Strings /\ Grammatical(requested)

\* Only grammatical strings are ever put to use.
LEMMA LawsInvariant ==
  Spec => []LawsInv
  <1>1. Init => LawsInv
    BY LawsAssumption DEF Init, LawsInv
  <1>2. LawsInv /\ [Next]_lawVars => LawsInv'
    BY DEF LawsInv, Next, WritePolicy, WriteStep, MakeRequest, lawVars, Grammatical
  <1>3. QED
    BY <1>1, <1>2, PTL DEF Spec

\* What parse_capability makes of a string in use.
LEMMA ParsedString ==
  ASSUME NEW s \in Strings, Grammatical(s)
  PROVE  /\ s.parts \in Seq({s.parts[i] : i \in DOMAIN s.parts})
         /\ \A i \in DOMAIN s.parts : /\ s.parts[i].form \in Comparators \cup {"=", "bare"}
                                      /\ IsScalar(s.parts[i].value)
         /\ ParseCapability(s).namespace = s.namespace
         /\ ParseCapability(s).action = s.action
         /\ DOMAIN ParseCapability(s).params = {s.parts[i].key : i \in DOMAIN s.parts}
         /\ \A k \in DOMAIN ParseCapability(s).params :
                \E i \in DOMAIN s.parts : /\ s.parts[i].key = k
                                          /\ i = LastWith(s.parts, k)
                                          /\ ParseCapability(s).params[k] = ParamValue(s.parts[i])
         /\ FlatToken(ParseCapability(s))
  <1>1. /\ s.parts \in Seq({s.parts[i] : i \in DOMAIN s.parts})
        /\ \A i \in DOMAIN s.parts : WrittenPart(s.parts[i])
    BY LawsAssumption
  <1>2. \A i \in DOMAIN s.parts : s.parts[i].form # "blank"
    BY DEF Grammatical
  <1>3. ParseCapability(s)
          = [namespace |-> s.namespace, action |-> s.action, params |-> Params(s.parts)]
    BY DEF ParseCapability
  <1>4. /\ ParseCapability(s).namespace = s.namespace
        /\ ParseCapability(s).action = s.action
        /\ ParseCapability(s).params = Params(s.parts)
    BY <1>3
  <1>5. FlatToken(ParseCapability(s))
    BY <1>1, ParsedTokensAreFlat
  <1>6. \A k \in {s.parts[i].key : i \in DOMAIN s.parts} :
            LastWith(s.parts, k) \in DOMAIN s.parts /\ s.parts[LastWith(s.parts, k)].key = k
    BY <1>1, LastWithExists
  <1>7. QED
    BY <1>1, <1>2, <1>4, <1>5, <1>6 DEF WrittenPart, Params

\* A value that a request can carry: anything but a text that is not coerced.
Carried(v) ==
    \/ v = Bare \/ v = NaN
    \/ v.kind = "num" /\ v = Num(v.num) /\ v.num \in Int
    \/ v.kind = "str" /\ v = Str(v.str)
    \/ v.kind = "cmp"

\* The value of a part of a request is one of those.
LEMMA ValuesCarried ==
  ASSUME NEW p, p.form \in Comparators \cup {"=", "bare"}, IsScalar(p.value)
  PROVE  Carried(ParamValue(p))
  BY DEF Carried, ParamValue, CoerceValue, IsScalar, Cmp, Num, Text, NaN, Str, Bare, Comparators

\* One part of a ceiling: what _compare and the equality tests make of it is what
\* is written.
LEMMA PartAsWritten ==
  ASSUME NEW p, p.form \in Comparators \cup {"=", "bare"}, IsScalar(p.value),
         NEW v, Carried(v)
  PROVE  Admits(ParamValue(p), v) <=> PartAdmits(p, v)
  <1>1. CASE p.form = "bare"
    BY <1>1 DEF Admits, ParamValue, PartAdmits, Carried, Bare, Comparators, NaN, Num, Str
  <1>2. CASE p.form = "="
    <2>1. ParamValue(p) = CoerceValue(p.value)
      BY <1>2 DEF ParamValue, Comparators
    <2>2. CASE p.value.kind = "text"
      <3>1. ParamValue(p) = Num(p.value.num) /\ p.value.num \in Int
        BY <2>1, <2>2 DEF CoerceValue, IsScalar
      <3>2. Admits(ParamValue(p), v) <=> PyEq(v, Num(p.value.num))
        BY <3>1 DEF Admits, Num
      <3>3. PartAdmits(p, v) <=> \/ v.kind = "num" /\ v.num = p.value.num
                                 \/ v = Bare /\ 1 = p.value.num
        BY <1>2, <2>2 DEF PartAdmits, Interval
      <3>4. QED
        BY <3>1, <3>2, <3>3 DEF PyEq, Carried, FloatOf, Num, Bare, NaN, Str
    <2>3. CASE p.value.kind # "text"
      BY <1>2, <2>1, <2>3 DEF CoerceValue, IsScalar, Admits, PartAdmits, PyEq, Carried,
                              FloatOf, Num, Bare, NaN, Str
    <2>4. QED
      BY <2>2, <2>3
  <1>3. CASE p.form \in Comparators
    <2>1. ParamValue(p) = Cmp(p.form, CoerceValue(p.value)) /\ p.form \notin {"=", "bare"}
      BY <1>3 DEF ParamValue, Comparators
    <2>2. Admits(ParamValue(p), v) <=> Compare(v, p.form, CoerceValue(p.value))
      BY <2>1 DEF Admits, Cmp
    <2>3. CASE p.value.kind = "text"
      <3> DEFINE b == p.value.num
      <3>1. CoerceValue(p.value) = Num(b) /\ b \in Int
        BY <2>3 DEF CoerceValue, IsScalar
      <3>2. PartAdmits(p, v) <=> \/ v.kind = "num" /\ v.num \in Interval(p.form, b)
                                 \/ v = Bare /\ 1 \in Interval(p.form, b)
        BY <2>1, <2>3 DEF PartAdmits
      <3>3. ASSUME NEW n \in Int
            PROVE  n \in Interval(p.form, b) <=> CompareFloats(n, p.form, b)
        BY <1>3, <3>1 DEF Interval, CompareFloats, Comparators
      <3>4. CASE v.kind = "num"
        BY <2>2, <3>1, <3>2, <3>3, <3>4 DEF Carried, Compare, IsFloat, FloatOf, Num, Bare, NaN
      <3>5. CASE v = Bare
        BY <2>2, <3>1, <3>2, <3>3, <3>5 DEF Compare, IsFloat, FloatOf, Num, Bare
      <3>6. CASE v.kind # "num" /\ v # Bare
        BY <2>2, <3>1, <3>2, <3>6 DEF Carried, Compare, IsFloat, PyEq, Num, Bare, NaN, Str
      <3>7. QED
        BY <3>4, <3>5, <3>6
    <2>4. CASE p.value.kind # "text"
      BY <1>3, <2>1, <2>2, <2>4 DEF CoerceValue, IsScalar, Compare, PartAdmits, PyEq, Carried,
                     IsFloat, FloatOf, Num, Bare, NaN, Str, Comparators
    <2>5. QED
      BY <2>3, <2>4
  <1>4. QED
    BY <1>1, <1>2, <1>3

\* A ceiling admits exactly the calls that meet each of its parts, as long as no
\* key occurs in two of them (token.py:102-127, check.py:62-124).
THEOREM CeilingsReadAsWritten ==
  Spec => []CeilingAsWritten
  <1>1. ASSUME LawsInv, DistinctKeys(allowed)
        PROVE  Satisfies(Call, Policy) <=> SatisfiesAsWritten(Call, allowed)
    <2> DEFINE parts == allowed.parts
    <2>1. ASSUME NEW i \in DOMAIN parts
          PROVE  /\ parts[i].key \in DOMAIN Policy.params
                 /\ Policy.params[parts[i].key] = ParamValue(parts[i])
      <3>1. parts[i].key \in DOMAIN Policy.params
        <4>1. DOMAIN Policy.params = {allowed.parts[j].key : j \in DOMAIN allowed.parts}
          BY <1>1, ParsedString DEF LawsInv, Policy
        <4>2. QED
          BY <4>1
      <3>2. PICK j \in DOMAIN parts : /\ parts[j].key = parts[i].key
                                      /\ Policy.params[parts[i].key] = ParamValue(parts[j])
        BY <1>1, <3>1, ParsedString DEF LawsInv, Policy
      <3>3. j = i
        BY <1>1, <3>2 DEF DistinctKeys
      <3>4. QED
        BY <3>1, <3>2, <3>3
    <2>2. \A k \in DOMAIN Policy.params : \E i \in DOMAIN parts : parts[i].key = k
      BY <1>1, ParsedString DEF LawsInv, Policy
    <2>3. Policy.namespace = allowed.namespace /\ Policy.action = allowed.action
      BY <1>1, ParsedString DEF LawsInv, Policy
    <2>4. ASSUME NEW k \in DOMAIN Call.params
          PROVE  Carried(Call.params[k])
      <3>1. PICK i \in DOMAIN requested.parts :
                   Call.params[k] = ParamValue(requested.parts[i])
        BY <1>1, <2>4, ParsedString DEF LawsInv, Call
      <3>2. /\ requested.parts[i].form \in Comparators \cup {"=", "bare"}
            /\ IsScalar(requested.parts[i].value)
        BY <1>1, ParsedString DEF LawsInv
      <3>3. QED
        BY <3>1, <3>2, ValuesCarried
    <2>5. ASSUME NEW i \in DOMAIN parts, parts[i].key \in DOMAIN Call.params
          PROVE  Admits(Policy.params[parts[i].key], Call.params[parts[i].key])
                   <=> PartAdmits(parts[i], Call.params[parts[i].key])
      <3>1. parts[i].form \in Comparators \cup {"=", "bare"} /\ IsScalar(parts[i].value)
        BY <1>1, ParsedString DEF LawsInv
      <3>2. QED
        BY <2>1, <2>4, <2>5, <3>1, PartAsWritten
    <2> HIDE DEF parts
    <2>6. (\A k \in DOMAIN Policy.params :
               k \in DOMAIN Call.params /\ Admits(Policy.params[k], Call.params[k]))
            <=> \A i \in DOMAIN parts :
                    /\ parts[i].key \in DOMAIN Call.params
                    /\ PartAdmits(parts[i], Call.params[parts[i].key])
      BY <2>1, <2>2, <2>5
    <2>7. QED
      BY <2>3, <2>6 DEF Satisfies, SatisfiesAsWritten, parts
  <1>2. LawsInv => CeilingAsWritten
    BY <1>1 DEF CeilingAsWritten
  <1>3. QED
    BY <1>2, LawsInvariant, PTL

\* A call under a paged capability that is under the policy is under the policy:
\* the gate may look at the paged capability alone (gate.py:35, check.py:45).
THEOREM GatesComposeWithPolicies ==
  Spec => []GateComposesWithPolicy
  <1>1. LawsInv => GateComposesWithPolicy
    BY ParsedString, SatisfiesIsTransitive DEF LawsInv, GateComposesWithPolicy, Policy
  <1>2. QED
    BY <1>1, LawsInvariant, PTL

\* Nobody can be paged a range: a capability under the policy has a value, never
\* a comparator, wherever the policy names a parameter (check.py:91-115).
THEOREM PagedIsNeverARange ==
  Spec => []PagedIsConcrete
  <1>1. ASSUME LawsInv, Satisfies(Paged, Policy), NEW k \in DOMAIN Policy.params
        PROVE  Paged.params[k].kind # "cmp"
    <2>1. Admits(Policy.params[k], Paged.params[k])
      BY <1>1 DEF Satisfies
    <2>2. Policy.params[k].kind = "cmp" => Policy.params[k].value.kind # "cmp"
      BY <1>1, ParsedString DEF LawsInv, Policy, FlatToken
    <2>3. QED
      BY <2>1, <2>2 DEF Admits, Compare, IsFloat, PyEq
  <1>2. LawsInv => PagedIsConcrete
    BY <1>1 DEF PagedIsConcrete
  <1>3. QED
    BY <1>2, LawsInvariant, PTL
=============================================================================
