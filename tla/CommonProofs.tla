---------------------------- MODULE CommonProofs ----------------------------
(***************************************************************************)
(* What the proofs of several components need: facts about numbers, finite *)
(* sets and sequences; that satisfies is transitive, so that a check       *)
(* against a ceiling of a ceiling is enough; and what a compiled program   *)
(* is like.  Of the ceilings only the type of their params is assumed, and *)
(* nothing of the request, so the facts about tokens hold for those a      *)
(* handler builds by hand as well as for parsed ones.                      *)
(***************************************************************************)
EXTENDS Compiler, FiniteSets, FiniteSetTheorems, WellFoundedInduction, TLAPS

-----------------------------------------------------------------------------
(* Numbers, finite sets, sequences. *)

\* Some numbers have a least one.
LEMMA LeastOf ==
  ASSUME NEW S, S \subseteq Nat, S # {}
  PROVE  \E x \in S : \A y \in S : x <= y
  <1>1. PICK x \in S : \A y \in S : ~ (<<y, x>> \in OpToRel(<, Nat))
    BY NatLessThanWellFounded, WFMin
  <1>2. \A y \in S : ~ (y < x)
    BY <1>1 DEF OpToRel
  <1>3. QED
    BY <1>2

\* Some numbers up to n have a greatest one.
LEMMA GreatestOf ==
  ASSUME NEW n \in Nat, NEW I \in SUBSET (1..n), I # {}
  PROVE  \E i \in I : \A j \in I : j <= i
  <1> DEFINE D == {n - i : i \in I}
  <1>1. D \subseteq Nat /\ D # {}
    <2>1. \A i \in I : n - i \in Nat
      <3>1. \A i \in I : i \in 1..n
        OBVIOUS
      <3>2. QED
        BY <3>1
    <2>2. PICK i \in I : TRUE
      OBVIOUS
    <2>3. n - i \in D
      OBVIOUS
    <2>4. QED
      BY <2>1, <2>3
  <1>2. PICK x \in D : \A y \in D : x <= y
    BY <1>1, LeastOf
  <1>3. PICK i \in I : x = n - i
    OBVIOUS
  <1>4. ASSUME NEW j \in I
        PROVE  j <= i
    <2>1. n - j \in D /\ i \in 1..n /\ j \in 1..n
      OBVIOUS
    <2>2. n - i <= n - j
      BY <1>2, <1>3, <2>1
    <2>3. QED
      BY <2>1, <2>2
  <1>5. QED
    BY <1>4

\* A set with 0, and with the successor of each of its numbers below N, has all
\* the numbers up to N.
LEMMA UpTo ==
  ASSUME NEW N \in Nat, NEW G, 0 \in G, \A n \in 0..N : n < N /\ n \in G => n + 1 \in G
  PROVE  \A n \in 0..N : n \in G
  <1>1. SUFFICES ASSUME (0..N) \ G # {}
                 PROVE  FALSE
    OBVIOUS
  <1>2. PICK x \in (0..N) \ G : \A y \in (0..N) \ G : x <= y
    <2>1. (0..N) \ G \subseteq Nat
      OBVIOUS
    <2>2. QED
      BY <1>1, <2>1, LeastOf
  <1>3. x # 0 /\ x - 1 \in 0..N /\ x - 1 < N /\ x = (x - 1) + 1 /\ ~ (x <= x - 1)
    BY <1>2
  <1>4. x - 1 \in G
    BY <1>2, <1>3
  <1>5. (x - 1) + 1 \in G
    BY <1>3, <1>4
  <1>6. QED
    BY <1>2, <1>3, <1>5

\* A set of numbers up to n.
LEMMA CountBelow ==
  ASSUME NEW n \in Nat, NEW G, G \subseteq 1..n
  PROVE  IsFiniteSet(G) /\ Cardinality(G) \in Nat /\ Cardinality(G) <= n
  <1>1. IsFiniteSet(1..n) /\ Cardinality(1..n) = n
    BY FS_Interval
  <1>2. QED
    BY <1>1, FS_Subset, FS_CardinalityType

\* The numbers of G up to n are finitely many, and n + 1 adds itself.
LEMMA CountUpTo ==
  ASSUME NEW G, NEW n \in Nat
  PROVE  /\ IsFiniteSet(G \cap (1..n)) /\ Cardinality(G \cap (1..n)) \in Nat
         /\ Cardinality(G \cap (1..n)) <= n
         /\ Cardinality(G \cap (1..(n + 1)))
              = Cardinality(G \cap (1..n)) + (IF n + 1 \in G THEN 1 ELSE 0)
  <1>1. /\ IsFiniteSet(G \cap (1..n))
        /\ Cardinality(G \cap (1..n)) <= n
        /\ Cardinality(G \cap (1..n)) \in Nat
    BY CountBelow
  <1>2. CASE n + 1 \in G
    <2>1. G \cap (1..(n + 1)) = (G \cap (1..n)) \cup {n + 1} /\ n + 1 \notin G \cap (1..n)
      BY <1>2
    <2>2. QED
      BY <1>1, <1>2, <2>1, FS_AddElement
  <1>3. CASE n + 1 \notin G
    <2>1. G \cap (1..(n + 1)) = G \cap (1..n)
      BY <1>3
    <2>2. QED
      BY <1>1, <1>3, <2>1
  <1>4. QED
    BY <1>1, <1>2, <1>3

\* A sequence with one more element.
LEMMA Appended ==
  ASSUME NEW S, NEW s \in Seq(S), NEW e \in S
  PROVE  /\ Append(s, e) \in Seq(S) /\ Len(s) \in Nat /\ Len(Append(s, e)) = Len(s) + 1
         /\ DOMAIN Append(s, e) = 1..(Len(s) + 1) /\ DOMAIN s = 1..Len(s)
         /\ \A j \in 1..Len(s) : Append(s, e)[j] = s[j]
         /\ Append(s, e)[Len(s) + 1] = e
  OBVIOUS

-----------------------------------------------------------------------------
(* Capability tokens. *)

\* A value equal to an admitted one is admitted: replacing a parameter by a
\* Python-equal one (1.0 by True, say) never changes what a ceiling answers.
LEMMA EqualValuesAdmitted ==
  ASSUME NEW a, NEW p, NEW r, PyEq(r, p), Admits(a, p), a.kind # "bare"
  PROVE  Admits(a, r)
  <1>1. CASE a.kind = "cmp"
    <2>1. Compare(p, a.op, a.value)
      BY <1>1 DEF Admits
    <2>2. Compare(r, a.op, a.value)
      BY <2>1 DEF Compare, PyEq, IsFloat, FloatOf, CompareFloats
    <2>3. QED
      BY <1>1, <2>2 DEF Admits
  <1>2. CASE a.kind # "cmp"
    <2>1. PyEq(p, a)
      BY <1>2 DEF Admits
    <2>2. PyEq(r, a)
      BY <2>1 DEF PyEq, FloatOf
    <2>3. QED
      BY <1>2, <2>2 DEF Admits
  <1>3. QED
    BY <1>1, <1>2

\* One parameter of a ceiling over one parameter of a ceiling.
LEMMA AdmitsTransitive ==
  ASSUME NEW a, NEW p, NEW r, Admits(p, r), Admits(a, p),
         a.kind = "cmp" => a.value.kind # "cmp"
  PROVE  Admits(a, r)
  <1>1. CASE a.kind = "bare"
    BY <1>1 DEF Admits
  <1>2. CASE a.kind # "bare" /\ p.kind = "bare"
    <2>1. r.kind = "bare" /\ PyEq(r, p)
      BY <1>2 DEF Admits, PyEq, FloatOf
    <2>2. QED
      BY <1>2, <2>1, EqualValuesAdmitted
  <1>3. CASE a.kind # "bare" /\ p.kind = "cmp"
    \* A comparator is not a number, so a comparator ceiling refuses it; it
    \* equals a only if a is a comparator.
    BY <1>3 DEF Admits, Compare, IsFloat, PyEq
  <1>4. CASE a.kind # "bare" /\ p.kind \notin {"cmp", "bare"}
    <2>1. PyEq(r, p)
      BY <1>4 DEF Admits
    <2>2. QED
      BY <1>4, <2>1, EqualValuesAdmitted
  <1>5. QED
    BY <1>1, <1>2, <1>3, <1>4

\* Whatever a paged capability grants, the policy entry that admitted the
\* paged capability admits too: the gate (checked at the call) composes with
\* the static check and the paging pass (checked once, before the run).
THEOREM SatisfiesIsTransitive ==
  ASSUME NEW requested, NEW paged, NEW allowed,
         Satisfies(requested, paged), Satisfies(paged, allowed),
         FlatToken(allowed)
  PROVE  Satisfies(requested, allowed)
  BY AdmitsTransitive DEF Satisfies, FlatToken

\* Of the parts with one key there is a last one.
LEMMA LastWithExists ==
  ASSUME NEW S, NEW parts \in Seq(S), NEW k \in {parts[i].key : i \in DOMAIN parts}
  PROVE  /\ LastWith(parts, k) \in DOMAIN parts
         /\ parts[LastWith(parts, k)].key = k
  <1> DEFINE I == {i \in DOMAIN parts : parts[i].key = k}
  <1>1. I \in SUBSET (1..Len(parts)) /\ I # {} /\ Len(parts) \in Nat
    OBVIOUS
  <1>2. \E i \in I : \A j \in I : j <= i
    BY <1>1, GreatestOf
  <1>3. \E i \in DOMAIN parts : /\ parts[i].key = k
                                /\ \A j \in DOMAIN parts : parts[j].key = k => j <= i
    BY <1>2
  <1>4. QED
    BY <1>3 DEF LastWith

\* parse_capability builds tokens of the declared type: whatever is written, the
\* value of a comparator is a scalar.
LEMMA ParsedTokensAreFlat ==
  ASSUME NEW s, Grammatical(s), NEW S, s.parts \in Seq(S),
         \A i \in DOMAIN s.parts : WrittenPart(s.parts[i])
  PROVE  FlatToken(ParseCapability(s))
  <1> DEFINE parts == s.parts
  <1>1. ASSUME NEW i \in DOMAIN parts, ParamValue(parts[i]).kind = "cmp"
        PROVE  ParamValue(parts[i]).value.kind # "cmp"
    <2>1. CoerceValue(parts[i].value).kind # "cmp"
      BY DEF WrittenPart, IsScalar, CoerceValue, Num, NaN, Text, Str
    <2>2. QED
      BY <1>1, <2>1 DEF ParamValue, Cmp, Bare
  <1>2. ParseCapability(s).params = Params(parts)
    BY DEF ParseCapability
  <1>3. QED
    BY <1>1, <1>2, LastWithExists DEF FlatToken, Params

\* The form the executor needs: a request under a paged capability that lies
\* within the policy lies within the policy.
COROLLARY GrantsStayWithinPolicy ==
  ASSUME NEW policy, NEW requested, NEW paged,
         Satisfies(requested, paged), WithinPolicy(paged, policy),
         \A allowed \in policy : FlatToken(allowed)
  PROVE  WithinPolicy(requested, policy)
  BY SatisfiesIsTransitive DEF WithinPolicy

-----------------------------------------------------------------------------
(* What compile_sop's result is like, for every procedure and every policy that *)
(* it accepts.                                                                  *)


\* The passes that must have gone well.
LEMMA PassesSucceeded ==
  ASSUME NEW doc, NEW file, CompileError(doc, file) = None
  PROVE  /\ doc.schema_valid
         /\ EdgesResolve(doc)
         /\ PolicyError(file) = None
         /\ PagingError(Lower(doc)) = None
  <1>1. ParseError(doc) = None /\ LowerError(doc) = None /\ PolicyError(file) = None
    BY DEF CompileError
  <1>2. doc.schema_valid /\ EdgesResolve(doc)
    BY <1>1, NoneAssumption DEF ParseError, Exceptions
  <1>3. QED
    BY <1>1, <1>2 DEF CompileError

\* The id of a step finds a step with that id.
LEMMA StepOfId ==
  ASSUME NEW doc, NEW id \in Ids(doc)
  PROVE  \E i \in DOMAIN doc.steps : doc.steps[i].id = id /\ StepOf(doc, id) = doc.steps[i]
  BY DEF Ids, StepOf

\* The node of a step, after lowering and paging.
LEMMA CompiledNode ==
  ASSUME NEW doc, NEW file, NEW id \in Ids(doc)
  PROVE  LET node == CompileSop(doc, file).nodes[id]
             step == StepOf(doc, id)
         IN  /\ node.capabilities_declared = step.requires
             /\ node.capabilities_paged = PagedSubset(step.requires, LoadPolicy(file))
             /\ node.edges = LoweredNode(step).edges
             /\ node.terminal = step.terminal
             /\ node.condition = step.condition
             /\ node.loop = LoopValue(step.loop)
             /\ node.on_limit = step.on_limit
  BY DEF CompileSop, ApplyPaging, Lower, LoweredNode

\* A compiled program has one node per step, starts at the first step, and has the
\* version that the executor supports.
LEMMA CompiledShape ==
  ASSUME NEW doc, NEW file
  PROVE  /\ DOMAIN CompileSop(doc, file).nodes = Ids(doc)
         /\ CompileSop(doc, file).entry = doc.steps[1].id
         /\ CompileSop(doc, file).ir_version = "0.1"
  BY DEF CompileSop, ApplyPaging, Lower

\* What a step is paged is part of what it declares, grammatical and under the
\* policy (page.py:35-40).
THEOREM PagingNarrows ==
  ASSUME NEW doc, NEW file, CompileError(doc, file) = None, NEW id \in Ids(doc),
         NEW i \in DOMAIN CompileSop(doc, file).nodes[id].capabilities_paged
  PROVE  LET cap == CompileSop(doc, file).nodes[id].capabilities_paged[i]
         IN  /\ i \in DOMAIN StepOf(doc, id).requires
             /\ cap = StepOf(doc, id).requires[i]
             /\ Grammatical(cap)
             /\ WithinPolicy(ParseCapability(cap), LoadPolicy(file))
  <1> DEFINE declared == StepOf(doc, id).requires
             paged == CompileSop(doc, file).nodes[id].capabilities_paged
  <1>1. paged = PagedSubset(declared, LoadPolicy(file))
    BY CompiledNode
  <1>2. /\ i \in DOMAIN declared /\ paged[i] = declared[i]
        /\ WithinPolicy(ParseCapability(declared[i]), LoadPolicy(file))
    <2> HIDE DEF declared
    <2>1. QED
      BY <1>1 DEF PagedSubset
  <1>3. /\ DOMAIN Lower(doc).nodes = Ids(doc)
        /\ Lower(doc).nodes[id].capabilities_declared = declared
    BY DEF Lower, LoweredNode
  <1>4. PagingError(Lower(doc)) = None
    BY PassesSucceeded
  <1>5. Grammatical(declared[i])
    <2> HIDE DEF declared
    <2>1. QED
      BY <1>2, <1>3, <1>4, NoneAssumption DEF PagingError, Exceptions
  <1>6. QED
    BY <1>2, <1>5

\* Of a step that is not terminal, every edge a run can follow leads to a step.
LEMMA EdgesLeadToSteps ==
  ASSUME NEW doc, NEW file, CompileError(doc, file) = None, NEW id \in Ids(doc),
         ~ CompileSop(doc, file).nodes[id].terminal
  PROVE  LET node == CompileSop(doc, file).nodes[id]
         IN  /\ \A e \in DOMAIN node.edges : node.edges[e] \in Ids(doc)
             /\ node.loop # None => node.on_limit \in Ids(doc) \cup {None}
  <1> DEFINE step == StepOf(doc, id)
             node == CompileSop(doc, file).nodes[id]
  <1>1. /\ node.edges = LoweredNode(step).edges /\ node.terminal = step.terminal
        /\ node.loop = LoopValue(step.loop) /\ node.on_limit = step.on_limit
    BY CompiledNode
  <1>2. PICK i \in DOMAIN doc.steps : step = doc.steps[i]
    BY StepOfId
  <1>3. /\ Edges(step) \subseteq Ids(doc)
        /\ step.loop # None => step.on_limit \in Ids(doc) \cup {None}
    BY <1>1, <1>2, PassesSucceeded DEF EdgesResolve
  <1> HIDE DEF step, node
  <1>4. ASSUME NEW e \in DOMAIN node.edges
        PROVE  node.edges[e] \in Ids(doc)
    <2>1. e \in {"on_success", "on_failure"} /\ step[e] # None /\ node.edges[e] = step[e]
      BY <1>1, <1>4 DEF LoweredNode
    <2>2. step[e] \in Edges(step)
      BY <2>1 DEF Edges
    <2>3. QED
      BY <2>1, <2>2, <1>3
  <1>5. node.loop # None => step.loop # None
    BY <1>1 DEF LoopValue
  <1>6. QED
    BY <1>1, <1>3, <1>4, <1>5 DEF node


-----------------------------------------------------------------------------
(* Policies that are tightened.  A comparator lies under no comparator, so this is *)
(* not the order of Satisfies: what a tighter policy admits lies under the other.  *)

\* A parameter of a ceiling that asks for as much as another, or for more.
Tighter(p, q) ==
    \/ p = q
    \/ Admits(q, p)
    \/ /\ p.kind = "cmp" /\ p.value.kind = "num" /\ p.value.num \in Int
       /\ q.kind = "cmp" /\ q.value.kind = "num" /\ q.value.num \in Int
       /\ p.op = q.op
       /\ \/ p.op \in {"<=", "<"} /\ p.value.num <= q.value.num
          \/ p.op \in {">=", ">"} /\ p.value.num >= q.value.num

\* Every entry tightens one of the other policy, or adds parameters to it; entries
\* may be missing altogether.
Tightens(policy, other) ==
    \A t \in policy : \E u \in other :
        /\ t.namespace = u.namespace /\ t.action = u.action
        /\ \A k \in DOMAIN u.params :
               k \in DOMAIN t.params /\ Tighter(t.params[k], u.params[k])

\* A value that is written is a number, nan or no number at all.
IsNumber(v) == IsFloat(v) /\ v.kind # "nan" => FloatOf(v) \in Int

WrittenString(s) ==
    /\ s.parts \in Seq({s.parts[i] : i \in DOMAIN s.parts})
    /\ \A i \in DOMAIN s.parts : WrittenPart(s.parts[i])

\* The parameters that are read from a string have such values.
LEMMA ParsedNumbers ==
  ASSUME NEW s, Grammatical(s), WrittenString(s), NEW k \in DOMAIN ParseCapability(s).params
  PROVE  IsNumber(ParseCapability(s).params[k])
  <1> DEFINE parts == s.parts
  <1>1. ParseCapability(s).params = Params(parts)
    BY DEF ParseCapability
  <1>2. ASSUME NEW i \in DOMAIN parts
        PROVE  IsNumber(ParamValue(parts[i]))
    <2>1. IsScalar(parts[i].value)
      BY DEF WrittenPart, WrittenString
    <2>2. IsNumber(CoerceValue(parts[i].value))
      BY <2>1 DEF IsScalar, CoerceValue, IsNumber, IsFloat, FloatOf, Num, NaN, Text, Str
    <2>3. IsNumber(Bare) /\ \A op, v : IsNumber(Cmp(op, v))
      BY DEF IsNumber, IsFloat, FloatOf, Bare, Cmp
    <2>4. QED
      BY <2>2, <2>3 DEF ParamValue
  <1>3. k \in {parts[i].key : i \in DOMAIN parts}
    BY <1>1 DEF Params
  <1>4. LastWith(parts, k) \in DOMAIN parts
    <2>1. parts \in Seq({parts[i] : i \in DOMAIN parts})
      BY DEF WrittenString
    <2> HIDE DEF parts
    <2>2. QED
      BY <1>3, <2>1, LastWithExists
  <1>5. Params(parts)[k] = ParamValue(parts[LastWith(parts, k)])
    BY <1>3 DEF Params
  <1>6. QED
    BY <1>1, <1>2, <1>4, <1>5

\* What the tighter parameter admits, the other one admits.
LEMMA TighterAdmitsLess ==
  ASSUME NEW p, NEW q, NEW r, Tighter(p, q), Admits(p, r), IsNumber(r),
         q.kind = "cmp" => q.value.kind # "cmp"
  PROVE  Admits(q, r)
  <1>1. CASE p = q
    BY <1>1
  <1>2. CASE Admits(q, p)
    BY <1>2, AdmitsTransitive
  <1>3. CASE /\ p.kind = "cmp" /\ p.value.kind = "num" /\ p.value.num \in Int
             /\ q.kind = "cmp" /\ q.value.kind = "num" /\ q.value.num \in Int
             /\ p.op = q.op
             /\ \/ p.op \in {"<=", "<"} /\ p.value.num <= q.value.num
                \/ p.op \in {">=", ">"} /\ p.value.num >= q.value.num
    <2>1. Compare(r, p.op, p.value) /\ p.op # "=="
      BY <1>3 DEF Admits
    <2>2. /\ IsFloat(r) /\ r.kind # "nan" /\ FloatOf(r) \in Int
          /\ CompareFloats(FloatOf(r), p.op, p.value.num)
      BY <1>3, <2>1 DEF Compare, IsFloat, FloatOf, IsNumber
    <2> DEFINE n == FloatOf(r)
    <2>3. CompareFloats(n, q.op, q.value.num)
      <3>1. n \in Int /\ CompareFloats(n, p.op, p.value.num)
        BY <2>2
      <3> HIDE DEF n
      <3>2. QED
        BY <1>3, <3>1 DEF CompareFloats
    <2>4. Compare(r, q.op, q.value)
      BY <1>3, <2>2, <2>3 DEF Compare, IsFloat, FloatOf
    <2>5. QED
      BY <1>3, <2>4 DEF Admits
  <1>4. QED
    BY <1>1, <1>2, <1>3 DEF Tighter

\* What the tighter policy admits of what can be written, the other one admits.
LEMMA TighterPolicyAdmitsLess ==
  ASSUME NEW policy, NEW other, Tightens(policy, other), \A u \in other : FlatToken(u),
         NEW s, Grammatical(s), WrittenString(s), WithinPolicy(ParseCapability(s), policy)
  PROVE  WithinPolicy(ParseCapability(s), other)
  <1> DEFINE token == ParseCapability(s)
  <1>1. PICK t \in policy : Satisfies(token, t)
    BY DEF WithinPolicy
  <1>2. PICK u \in other :
           /\ t.namespace = u.namespace /\ t.action = u.action
           /\ \A k \in DOMAIN u.params :
                  k \in DOMAIN t.params /\ Tighter(t.params[k], u.params[k])
    BY DEF Tightens
  <1>3. ASSUME NEW k \in DOMAIN u.params
        PROVE  k \in DOMAIN token.params /\ Admits(u.params[k], token.params[k])
    <2>1. k \in DOMAIN t.params /\ Tighter(t.params[k], u.params[k])
      BY <1>2
    <2>2. k \in DOMAIN token.params /\ Admits(t.params[k], token.params[k])
      BY <1>1, <2>1 DEF Satisfies
    <2>3. IsNumber(token.params[k])
      BY <2>2, ParsedNumbers
    <2>4. u.params[k].kind = "cmp" => u.params[k].value.kind # "cmp"
      BY DEF FlatToken
    <2> HIDE DEF token
    <2>5. QED
      BY <2>1, <2>2, <2>3, <2>4, TighterAdmitsLess
  <1>4. Satisfies(token, u)
    <2> HIDE DEF token
    <2>1. QED
      BY <1>1, <1>2, <1>3 DEF Satisfies
  <1>5. QED
    BY <1>4 DEF WithinPolicy

\* Tightening the policy file, by lower limits, more parameters or fewer entries, never
\* gives a step of the procedure more when it is compiled again, and never lets a check
\* pass that failed.
THEOREM TighterPoliciesGiveLess ==
  ASSUME NEW doc, NEW file, NEW other,
         CompileError(doc, file) = None, CompileError(doc, other) = None,
         Tightens(LoadPolicy(file), LoadPolicy(other)),
         \A i \in DOMAIN other : WrittenString(other[i]),
         NEW id \in Ids(doc),
         \A i \in DOMAIN StepOf(doc, id).requires : WrittenString(StepOf(doc, id).requires[i])
  PROVE  LET tight == CompileSop(doc, file).nodes[id]
             loose == CompileSop(doc, other).nodes[id]
         IN  /\ DOMAIN tight.capabilities_paged \subseteq DOMAIN loose.capabilities_paged
             /\ \A i \in DOMAIN tight.capabilities_paged :
                    tight.capabilities_paged[i] = loose.capabilities_paged[i]
             /\ \A i \in DOMAIN loose.capabilities_declared :
                    Allowed(loose.capabilities_declared[i], LoadPolicy(file)) =>
                        Allowed(loose.capabilities_declared[i], LoadPolicy(other))
  <1> DEFINE declared == StepOf(doc, id).requires
             policy == LoadPolicy(file)
             wider == LoadPolicy(other)
  <1>1. \A u \in wider : FlatToken(u)
    <2>1. \A i \in DOMAIN other : Grammatical(other[i])
      BY PassesSucceeded, NoneAssumption DEF PolicyError, Exceptions
    <2>2. \A i \in DOMAIN other : FlatToken(ParseCapability(other[i]))
      BY <2>1, ParsedTokensAreFlat DEF WrittenString
    <2>3. QED
      BY <2>2 DEF LoadPolicy
  <1>2. \A i \in DOMAIN declared : Grammatical(declared[i])
    <2>1. /\ DOMAIN Lower(doc).nodes = Ids(doc)
          /\ Lower(doc).nodes[id].capabilities_declared = declared
      BY DEF Lower, LoweredNode
    <2>2. PagingError(Lower(doc)) = None
      BY PassesSucceeded
    <2> HIDE DEF declared
    <2>3. QED
      BY <2>1, <2>2, NoneAssumption DEF PagingError, Exceptions
  <1>3. \A i \in DOMAIN declared :
            WithinPolicy(ParseCapability(declared[i]), policy) =>
                WithinPolicy(ParseCapability(declared[i]), wider)
    <2> HIDE DEF policy, wider
    <2>1. QED
      BY <1>1, <1>2, TighterPolicyAdmitsLess DEF policy, wider
  <1>4. /\ CompileSop(doc, file).nodes[id].capabilities_paged = PagedSubset(declared, policy)
        /\ CompileSop(doc, other).nodes[id].capabilities_paged = PagedSubset(declared, wider)
        /\ CompileSop(doc, other).nodes[id].capabilities_declared = declared
    BY CompiledNode
  <1> HIDE DEF declared, policy, wider
  <1>5. /\ DOMAIN PagedSubset(declared, policy) \subseteq DOMAIN PagedSubset(declared, wider)
        /\ \A i \in DOMAIN PagedSubset(declared, policy) :
               PagedSubset(declared, policy)[i] = PagedSubset(declared, wider)[i]
    BY <1>3 DEF PagedSubset
  <1>6. \A i \in DOMAIN declared : Allowed(declared[i], policy) => Allowed(declared[i], wider)
    BY <1>3 DEF Allowed
  <1>7. QED
    BY <1>4, <1>5, <1>6 DEF policy, wider
=============================================================================
