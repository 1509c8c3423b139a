------------------------------ MODULE Registry ------------------------------
(***************************************************************************)
(* The provider registry (src/sopvm/plugins/registry.py) and the sandbox   *)
(* that wraps a provider for one call (src/sopvm/plugins/sandbox.py).      *)
(*                                                                         *)
(* A provider's declared_capabilities() is a method: it is read once when  *)
(* the provider is registered and again each time the provider is wrapped, *)
(* and may answer differently each time.                                   *)
(***************************************************************************)
EXTENDS Capability

CONSTANTS
    Providers,          \* the tool providers of the embedding program
    Declarations,       \* the lists declared_capabilities() may return
    MaxRegistrations    \* bound: calls of register()

ASSUME RegistryAssumption == MaxRegistrations \in Nat

VARIABLES
    declares,       \* what declared_capabilities() of each provider returns now
    index,          \* ProviderRegistry._index: (namespace, action) -> provider
    registrations   \* the calls of register() so far, each with what it read

regVars == <<declares, index, registrations>>

KeyOf(token) == <<token.namespace, token.action>>

\* register() goes through the list and stops at the first malformed string,
\* with everything before it already in the index.
ReadBeforeError(declared) ==
    {i \in DOMAIN declared : \A j \in 1..i : Grammatical(declared[j])}

IndexedKeys(declared) ==
    {KeyOf(ParseCapability(declared[i])) : i \in ReadBeforeError(declared)}

RegInit ==
    /\ declares \in [Providers -> Declarations]
    /\ index = <<>>
    /\ registrations = <<>>

\* Slip: a key that is taken stays with its provider.
RegisterFirstWins(p) ==
    /\ Len(registrations) < MaxRegistrations
    /\ index' = [k \in DOMAIN index \cup IndexedKeys(declares[p]) |->
                    IF k \in DOMAIN index THEN index[k] ELSE p]
    /\ registrations' = Append(registrations, [provider |-> p, declared |-> declares[p]])
    /\ UNCHANGED declares

\* A later registration overrides an earlier one, key by key.
Register(p) ==
    /\ Len(registrations) < MaxRegistrations
    /\ index' = [k \in DOMAIN index \cup IndexedKeys(declares[p]) |->
                    IF k \in IndexedKeys(declares[p]) THEN p ELSE index[k]]
    /\ registrations' = Append(registrations, [provider |-> p, declared |-> declares[p]])
    /\ UNCHANGED declares

\* External: the provider's declared_capabilities() starts to answer d.
Redeclare(p, d) ==
    /\ d # declares[p]
    /\ declares' = [declares EXCEPT ![p] = d]
    /\ UNCHANGED <<index, registrations>>

RegNext ==
    \/ \E p \in Providers : Register(p)
    \/ \E p \in Providers, d \in Declarations : Redeclare(p, d)

RegSpec == RegInit /\ [][RegNext]_regVars

-----------------------------------------------------------------------------
(* Routing of a granted call, as request_tool does it. *)

\* The keys the sandbox reads when it wraps p, now.
DeclaredNow(p) == {KeyOf(ParseCapability(declares[p][i])) : i \in DOMAIN declares[p]}

Wrappable(p) == \A i \in DOMAIN declares[p] : Grammatical(declares[p][i])

\* Slip: the provider is called without the sandbox.
RouteUnwrapped(cap) ==
    IF KeyOf(cap) \in DOMAIN index THEN "invoked" ELSE "no_provider"

\* What becomes of a call: nobody is registered for it, reading the
\* declarations again raises, the sandbox raises ProviderIntegrityViolation, or
\* the provider's own invoke() runs.
Route(cap) ==
    IF KeyOf(cap) \notin DOMAIN index               THEN "no_provider"
    ELSE IF ~ Wrappable(index[KeyOf(cap)])          THEN "wrap_error"
    ELSE IF KeyOf(cap) \notin DeclaredNow(index[KeyOf(cap)]) THEN "undeclared"
    ELSE "invoked"

-----------------------------------------------------------------------------
Keys == UNION {IndexedKeys(d) : d \in Declarations}

\* The registry's variables hold what the class stores.
RegTypeOK ==
    /\ declares \in [Providers -> Declarations]
    /\ DOMAIN index \subseteq Keys
    /\ \A k \in DOMAIN index : index[k] \in Providers
    /\ registrations \in Seq([provider : Providers, declared : Declarations])

\* registry.py's contract over any history of registrations, failed ones
\* included: a key is served by the provider of the last registration that got
\* as far as reading it, and by nobody if none did.  What providers declare
\* later plays no part.
LastRegistrationWins ==
    LET readers(k) == {i \in DOMAIN registrations : k \in IndexedKeys(registrations[i].declared)}
    IN  /\ \A k \in Keys : k \in DOMAIN index <=> readers(k) # {}
        /\ \A k \in DOMAIN index :
               \E i \in readers(k) :
                   /\ \A j \in readers(k) : j <= i
                   /\ index[k] = registrations[i].provider
=============================================================================
