-------------------------------- MODULE Cli ---------------------------------
(***************************************************************************)
(* "sopvm compile" and "sopvm check" (src/sopvm/cli/main.py) on one        *)
(* procedure, one policy file and one compiled file, in any order, with    *)
(* the policy and the compiled file edited in between: what a team does    *)
(* that keeps all three under version control.  check() of the public API  *)
(* is the command on the policy file of the compilation, policy_ref.       *)
(* "sopvm run" is in Hosts, "sopvm trace" in Telemetry.                    *)
(***************************************************************************)
EXTENDS Compiler

CONSTANTS
    Documents,      \* the procedures to start from
    PolicyFiles,    \* what the policy file may hold
    EditedIrs       \* what somebody may write into the compiled file

\* The schema asks for a step, for an array of capabilities, and for at least one
\* iteration of a loop that gives its number: to JSON Schema an integer may be
\* written as a float (parse.py:68).  None is no number.
Iterations == [type : {"int", "float"}, value : Nat \ {0}]

ASSUME CliAssumption ==
    \A doc \in Documents :
        doc.schema_valid =>
            /\ 1 \in DOMAIN doc.steps
            /\ \A i \in DOMAIN doc.steps :
                   LET loop == doc.steps[i].loop
                       requires == doc.steps[i].requires
                   IN  /\ requires \in Seq({requires[j] : j \in DOMAIN requires})
                       /\ \/ loop \in {None, <<>>}
                          \/ loop = <<loop[1]>> /\ loop[1] \in Iterations \ {None}

VARIABLES
    sop,        \* the procedure
    policy,     \* the policy file
    ir,         \* the compiled file, None before the first compile that writes it
    built,      \* the policy that file was compiled with, None if it is not whole
    edited,     \* has somebody edited the file since it was compiled?
    last        \* the last command and its exit code, none after an edit

cliVars == <<sop, policy, ir, built, edited, last>>

NoCommand == [command |-> "none"]

Exit(command, code, error) == [command |-> command, exit |-> code, error |-> error]

Init ==
    /\ sop \in Documents /\ policy \in PolicyFiles
    /\ ir = None /\ built = None /\ edited = FALSE /\ last = NoCommand

\* A file that was truncated and not written: no JSON.
Torn == [torn |-> TRUE]

Loads(text) == text # Torn /\ Loadable(text)

\* The output is opened after the compiler has returned: a failing compile leaves
\* the file of an earlier one in place.
Compile ==
    /\ \/ /\ CompileError(sop, policy) # None
          /\ last' = Exit("compile", 2, CompileError(sop, policy))
          /\ UNCHANGED <<ir, built, edited>>
       \/ /\ CompileError(sop, policy) = None
          /\ last' = Exit("compile", 0, None)
          /\ ir' = ToJson(CompileSop(sop, policy))
          /\ built' = policy /\ edited' = FALSE
    /\ UNCHANGED <<sop, policy>>

\* The output cannot be opened, or is truncated and then not written.
CompileDies ==
    /\ CompileError(sop, policy) = None
    /\ last' = Exit("compile", 1, "OSError")
    /\ \/ UNCHANGED <<ir, built, edited>>
       \/ ir' = Torn /\ built' = None /\ edited' = FALSE
    /\ UNCHANGED <<sop, policy>>

\* Slip: what cannot be loaded has nothing in it that violates the policy.
CheckPassesUnreadable ==
    /\ ir # None
    /\ LET violations == IF Loads(ir) /\ PolicyError(policy) = None
                         THEN CheckViolations(FromJson(ir), LoadPolicy(policy)) ELSE {}
       IN  last' = Exit("check", IF violations = {} THEN 0 ELSE 1, None)
    /\ UNCHANGED <<sop, policy, ir, built, edited>>

\* The checker looks at what is declared, not at what is paged.
Check ==
    /\ ir # None
    /\ \/ ~ Loads(ir) /\ last' = Exit("check", 2, "ValueError")
       \/ Loads(ir) /\ PolicyError(policy) # None
             /\ last' = Exit("check", 2, PolicyError(policy))
       \/ /\ Loads(ir) /\ PolicyError(policy) = None
          /\ LET violations == CheckViolations(FromJson(ir), LoadPolicy(policy))
             IN  last' = Exit("check", IF violations = {} THEN 0 ELSE 1, None)
    /\ UNCHANGED <<sop, policy, ir, built, edited>>

\* External: the policy is replaced; the compiled file is edited by hand.
EditPolicy(file) ==
    /\ policy' = file /\ last' = NoCommand
    /\ UNCHANGED <<sop, ir, built, edited>>
EditIr(text) ==
    /\ ir # None
    /\ ir' = text /\ built' = None /\ edited' = TRUE /\ last' = NoCommand
    /\ UNCHANGED <<sop, policy>>

Next ==
    \/ Compile
    \/ CompileDies
    \/ Check
    \/ \E file \in PolicyFiles : EditPolicy(file)
    \/ \E text \in EditedIrs : EditIr(text)

Spec == Init /\ [][Next]_cliVars

-----------------------------------------------------------------------------
Compiled == built # None        \* the compiled file is as the compiler wrote it
Program  == FromJson(ir)

Passed == last.command = "check" /\ last.exit = 0

\* A check that passes speaks for the run: although it looks at the declared
\* capabilities only (check.py:144), all that the gate will ever grant, the
\* paged ones, lies within the policy of the check, which need not be the one
\* the file was compiled with.  This is what _validate_paged_capabilities asks.
\* And unless somebody edited the file, a check that passes has seen the whole of
\* what the compiler wrote, never what a compile left that died (main.py:62).
CheckIsSound ==
    ~ edited /\ Passed => Compiled /\ AllPagedWithin(Program, LoadPolicy(policy))

\* No step says how often to repeat it in a float.
LoopsAreInts ==
    \A i \in DOMAIN sop.steps : sop.steps[i].loop # None => sop.steps[i].loop[1].type = "int"

\* apply_paging narrows in silence (page.py:9-12); the check under the same policy
\* fails exactly when it did.  It ends in an error exactly when some loop is written
\* as a float, which the compiler takes (parse.py:68) and from_json does not
\* (model.py:90).
CheckFindsNarrowing ==
    Compiled /\ built = policy /\ last.command = "check" =>
        /\ last.exit = 2 <=> ~ LoopsAreInts
        /\ LoopsAreInts =>
               (Passed <=> \A n \in DOMAIN Program.nodes :
                               Program.nodes[n].capabilities_paged
                                   = Program.nodes[n].capabilities_declared)

\* Wherever a run of a compiled program can go, there is a step: the entry, the
\* edges of steps that are not terminal and on_limit of those that loop
\* (parse.py:113-136), from the file as it is read back.
EveryWayLeadsToAStep ==
    Compiled /\ Loads(ir) =>
        /\ Program.entry \in DOMAIN Program.nodes
        /\ \A n \in DOMAIN Program.nodes :
               LET node == Program.nodes[n]
               IN  ~ node.terminal =>
                       /\ \A e \in DOMAIN node.edges : node.edges[e] \in DOMAIN Program.nodes
                       /\ node.loop # None =>
                              node.on_limit \in DOMAIN Program.nodes \cup {None}

\* Nothing of the procedure is lost on its way through the passes and the file
\* (from_json drops a loop that is falsy, lower keeps steps by id, paging builds
\* every node anew): every step comes back with its capabilities, edges, condition
\* (POSTMORTEM.md:215, when paging lost it), number of iterations, on_limit and
\* terminal.  The file can be read back unless a loop is written as a float.
NothingIsLost ==
    Compiled =>
        /\ Loads(ir) <=> LoopsAreInts
        /\ Loads(ir) =>
               \A i \in DOMAIN sop.steps :
                   LET step == sop.steps[i]
                       node == Program.nodes[step.id]
                   IN  /\ node.capabilities_declared = step.requires
                       /\ \A e \in {"on_success", "on_failure"} :
                              step[e] = IF e \in DOMAIN node.edges THEN node.edges[e] ELSE None
                       /\ \A field \in {"condition", "on_limit", "terminal"} :
                              node[field] = step[field]
                       /\ step.loop = IF node.loop = None THEN None ELSE <<node.loop>>
=============================================================================
