---------------------------- MODULE RunLifecycle ----------------------------
(***************************************************************************)
(* What a run promises to whoever started it (the state machine of         *)
(* INTERFACES.md section 5, as src/sopvm/runtime carries it out): steps    *)
(* are entered and left one at a time; a denial is absorbing, the step it  *)
(* falls in is the last one and the run then ends DENIED, or not normally  *)
(* at all; a run ends DENIED for no other reason; and a run that has       *)
(* started ends.                                                           *)
(***************************************************************************)
VARIABLES
    phase,      \* "idle", "between" steps, "running" one, or "denied" within one
    outcome     \* how the last run ended

lifecycleVars == <<phase, outcome>>

Init == phase = "idle" /\ outcome = "none"

Start     == phase = "idle" /\ phase' = "between" /\ outcome' = "none"
Refuse    == phase = "idle" /\ phase' = "idle" /\ outcome' = "raised"
EnterStep == phase = "between" /\ phase' = "running" /\ UNCHANGED outcome
LeaveStep == phase = "running" /\ phase' = "between" /\ UNCHANGED outcome
Deny      == phase = "running" /\ phase' = "denied" /\ UNCHANGED outcome

Succeed == phase = "running" /\ phase' = "idle" /\ outcome' = "DONE"
Fail    == phase = "running" /\ phase' = "idle" /\ outcome' = "FAILED"
EndDenied == phase = "denied" /\ phase' = "idle" /\ outcome' = "DENIED"
Abort   == phase # "idle" /\ phase' = "idle" /\ outcome' = "raised"

Next == \/ Start \/ Refuse \/ EnterStep \/ LeaveStep \/ Deny
        \/ Succeed \/ Fail \/ EndDenied \/ Abort

SafetySpec == Init /\ [][Next]_lifecycleVars

Spec == SafetySpec /\ ((phase # "idle") ~> (phase = "idle"))
=============================================================================
