------------------------------ MODULE Releases ------------------------------
(***************************************************************************)
(* What the deployment service promises about the active deployment        *)
(* (docs/adr/001-protocol-v1.md, section 8): it is switched in one step by *)
(* an activation, which makes the deployment it replaces the one to roll   *)
(* back to, or by a rollback, which exchanges the two.                     *)
(***************************************************************************)
CONSTANTS Deployments, None

VARIABLES
    serving,  \* the active deployment
    restore   \* the deployment a rollback restores

rvars == <<serving, restore>>

Init == serving = None /\ restore = None

Activate(d) ==
    /\ d # serving
    /\ serving' = d
    /\ restore' = serving

Rollback ==
    /\ restore # None
    /\ serving' = restore
    /\ restore' = serving

Next == Rollback \/ \E d \in Deployments : Activate(d)

Spec == Init /\ [][Next]_rvars
=============================================================================
