----------------------------- MODULE RunPromise ------------------------------
(***************************************************************************)
(* What a run promises: one outcome is recorded, once; its status follows  *)
(* the transition table and agrees with that outcome until a cancellation  *)
(* is recorded, and reads no other outcome afterwards; what is published   *)
(* is the recorded outcome and is never contradicted, except that a        *)
(* restart, or a cancellation, forgets what was said. The table is         *)
(* RUN_TRANSITIONS of src/core/contracts/states.py.                        *)
(***************************************************************************)
EXTENDS LifecycleStates

VARIABLES run, recorded, cancelled, published

Outcomes == {"SUCCEEDED", "FAILED"}

Init ==
    /\ run = "QUEUED" /\ recorded = "none"
    /\ cancelled = FALSE /\ published = "none"

(* A cancellation stays recorded, and frees the status from the table only. *)
Write ==
    /\ run' \in RunStatus
    /\ recorded' = recorded \/ (recorded = "none" /\ recorded' \in Outcomes)
    /\ cancelled' \in {cancelled, TRUE}
    /\ run' \in Outcomes => run' = recorded'
    /\ \/ cancelled'
       \/ /\ run' = run \/ <<run, run'>> \in RunTransitions
          /\ recorded' # "none" => run' = recorded'
    /\ UNCHANGED published

Publish ==
    /\ published = "none" /\ recorded # "none" /\ published' = recorded
    /\ UNCHANGED <<run, recorded, cancelled>>

Forget ==
    /\ published # "none" /\ published' = "none"
    /\ UNCHANGED <<run, recorded, cancelled>>

Next == Write \/ Publish \/ Forget

Spec == Init /\ [][Next]_<<run, recorded, cancelled, published>>
==============================================================================
