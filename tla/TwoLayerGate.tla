---------------------------- MODULE TwoLayerGate ----------------------------
(***************************************************************************)
(* What the approval gate promises about one request: it is granted only   *)
(* when the first layer approved it and the second layer approved it or    *)
(* was skipped, a layer decides once, and a request refused or withdrawn   *)
(* at the first layer never reaches the second.                            *)
(*                                                                         *)
(* ApprovalGate implements this module.                                    *)
(***************************************************************************)
VARIABLES
  layer1, layer2,  \* what each layer has decided
  outcome,         \* the recorded result, "none" while the request is open
  grant,           \* the result a granted request is recorded with (fixed)
  skippable        \* may the second layer be skipped? (fixed)

vars == <<layer1, layer2, outcome, grant, skippable>>

Layer == {"unreached", "open", "approved", "skipped", "rejected", "canceled"}

\* The result a layer's refusal is recorded with.
Refusal == [rejected |-> "Rejected", canceled |-> "Canceled"]

\* Results of a request that the gate itself could not process.
Breakdowns == {"Failed", "Error"}

Init ==
  /\ layer1 = "unreached" /\ layer2 = "unreached"
  /\ outcome = "none"
  /\ grant \in {"Successful", "Completed"}
  /\ skippable \in BOOLEAN

Fixed == UNCHANGED <<grant, skippable>>

Open1 ==
  /\ outcome = "none" /\ layer1 = "unreached"
  /\ layer1' = "open"
  /\ UNCHANGED <<layer2, outcome>>

Approve1 ==
  /\ outcome = "none" /\ layer1 = "open"
  /\ layer1' = "approved" /\ layer2' = "open"
  /\ UNCHANGED outcome

Refuse1 ==
  /\ outcome = "none" /\ layer1 = "open"
  /\ layer1' \in DOMAIN Refusal
  /\ outcome' = Refusal[layer1']
  /\ UNCHANGED layer2

Grant2 ==
  /\ outcome = "none" /\ layer1 = "approved" /\ layer2 = "open"
  /\ \/ layer2' = "approved"
     \/ skippable /\ layer2' = "skipped"
  /\ outcome' = grant
  /\ UNCHANGED layer1

Refuse2 ==
  /\ outcome = "none" /\ layer1 = "approved" /\ layer2 = "open"
  /\ layer2' \in DOMAIN Refusal
  /\ outcome' = Refusal[layer2']
  /\ UNCHANGED layer1

BreakDown ==
  /\ outcome = "none"
  /\ outcome' \in Breakdowns
  /\ UNCHANGED <<layer1, layer2>>

Next ==
  /\ Open1 \/ Approve1 \/ Refuse1 \/ Grant2 \/ Refuse2 \/ BreakDown
  /\ Fixed

Spec == Init /\ [][Next]_vars

-----------------------------------------------------------------------------
\* The promise in one sentence: a request is granted by both layers, the second
\* of which may be skipped where it is skippable.
GrantedByBoth ==
  outcome = grant =>
    layer1 = "approved" /\ (layer2 = "approved" \/ (skippable /\ layer2 = "skipped"))

\* What is recorded stays recorded, and with it what each layer has decided.
DecisionsStay == [][outcome = "none"]_<<layer1, layer2, outcome>>
=============================================================================
