------------------------- MODULE ApprovalDefinition -------------------------
(***************************************************************************)
(* The approval state machine as data: what buildDefinition                *)
(* (horizon-workflow-approval-gate-poc/definition.go) hands to the         *)
(* workflow platform, for each choice of the optional features. User       *)
(* groups, labels, payload schemas and the fingerprint are left out.       *)
(***************************************************************************)

\* The features that change the shape of the machine.
Options ==
  [conditionalNetwork : BOOLEAN, emailNotify : BOOLEAN, noSuccessful : BOOLEAN]

Layer1 == "tenant_admin_approval"
Layer2 == "network_team_approval"
Steps == {Layer1, Layer2}
Nodes == {"start", "notify_approvers", "end"} \cup Steps

\* The trigger that approves a step.
ApproveTrigger(o, step) ==
  IF step = Layer2 /\ o.conditionalNetwork THEN "complete" ELSE "approve"

\* The triggers of a step: the approving one, reject, cancel, and on a
\* skippable network step also skip, which the team's admins may fire too.
Triggers(o, step) ==
  {ApproveTrigger(o, step), "reject", "cancel"} \cup
  (IF step = Layer2 /\ o.conditionalNetwork THEN {"skip"} ELSE {})

AllTriggers == {"approve", "complete", "reject", "cancel", "skip"}

\* The outcome of the approve path.
Success(o) == IF o.noSuccessful THEN "Completed" ELSE "Successful"

Results == {"Successful", "Completed", "Rejected", "Canceled", "Failed", "Error"}

Transition(source, target, condition, result) ==
  [source |-> source, target |-> target, condition |-> condition, result |-> result]

\* As if the approval of the first layer granted the request.
OneLayerTransitions(o) ==
  { Transition(Layer1, "end", "approve", Success(o)),
    Transition(Layer1, "end", "reject", "Rejected"),
    Transition(Layer1, "end", "cancel", "Canceled") }

\* As if the results of the network step were given in the wrong order.
SwappedTransitions(o) ==
  { Transition(Layer1, Layer2, "approve", "none"),
    Transition(Layer1, "end", "reject", "Rejected"),
    Transition(Layer1, "end", "cancel", "Canceled"),
    Transition(Layer2, "end", ApproveTrigger(o, Layer2), "Rejected"),
    Transition(Layer2, "end", "reject", Success(o)),
    Transition(Layer2, "end", "cancel", "Canceled") }

\* As if the network step's transitions did not follow its triggers.
ApproveOnlyTransitions(o) ==
  { Transition(Layer1, Layer2, "approve", "none"),
    Transition(Layer1, "end", "reject", "Rejected"),
    Transition(Layer1, "end", "cancel", "Canceled"),
    Transition(Layer2, "end", "approve", Success(o)),
    Transition(Layer2, "end", "reject", "Rejected"),
    Transition(Layer2, "end", "cancel", "Canceled") }

\* The transitions between the steps and the end, each taken on a trigger.
StepTransitions(o) ==
  { Transition(Layer1, Layer2, "approve", "none"),
    Transition(Layer1, "end", "reject", "Rejected"),
    Transition(Layer1, "end", "cancel", "Canceled"),
    Transition(Layer2, "end", ApproveTrigger(o, Layer2), Success(o)),
    Transition(Layer2, "end", "reject", "Rejected"),
    Transition(Layer2, "end", "cancel", "Canceled") }
  \cup
  (IF o.conditionalNetwork
     THEN {Transition(Layer2, "end", "skip", Success(o))} ELSE {})

\* The transitions from the start to the first step. Condition "" is taken at
\* once; "success" and "failed" are the results of the email callback.
StartTransitions(o) ==
  IF o.emailNotify
    THEN { Transition("start", "notify_approvers", "", "none"),
           Transition("notify_approvers", Layer1, "success", "none"),
           Transition("notify_approvers", "end", "failed", "Failed") }
    ELSE {Transition("start", Layer1, "", "none")}
=============================================================================
