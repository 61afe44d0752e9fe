---------------------------- MODULE ApprovalGate ----------------------------
(***************************************************************************)
(* One run of horizon-workflow-approval-gate-poc (main.go): the program    *)
(* publishes the approval state machine, creates one workflow and drives   *)
(* it with triggers and status reads, while the workflow platform executes *)
(* the workflow asynchronously and, in production mode, other approvers    *)
(* act on the same workflow through the portal.                            *)
(*                                                                         *)
(* The platform is not part of the repository. It is modelled as far as    *)
(* the client's use of it, its comments and the recorded runs (run-*.log)  *)
(* show: a workflow is processed asynchronously; a trigger is accepted     *)
(* only while its step waits for one; an accepted trigger is applied       *)
(* later, and a read in between may still show the old status; and the     *)
(* platform may end a workflow by itself with the result Error.            *)
(***************************************************************************)
EXTENDS ApprovalDefinition, CustomKind

CONSTANT SettleAttempts   \* reads after the first one that settled may make

ASSUME SettleAttemptsAssumption == SettleAttempts \in Nat

VARIABLES
  options,    \* the features the definition was built with (fixed)
  request,    \* mode, scenario and parameters of the run (fixed)
  pc,         \* where main is
  polls,      \* reads settled has repeated so far
  seen,       \* the execution_status settled returned last
  warned,     \* main printed a warning in the place of a fatal error
  node,       \* the workflow's current node, "none" before it is created
  status,     \* the workflow's execution_status
  pending,    \* an accepted trigger the platform has not applied yet
  decided,    \* decided[s]: the trigger applied at step s
  reached,    \* the steps the workflow has entered
  result,     \* the workflow's result
  outside     \* somebody other than this run has fired a trigger

driver == <<pc, polls, seen, warned>>
workflow == <<node, status, pending, decided, reached, result>>
vars == <<options, request, tenant, driver, workflow, outside>>

(***************************************************************************)
(* vlan: the request carries params.vlan.  custom: the custom-kind         *)
(* variant, which cancels instead of approving.  other: the variant        *)
(* service-role or user-groups, which alone changes nothing but layer 1's  *)
(* groups, and together with custom-kind is taken in its place where the   *)
(* groups are chosen.  cleanup: CLEANUP=1, for which nothing else matters. *)
(***************************************************************************)
Requests ==
  {r \in [mode : {"test", "production"}, action : {"approve", "reject", "cancel"},
          vlan : BOOLEAN, custom : BOOLEAN, other : BOOLEAN, cleanup : BOOLEAN] :
     /\ r.other => r.custom
     /\ r.cleanup => r.mode = "test" /\ r.action = "approve" /\ ~r.vlan /\ ~r.custom}

\* The switch over the variants gets to the custom kind.
TakesKind == request.custom /\ ~request.other

Settles == {"settle0", "settle1", "settle2"}
Finished == {"finished1", "finished2", "cancelled"}
Ended == Finished \cup {"cleaned", "failed"}
Locations ==
  {"login", "cleanup", "kind", "setup", "draft", "publish", "create", "process", "steps", "cancel", "act1", "act2"}
    \cup Settles \cup Ended

-----------------------------------------------------------------------------
Init ==
  /\ options \in Options
  /\ request \in Requests
  /\ InitTenant(request.cleanup)
  \* Nobody but these two looks at the tenant's entries.
  /\ entry = [e \in Entries |-> "absent"] \/ TakesKind \/ request.cleanup
  /\ pc = "login" /\ polls = 0 /\ seen = "none" /\ warned = FALSE
  /\ node = "none" /\ status = "none" /\ pending = "none"
  /\ decided = [s \in Steps |-> "none"]
  /\ reached = {}
  /\ result = "none"
  /\ outside = FALSE

Goto(l) == pc' = l

-----------------------------------------------------------------------------
(***************************************************************************)
(* The platform                                                            *)
(***************************************************************************)

\* The workflow enters a node. A step with skip_if is looked at first; any
\* other step waits for its approvers.
Enter(target, res) ==
  /\ node' = target
  /\ result' = res
  /\ reached' = reached \cup (Steps \cap {target})
  /\ status' = IF target = "end" THEN "completed"
               ELSE IF /\ target \in Steps
                       /\ ~(target = Layer2 /\ options.conditionalNetwork)
                    THEN "waiting"
                    ELSE "processing"

\* Past the start and past the email callback, whose result may be either.
AutoMove ==
  /\ status = "processing" /\ node \notin Steps
  /\ \E t \in StartTransitions(options) :
       /\ t.source = node
       /\ Enter(t.target, t.result)
  /\ UNCHANGED <<options, request, tenant, driver, pending, decided, outside>>

\* skip_if is evaluated: with a VLAN the skip trigger is fired, else the step
\* waits for the network team.
CheckSkip ==
  /\ status = "processing" /\ node = Layer2 /\ pending = "none"
  /\ options.conditionalNetwork
  /\ IF request.vlan
       THEN pending' = "skip" /\ UNCHANGED status
       ELSE status' = "waiting" /\ UNCHANGED pending
  /\ UNCHANGED <<options, request, tenant, driver, node, decided, reached, result, outside>>

\* An accepted trigger is applied.
Apply ==
  /\ pending # "none"
  /\ \E t \in StepTransitions(options) :
       /\ t.source = node /\ t.condition = pending
       /\ Enter(t.target, t.result)
  /\ decided' = [decided EXCEPT ![node] = pending]
  /\ pending' = "none"
  /\ UNCHANGED <<options, request, tenant, driver, outside>>

\* The platform gives up on a workflow it is processing: a skip_if that is not
\* a boolean, for one, ended recorded runs with the result Error.
Break ==
  /\ status = "processing"
  /\ node' = "end" /\ status' = "completed" /\ result' = "Error"
  /\ pending' = "none"
  /\ UNCHANGED <<options, request, tenant, driver, decided, reached, outside>>

Allowed(t) ==
  /\ node \in Steps /\ status = "waiting" /\ pending = "none"
  /\ t \in Triggers(options, node)

\* The effect of an accepted trigger; a read may still see the old status.
Accept(t) ==
  /\ Allowed(t)
  /\ pending' = t
  /\ status' \in {"waiting", "processing"}
  /\ UNCHANGED <<node, decided, reached, result>>

\* Another approver, or the requester in the portal. Test workflows are visible
\* to nobody else.
OtherActs(t) ==
  /\ request.mode = "production"
  /\ Accept(t)
  /\ outside' = TRUE
  /\ UNCHANGED <<options, request, tenant, driver>>

-----------------------------------------------------------------------------
(***************************************************************************)
(* main. Each remote call may fail, also after the platform has acted; an  *)
(* error ends the program.                                                 *)
(***************************************************************************)

\* login, a password grant, and emailFromToken; CLEANUP=1 is looked at next.
Login ==
  /\ pc = "login"
  /\ Goto(IF request.cleanup THEN "cleanup" ELSE "kind")

\* createWorkflowKind, for which a conflict counts as success, and the choice of
\* layer 1's groups; a custom kind is refused for a test workflow.
RegisterKind ==
  /\ pc = "kind"
  /\ Goto(CASE ~TakesKind -> "draft"
            [] TakesKind /\ request.mode = "production" -> "setup"
            [] TakesKind /\ request.mode = "test" -> "failed")

\* createDefinitionDraft; production mode publishes the draft.
CreateDraft ==
  /\ pc = "draft"
  /\ Goto(IF request.mode = "production" THEN "publish" ELSE "create")

\* publishDefinitionDraft.
Publish ==
  /\ pc = "publish"
  /\ Goto("create")

Prepare ==
  /\ Login \/ RegisterKind \/ CreateDraft \/ Publish
  /\ UNCHANGED <<options, request, tenant, polls, seen, warned, workflow, outside>>

\* A request of setupCustomKind, whose error ends the program.
SetUp ==
  /\ pc = "setup"
  /\ \E e \in Entries : Upsert(e)
  /\ Goto(CASE at' = "ready" -> "draft"
            [] at' = "broken" -> "failed"
            [] OTHER -> "setup")
  /\ UNCHANGED <<options, request, polls, seen, warned, workflow, outside>>

\* A request of teardownCustomKind, and main returns after the last.
CleanUp ==
  /\ pc = "cleanup"
  /\ \E e \in Entries : Remove(e)
  /\ Goto(IF at' = "removed" THEN "cleaned" ELSE "cleanup")
  /\ UNCHANGED <<options, request, polls, seen, warned, workflow, outside>>

\* createProductionWorkflow: it is processed at once.
CreateProduction ==
  /\ request.mode = "production"
  /\ status' = "processing" /\ pc' \in {"settle0", "failed"}

\* createTestWorkflow: it is processed when asked to.
CreateTest ==
  /\ request.mode = "test"
  /\ status' = "created" /\ pc' \in {"process", "failed"}

\* An answer that is lost ends the program and leaves the workflow.
Create ==
  /\ pc = "create"
  /\ node' = "start"
  /\ CreateProduction \/ CreateTest
  /\ UNCHANGED <<options, request, tenant, polls, seen, warned, pending, decided,
                 reached, result, outside>>

\* processTestWorkflow, only right after the creation.
Process ==
  /\ pc = "process"
  /\ status' = "processing"
  /\ pc' \in {"settle0", "failed"}
  /\ UNCHANGED <<options, request, tenant, polls, seen, warned, node, pending, decided,
                 reached, result, outside>>

\* As if main took everything but "waiting" for the end of the workflow.
AfterSettleHasty(l, s) ==
  CASE l = "settle0" -> IF request.custom THEN "steps" ELSE "act1"
    [] l = "settle1" -> IF request.action # "approve" \/ s # "waiting"
                        THEN "finished1" ELSE "act2"
    [] l = "settle2" -> "finished2"

\* Where main goes with the status s that settled returned at l.
AfterSettle(l, s) ==
  CASE l = "settle0" -> IF request.custom THEN "steps" ELSE "act1"
    [] l = "settle1" -> IF request.action # "approve" \/ s = "completed"
                        THEN "finished1" ELSE "act2"
    [] l = "settle2" -> "finished2"

\* As if settled polled until the workflow leaves "processing", however long.
SettleForever ==
  /\ pc \in Settles
  /\ IF status = "processing"
       THEN UNCHANGED <<pc, polls, seen>>
       ELSE /\ polls' = 0
            /\ seen' = status
            /\ Goto(AfterSettle(pc, status))
  /\ UNCHANGED <<options, request, tenant, warned, workflow, outside>>

\* As if settled read once more than it counts.
SettleOneMore ==
  /\ pc \in Settles
  /\ IF status = "processing" /\ polls <= SettleAttempts
       THEN polls' = polls + 1 /\ UNCHANGED <<pc, seen>>
       ELSE /\ polls' = 0
            /\ seen' = status
            /\ Goto(AfterSettle(pc, status))
  /\ UNCHANGED <<options, request, tenant, warned, workflow, outside>>

\* One read of settled: again while the workflow is processing and attempts are
\* left, else on with the status read.
Settle ==
  /\ pc \in Settles
  /\ IF status = "processing" /\ polls < SettleAttempts
       THEN polls' = polls + 1 /\ UNCHANGED <<pc, seen>>
       ELSE /\ polls' = 0
            /\ seen' = status
            /\ Goto(AfterSettle(pc, status))
  /\ UNCHANGED <<options, request, tenant, warned, workflow, outside>>

\* One read of settledWithStep: again until the workflow has a step.
SettleStep ==
  /\ pc = "steps"
  /\ IF reached = {} /\ polls < SettleAttempts
       THEN polls' = polls + 1 /\ UNCHANGED pc
       ELSE polls' = 0 /\ Goto("cancel")
  /\ UNCHANGED <<options, request, tenant, seen, warned, workflow, outside>>

\* The trigger main fires at each of its calls of act.
LayerTrigger ==
  [act1 |-> request.action,
   act2 |-> IF options.conditionalNetwork THEN "complete" ELSE "approve",
   cancel |-> "cancel"]

AfterAct == [act1 |-> "settle1", act2 |-> "settle2", cancel |-> "cancelled"]

\* The platform accepts main's trigger.
Act ==
  /\ pc \in DOMAIN LayerTrigger
  /\ Accept(LayerTrigger[pc])
  /\ \/ Goto(AfterAct[pc]) /\ UNCHANGED warned
     \* the answer is lost
     \/ /\ Goto(IF pc = "cancel" THEN "cancelled" ELSE "failed")
        /\ warned' = (pc = "cancel")
  /\ UNCHANGED <<options, request, tenant, polls, seen, outside>>

\* The platform refuses main's trigger: the step is not there yet or any more,
\* or the operator is not in the step's groups. Only the custom-kind cancel
\* survives that, with a warning.
ActRefused ==
  /\ pc \in DOMAIN LayerTrigger
  /\ Goto(IF pc = "cancel" THEN "cancelled" ELSE "failed")
  /\ warned' = (pc = "cancel")
  /\ UNCHANGED <<options, request, tenant, polls, seen, workflow, outside>>

\* Any other call or read fails before the platform does anything.
CallFails ==
  /\ pc \notin Ended \cup DOMAIN LayerTrigger \cup {"setup", "cleanup"}
  /\ Goto("failed")
  /\ UNCHANGED <<options, request, tenant, polls, seen, warned, workflow, outside>>

-----------------------------------------------------------------------------
Platform == AutoMove \/ CheckSkip \/ Apply \/ Break

MainRuns ==
  Prepare \/ SetUp \/ CleanUp \/ Create \/ Process \/ Settle \/ SettleStep \/ Act \/ ActRefused

Main == MainRuns \/ CallFails

\* The program and the workflow may both stop for good.
Next == Platform \/ Main \/ \E t \in AllTriggers : OtherActs(t)

Spec == Init /\ [][Next]_vars

\* The program runs on and each of its calls returns; no call has to fail, and
\* nothing makes the platform process the workflow or anybody act on it.
FairSpec == Spec /\ WF_vars(MainRuns)

-----------------------------------------------------------------------------
(***************************************************************************)
(* Properties                                                              *)
(***************************************************************************)

TypeOK ==
  /\ options \in Options
  /\ request \in Requests
  /\ TypeOKTenant
  /\ pc \in Locations
  /\ polls \in 0 .. SettleAttempts
  /\ seen \in {"none", "processing", "waiting", "completed"}
  /\ warned \in BOOLEAN
  /\ node \in Nodes \cup {"none"}
  /\ status \in {"none", "created", "processing", "waiting", "completed"}
  /\ pending \in AllTriggers \cup {"none"}
  /\ decided \in [Steps -> AllTriggers \cup {"none"}]
  /\ reached \in SUBSET Steps
  /\ result \in Results \cup {"none"}
  /\ outside \in BOOLEAN

\* The verdict a trigger stands for.
Verdict ==
  [approve |-> "approved", complete |-> "approved", skip |-> "skipped",
   reject |-> "rejected", cancel |-> "canceled"]

LayerState(s) ==
  IF s \notin reached THEN "unreached"
  ELSE IF decided[s] = "none" THEN "open"
  ELSE Verdict[decided[s]]

Gate == INSTANCE TwoLayerGate WITH
  layer1 <- LayerState(Layer1),
  layer2 <- LayerState(Layer2),
  outcome <- result,
  grant <- Success(options),
  skippable <- options.conditionalNetwork

\* The state machine of buildDefinition is a two-layer gate under every choice
\* of features, however the program, other approvers and the platform
\* interleave: granted only through both layers, each decided once, and "a
\* reject/cancel at either step routes straight to end without ever reaching
\* the other step" (definition.go).
ImplementsGate == Gate!Spec

\* A run that ends without an error or a warning leaves no request waiting for
\* an approver: its last trigger was accepted, or the workflow was over.
NoRequestLeftWaiting ==
  pc \in Finished /\ ~warned => ~(status = "waiting" /\ pending = "none")

\* The happy scenario "ends Successful" (README): a run that fired both layers'
\* triggers and then read "completed" was granted, unless somebody else acted
\* on the workflow or the platform gave it up.
HappyRunGrants ==
  pc = "finished2" /\ seen = "completed" /\ ~outside
    => result \in {Success(options), "Error"}

\* "CLEANUP=1 removes them" (main.go): what a clean-up leaves it has warned of,
\* whichever of its requests fail, and whatever earlier runs have left.
CleanupHonest ==
  pc = "cleaned" => \A e \in Entries : entry[e] # "absent" => e \in warnings

\* A workflow whose first step uses the custom kind finds the kind, its secret
\* and its config as this run has set them, whatever earlier runs have left and
\* although each of the two is deleted before it is stored again.
KindComplete == TakesKind /\ node # "none" => entry = Own

\* A clean-up never takes the secret or the config entry from under a kind that
\* stays, unless it has warned that the kind stays.
KindKeepsEntries ==
  [][\A e \in {"secret", "config"} :
       /\ entry[e] # "absent" /\ entry'[e] = "absent"
       /\ entry'["kind"] # "absent"
       => TakesKind \/ "kind" \in warnings]_vars

\* No trigger is accepted that the workflow could not act on: the triggers of a
\* step and the transitions between the steps are built apart from each other
\* (definition.go), and under every choice of features an accepted trigger has one
\* transition to take, a second trigger never being accepted before it is taken.
TriggerApplies ==
  pending # "none" =>
    \E t \in StepTransitions(options) :
      \A u \in StepTransitions(options) :
        u.source = node /\ u.condition = pending <=> u = t

\* main ends, even when the workflow stays in "processing" for ever.
DriverEnds == <>(pc \in Ended)

\* "Workflow finished after layer 1 (layer 1 did not approve, or layer 2 was
\* skipped)" (main.go): when main says so and nobody else has acted on the
\* workflow, the one or the other is the case. Layer 1 has approved once the
\* approval is applied, not as soon as it is accepted.
FinishedClaim ==
  pc = "finished1" /\ ~outside =>
    \/ LayerState(Layer1) # "approved"
    \/ LayerState(Layer2) = "skipped"
=============================================================================
