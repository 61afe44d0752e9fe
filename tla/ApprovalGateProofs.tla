------------------------- MODULE ApprovalGateProofs -------------------------
(***************************************************************************)
(* The safety of ApprovalGate for every number of settle attempts: types,  *)
(* the requests a run leaves behind, the outcome of a happy run, and the   *)
(* implementation of TwoLayerGate.                                         *)
(***************************************************************************)
EXTENDS ApprovalGate, Integers, TLAPS

\* How the platform's variables hang together.
WorkflowShape ==
  /\ (node = "end") <=> (status = "completed")
  /\ (node = "end") <=> (result # "none")
  /\ (node = "none") <=> (status = "none")
  /\ status = "waiting" => node \in Steps
  /\ status = "created" => node = "start"
  /\ pending # "none" => node \in Steps /\ pending \in Triggers(options, node)

\* What the workflow has been through when it is at a node.
Progress ==
  /\ node \in {"none", "start", "notify_approvers"} =>
       reached = {} /\ decided = [s \in Steps |-> "none"]
  /\ node = Layer1 =>
       reached = {Layer1} /\ decided = [s \in Steps |-> "none"]
  /\ node = Layer2 =>
       reached = Steps /\ decided[Layer1] = "approve" /\ decided[Layer2] = "none"

\* What main knows of the workflow by the place it is at. The case act2 is the
\* subtle one: after a stale read the first trigger may still be pending there,
\* and then the platform refuses the second.
DriverKnows ==
  /\ pc \in {"login", "cleanup", "kind", "setup", "draft", "publish", "create"} => node = "none"
  /\ pc = "process" => status = "created"
  /\ status = "created" => pc \in {"process", "failed"}
  /\ pc \in {"settle1", "act2"} =>
       \/ node \in Steps /\ pending = request.action
       \/ node = Layer2 /\ request.action = "approve"
       \/ node = "end"
  /\ pc = "act2" => request.action = "approve"
  /\ pc = "finished1" =>
       \/ node \in Steps /\ pending = request.action /\ request.action # "approve"
       \/ node = "end"
  /\ pc \in {"settle2", "finished2"} =>
       (node = Layer2 /\ pending # "none") \/ node = "end"
  /\ pc = "cancelled" /\ ~warned =>
       (node \in Steps /\ pending = "cancel") \/ node = "end"

\* A run whose two triggers were accepted, with nobody else at work.
HappyPath ==
  /\ pc \in {"settle2", "finished2"} /\ ~outside =>
       \/ node = Layer2 /\ pending = ApproveTrigger(options, Layer2)
       \/ result \in {Success(options), "Error"}
  /\ pc = "finished2" /\ seen = "completed" => node = "end"

\* How far the set-up or the clean-up of the custom kind is, and what main makes
\* of it.
TenantKnows ==
  /\ pc = "setup" => TakesKind
  /\ pc \in {"cleanup", "cleaned"} => request.cleanup
  /\ pc = "cleaned" => at = "removed"
  /\ TakesKind /\ (pc \in {"draft", "publish", "create"} \/ node # "none") =>
       at = "ready"
  /\ TakesKind =>
       /\ at \in {"config", "kind", "ready"} => entry["secret"] = "own"
       /\ at \in {"kind", "ready"} => entry["config"] = "own"
       /\ at = "ready" => entry["kind"] = "own"
  /\ request.cleanup =>
       /\ at # "kind" => entry["kind"] = "absent" \/ "kind" \in warnings
       /\ at \notin {"kind", "secret"} => entry["secret"] = "absent" \/ "secret" \in warnings
       /\ at \notin {"kind", "secret", "config"} =>
            entry["config"] = "absent" \/ "config" \in warnings

IInv == TypeOK /\ WorkflowShape /\ Progress /\ DriverKnows /\ HappyPath

-----------------------------------------------------------------------------
\* The state machine's data, as the proofs use it: which transitions leave a
\* step, by the trigger that takes them.
LEMMA Layer1Transitions ==
  ASSUME NEW t \in StepTransitions(options), t.source = Layer1
  PROVE  \/ t.condition = "approve" /\ t.target = Layer2 /\ t.result = "none"
         \/ t.condition = "reject" /\ t.target = "end" /\ t.result = "Rejected"
         \/ t.condition = "cancel" /\ t.target = "end" /\ t.result = "Canceled"
BY DEF StepTransitions, Transition, Layer1, Layer2

\* The same for the network step; skip exists only where the step is skippable.
LEMMA Layer2Transitions ==
  ASSUME NEW t \in StepTransitions(options), t.source = Layer2
  PROVE  /\ t.target = "end"
         /\ \/ /\ t.condition = ApproveTrigger(options, Layer2)
               /\ t.result = Success(options)
            \/ t.condition = "reject" /\ t.result = "Rejected"
            \/ t.condition = "cancel" /\ t.result = "Canceled"
            \/ /\ options.conditionalNetwork
               /\ t.condition = "skip" /\ t.result = Success(options)
BY DEF StepTransitions, Transition, Layer1, Layer2

\* The transitions from the start; an email callback may fail the workflow.
LEMMA FirstTransitions ==
  ASSUME NEW t \in StartTransitions(options)
  PROVE  /\ t.source \in {"start", "notify_approvers"}
         /\ \/ t.target \in {"notify_approvers", Layer1} /\ t.result = "none"
            \/ t.target = "end" /\ t.result = "Failed"
<1>1. StartTransitions(options) \subseteq
        { Transition("start", "notify_approvers", "", "none"),
          Transition("notify_approvers", Layer1, "success", "none"),
          Transition("notify_approvers", "end", "failed", "Failed"),
          Transition("start", Layer1, "", "none") }
  BY Zenon DEF StartTransitions
<1>2. CASE t = Transition("start", "notify_approvers", "", "none")
  BY <1>2 DEF Transition
<1>3. CASE t = Transition("notify_approvers", Layer1, "success", "none")
  BY <1>3 DEF Transition
<1>4. CASE t = Transition("notify_approvers", "end", "failed", "Failed")
  BY <1>4 DEF Transition
<1>5. CASE t = Transition("start", Layer1, "", "none")
  BY <1>5 DEF Transition
<1>6. QED
  BY <1>1, <1>2, <1>3, <1>4, <1>5

-----------------------------------------------------------------------------
\* The initial states satisfy the inductive invariant.
LEMMA InitIInv == Init => IInv
<1> SUFFICES ASSUME Init PROVE IInv
  OBVIOUS
<1>1. TypeOK
  <2>1. polls \in 0 .. SettleAttempts
    BY SettleAttemptsAssumption DEF Init
  <2>2. decided \in [Steps -> AllTriggers \cup {"none"}]
    BY DEF Init
  <2>3. reached \in SUBSET Steps
    BY DEF Init
  <2>4. pc \in Locations /\ warned \in BOOLEAN /\ outside \in BOOLEAN
    BY DEF Init, Locations
  <2>5. options \in Options /\ request \in Requests
    BY DEF Init
  <2>6. /\ seen \in {"none", "processing", "waiting", "completed"}
        /\ node \in Nodes \cup {"none"}
        /\ status \in {"none", "created", "processing", "waiting", "completed"}
        /\ pending \in AllTriggers \cup {"none"}
        /\ result \in Results \cup {"none"}
    BY DEF Init
  <2>7. TypeOKTenant
    BY DEF Init, InitTenant, TypeOKTenant, Stored, Calls, Entries, RemovalOrder
  <2>8. QED
    BY <2>1, <2>2, <2>3, <2>4, <2>5, <2>6, <2>7 DEF TypeOK
<1>2. WorkflowShape /\ Progress
  BY DEF Init, WorkflowShape, Progress, Layer1, Layer2
<1>3. DriverKnows /\ HappyPath
  BY DEF Init, DriverKnows, HappyPath
<1>4. QED
  BY <1>1, <1>2, <1>3 DEF IInv
\* The nodes are five different things, and no step is the end.
LEMMA NodesDiffer ==
  /\ Layer1 # Layer2
  /\ Steps = {Layer1, Layer2}
  /\ \A s \in Steps : s \notin {"none", "start", "notify_approvers", "end"}
BY DEF Layer1, Layer2, Steps

\* The scenario's trigger is one of three.
LEMMA ActionType ==
  ASSUME TypeOK
  PROVE  request.action \in {"approve", "reject", "cancel"}
BY DEF TypeOK, Requests

\* A custom kind is set up, refused, or not asked for.
LEMMA AfterKind ==
  ASSUME TypeOK, RegisterKind
  PROVE  /\ pc = "kind" /\ pc' \in {"setup", "draft", "failed"}
         /\ pc' = "setup" => TakesKind
         /\ pc' = "draft" => ~TakesKind
<1>1. request.mode \in {"test", "production"}
  BY DEF TypeOK, Requests
<1>2. CASE TakesKind /\ request.mode = "production"
  BY <1>2 DEF RegisterKind, Goto
<1>3. CASE TakesKind /\ request.mode = "test"
  BY <1>3 DEF RegisterKind, Goto
<1>4. CASE ~TakesKind
  BY <1>4 DEF RegisterKind, Goto
<1>5. QED
  BY <1>1, <1>2, <1>3, <1>4

\* Entering a node that is not a step leaves the record of steps alone.
LEMMA EnterEnd ==
  ASSUME NEW r, Enter("end", r)
  PROVE  node' = "end" /\ status' = "completed" /\ result' = r /\ reached' = reached
BY DEF Enter, Steps, Layer1, Layer2

\* The first step never skips: it waits as soon as it is entered.
LEMMA EnterLayer1 ==
  ASSUME NEW r, Enter(Layer1, r)
  PROVE  /\ node' = Layer1 /\ status' = "waiting" /\ result' = r
         /\ reached' = reached \cup {Layer1}
BY DEF Enter, Steps, Layer1, Layer2

\* The network step waits, or is processed first when it may be skipped.
LEMMA EnterLayer2 ==
  ASSUME NEW r, Enter(Layer2, r)
  PROVE  /\ node' = Layer2 /\ status' \in {"waiting", "processing"} /\ result' = r
         /\ reached' = reached \cup {Layer2}
BY DEF Enter, Steps, Layer1, Layer2

\* The email callback is processed.
LEMMA EnterNotify ==
  ASSUME NEW r, Enter("notify_approvers", r)
  PROVE  /\ node' = "notify_approvers" /\ status' = "processing"
         /\ result' = r /\ reached' = reached
BY DEF Enter, Steps, Layer1, Layer2

-----------------------------------------------------------------------------
\* A pass over the start or the email callback keeps the invariant.
LEMMA AutoMoveIInv == IInv /\ AutoMove => IInv'
<1> SUFFICES ASSUME IInv, AutoMove PROVE IInv'
  OBVIOUS
<1> USE DEF IInv
<1>1. PICK t \in StartTransitions(options) : t.source = node /\ Enter(t.target, t.result)
  BY DEF AutoMove
<1>2. node \in {"start", "notify_approvers"}
  BY <1>1, FirstTransitions
<1>3. pending = "none" /\ node \notin Steps /\ node # "end" /\ node # "none"
  BY <1>2, NodesDiffer DEF WorkflowShape
<1>4. \/ node' \in {"notify_approvers"} /\ status' = "processing" /\ result' = "none" /\ reached' = {}
      \/ node' = Layer1 /\ status' = "waiting" /\ result' = "none" /\ reached' = {Layer1}
      \/ node' = "end" /\ status' = "completed" /\ result' = "Failed" /\ reached' = {}
  <2>1. reached = {}
    BY <1>2 DEF Progress
  <2>2. QED
    BY <1>1, <2>1, FirstTransitions, EnterEnd, EnterLayer1, EnterNotify
<1>5. decided = [s \in Steps |-> "none"] /\ decided' = decided
  BY <1>2 DEF Progress, AutoMove
<1>6. UNCHANGED <<options, request, tenant, pc, polls, seen, warned, pending, outside>>
  BY DEF AutoMove, driver
<1>7. TypeOK'
  BY <1>4, <1>5, <1>6 DEF TypeOK, TypeOKTenant, tenant, Nodes, Steps, Results
<1>8. WorkflowShape'
  BY <1>3, <1>4, <1>6, NodesDiffer DEF WorkflowShape
<1>9. Progress'
  BY <1>4, <1>5, NodesDiffer DEF Progress
<1>10. DriverKnows' /\ HappyPath'
  <2>1. pc \notin {"settle1", "act2", "finished1", "settle2", "finished2", "process",
                   "login", "cleanup", "kind", "setup", "draft", "publish", "create"}
    BY <1>2, <1>3, NodesDiffer DEF DriverKnows, AutoMove
  <2>2. ~(pc = "cancelled" /\ ~warned)
    BY <1>2, <1>3, NodesDiffer DEF DriverKnows
  <2>3. QED
    BY <2>1, <2>2, <1>4, <1>6 DEF DriverKnows, HappyPath
<1>11. QED
  BY <1>7, <1>8, <1>9, <1>10

\* So does looking at skip_if.
LEMMA CheckSkipIInv == IInv /\ CheckSkip => IInv'
<1> SUFFICES ASSUME IInv, CheckSkip PROVE IInv'
  OBVIOUS
<1> USE DEF IInv
<1>1. /\ node = Layer2 /\ pending = "none" /\ options.conditionalNetwork
      /\ \/ pending' = "skip" /\ status' = status
         \/ pending' = "none" /\ status' = "waiting"
      /\ status = "processing"
      /\ UNCHANGED <<options, request, tenant, pc, polls, seen, warned, node, decided,
                     reached, result, outside>>
  BY DEF CheckSkip, driver
<1>2. "skip" \in Triggers(options, Layer2)
  BY <1>1, Zenon DEF Triggers
<1>3. TypeOK'
  BY <1>1 DEF TypeOK, TypeOKTenant, tenant, AllTriggers
<1>4. WorkflowShape'
  BY <1>1, <1>2, NodesDiffer DEF WorkflowShape
<1>5. Progress'
  BY <1>1 DEF Progress
<1>6. DriverKnows'
  BY <1>1, NodesDiffer, ActionType DEF DriverKnows
<1>7. HappyPath'
  <2>1. ~(pc \in {"settle2", "finished2"})
    BY <1>1, NodesDiffer DEF DriverKnows
  <2>2. QED
    BY <1>1, <2>1 DEF HappyPath
<1>8. QED
  BY <1>3, <1>4, <1>5, <1>6, <1>7

\* An accepted trigger takes the one transition it stands for.
LEMMA ApplyIInv == IInv /\ Apply => IInv'
<1> SUFFICES ASSUME IInv, Apply PROVE IInv'
  OBVIOUS
<1> USE DEF IInv
<1>1. PICK t \in StepTransitions(options) :
        t.source = node /\ t.condition = pending /\ Enter(t.target, t.result)
  BY DEF Apply
<1>2. /\ pending # "none" /\ node \in Steps /\ pending \in AllTriggers
      /\ decided' = [decided EXCEPT ![node] = pending]
      /\ pending' = "none"
      /\ UNCHANGED <<options, request, tenant, pc, polls, seen, warned, outside>>
  BY DEF Apply, driver, WorkflowShape, TypeOK
<1>3. decided \in [Steps -> AllTriggers \cup {"none"}]
  BY DEF TypeOK
<1>4. CASE node = Layer1
  <2>1. \/ /\ pending = "approve" /\ node' = Layer2
           /\ status' \in {"waiting", "processing"} /\ result' = "none"
           /\ reached' = Steps
        \/ /\ pending \in {"reject", "cancel"} /\ node' = "end"
           /\ status' = "completed" /\ result' \in {"Rejected", "Canceled"}
           /\ reached' = {Layer1}
    <3>1. reached = {Layer1}
      BY <1>4 DEF Progress
    <3>2. QED
      BY <1>1, <1>4, <3>1, Layer1Transitions, EnterEnd, EnterLayer2, NodesDiffer
  <2>2. decided[Layer2] = "none"
    BY <1>4, NodesDiffer DEF Progress
  <2>3. decided'[Layer1] = pending /\ decided'[Layer2] = "none"
    BY <1>2, <1>3, <1>4, <2>2, NodesDiffer
  <2>4. TypeOK'
    BY <1>2, <1>3, <2>1, NodesDiffer DEF TypeOK, TypeOKTenant, tenant, Nodes, Results
  <2>5. WorkflowShape'
    BY <1>2, <2>1, NodesDiffer DEF WorkflowShape
  <2>6. Progress'
    BY <2>1, <2>3, NodesDiffer DEF Progress
  <2>7. DriverKnows'
    <3>1. pc \notin {"login", "cleanup", "kind", "setup", "draft", "publish", "create"}
      BY <1>2, NodesDiffer DEF DriverKnows
    <3>2. pc # "process"
      BY <1>2, NodesDiffer DEF DriverKnows, WorkflowShape
    <3>3. pc \notin {"settle2", "finished2"}
      BY <1>4, NodesDiffer DEF DriverKnows
    <3>4. pc \in {"settle1", "act2"} => pending = request.action
      BY <1>4, NodesDiffer DEF DriverKnows
    <3>5. pc = "finished1" => node' = "end"
      BY <1>4, <2>1, NodesDiffer DEF DriverKnows
    <3>6. pc = "cancelled" /\ ~warned => node' = "end"
      BY <1>4, <2>1, NodesDiffer DEF DriverKnows
    <3>7. pc = "act2" => request.action = "approve"
      BY DEF DriverKnows
    <3>8. pc \in {"settle1", "act2"} =>
            (node' = Layer2 /\ request.action = "approve") \/ node' = "end"
      BY <2>1, <3>4
    <3>9. QED
      BY <1>2, <2>1, <3>1, <3>2, <3>3, <3>5, <3>6, <3>7, <3>8 DEF DriverKnows
  <2>8. HappyPath'
    <3>1. pc \notin {"settle2", "finished2"}
      BY <1>4, NodesDiffer DEF DriverKnows
    <3>2. QED
      BY <1>2, <3>1 DEF HappyPath
  <2>9. QED
    BY <2>4, <2>5, <2>6, <2>7, <2>8
<1>5. CASE node = Layer2
  <2>1. /\ node' = "end" /\ status' = "completed" /\ reached' = reached
        /\ result' = t.result
        /\ result' \in {Success(options), "Rejected", "Canceled"}
    BY <1>1, <1>5, Layer2Transitions, EnterEnd
  <2>2. Success(options) \in {"Successful", "Completed"}
    BY Zenon DEF Success
  <2>3. result' \in Results /\ result' # "none"
    BY <2>1, <2>2 DEF Results
  <2>4. TypeOK'
    BY <1>2, <1>3, <2>1, <2>3 DEF TypeOK, TypeOKTenant, tenant, Nodes
  <2>5. WorkflowShape'
    BY <1>2, <2>1, <2>3, NodesDiffer DEF WorkflowShape
  <2>6. Progress'
    BY <2>1, NodesDiffer DEF Progress
  <2>7. DriverKnows'
    <3>1. pc \notin {"login", "cleanup", "kind", "setup", "draft", "publish", "create"}
      BY <1>2, NodesDiffer DEF DriverKnows
    <3>2. pc # "process"
      BY <1>2, NodesDiffer DEF DriverKnows, WorkflowShape
    <3>3. pc = "act2" => request.action = "approve"
      BY DEF DriverKnows
    <3>4. QED
      BY <1>2, <2>1, <3>1, <3>2, <3>3 DEF DriverKnows
  <2>8. HappyPath'
    <3>1. CASE pc \in {"settle2", "finished2"} /\ ~outside
      <4>1. pending = ApproveTrigger(options, Layer2)
        <5>1. result = "none"
          BY <1>5, NodesDiffer DEF WorkflowShape
        <5>2. Success(options) # "none"
          BY <2>2
        <5>3. QED
          BY <3>1, <5>1, <5>2 DEF HappyPath
      <4>2. ApproveTrigger(options, Layer2) \in {"approve", "complete"}
        BY Zenon DEF ApproveTrigger
      <4>3. t.result = Success(options)
        BY <1>1, <1>5, <4>1, <4>2, Layer2Transitions
      <4>4. result' = Success(options)' /\ UNCHANGED <<pc, seen>>
        BY <1>2, <2>1, <4>3 DEF Success
      <4>5. QED
        BY <2>1, <4>4 DEF HappyPath
    <3>2. CASE ~(pc \in {"settle2", "finished2"} /\ ~outside)
      BY <1>2, <2>1, <3>2 DEF HappyPath
    <3>3. QED
      BY <3>1, <3>2
  <2>9. QED
    BY <2>4, <2>5, <2>6, <2>7, <2>8
<1>6. QED
  BY <1>2, <1>4, <1>5, NodesDiffer

\* So does a workflow the platform gives up.
LEMMA BreakIInv == IInv /\ Break => IInv'
<1> SUFFICES ASSUME IInv, Break PROVE IInv'
  OBVIOUS
<1> USE DEF IInv
<1>1. /\ status = "processing"
      /\ node' = "end" /\ status' = "completed" /\ result' = "Error" /\ pending' = "none"
      /\ UNCHANGED <<options, request, tenant, pc, polls, seen, warned, decided, reached, outside>>
  BY DEF Break, driver
<1>2. TypeOK'
  BY <1>1 DEF TypeOK, TypeOKTenant, tenant, Nodes, Results
<1>3. WorkflowShape' /\ Progress'
  BY <1>1, NodesDiffer DEF WorkflowShape, Progress
<1>4. DriverKnows'
  <2>1. pc \notin {"login", "cleanup", "kind", "setup", "draft", "publish", "create", "process"}
    BY <1>1 DEF DriverKnows, WorkflowShape
  <2>2. pc = "act2" => request.action = "approve"
    BY DEF DriverKnows
  <2>3. QED
    BY <1>1, <2>1, <2>2 DEF DriverKnows
<1>5. HappyPath'
  BY <1>1 DEF HappyPath
<1>6. QED
  BY <1>2, <1>3, <1>4, <1>5

-----------------------------------------------------------------------------
\* What an accepted trigger does to the workflow, whoever fires it.
LEMMA AcceptShape ==
  ASSUME TypeOK, WorkflowShape, Progress, NEW t, Accept(t), UNCHANGED options
  PROVE  /\ node \in Steps /\ status = "waiting" /\ pending = "none"
         /\ t \in Triggers(options, node) /\ t \in AllTriggers
         /\ pending' = t /\ status' \in {"waiting", "processing"}
         /\ UNCHANGED <<node, decided, reached, result>>
         /\ WorkflowShape' /\ Progress'
<1>1. /\ node \in Steps /\ status = "waiting" /\ pending = "none"
      /\ t \in Triggers(options, node)
      /\ pending' = t /\ status' \in {"waiting", "processing"}
      /\ UNCHANGED <<node, decided, reached, result>>
  BY DEF Accept, Allowed
<1>2. t \in AllTriggers
  BY <1>1, Zenon DEF Triggers, ApproveTrigger, AllTriggers
<1>3. WorkflowShape'
  BY <1>1, NodesDiffer DEF WorkflowShape
<1>4. Progress'
  BY <1>1 DEF Progress
<1>5. QED
  BY <1>1, <1>2, <1>3, <1>4

\* A trigger fired by somebody else keeps the invariant.
LEMMA OtherActsIInv == ASSUME IInv, NEW t \in AllTriggers, OtherActs(t) PROVE IInv'
<1> USE DEF IInv
<1>1. /\ Accept(t) /\ outside' = TRUE
      /\ UNCHANGED <<options, request, tenant, pc, polls, seen, warned>>
  BY DEF OtherActs, driver
<1>2. /\ node \in Steps /\ pending = "none" /\ pending' = t
      /\ status = "waiting" /\ status' \in {"waiting", "processing"}
      /\ UNCHANGED <<node, decided, reached, result>>
      /\ WorkflowShape' /\ Progress'
  BY <1>1, AcceptShape
<1>3. TypeOK'
  BY <1>1, <1>2 DEF TypeOK, TypeOKTenant, tenant
<1>4. DriverKnows'
  BY <1>1, <1>2, NodesDiffer, ActionType DEF DriverKnows
<1>5. HappyPath'
  BY <1>1, <1>2 DEF HappyPath
<1>6. QED
  BY <1>2, <1>3, <1>4, <1>5

\* main's trigger is accepted.
LEMMA ActIInv == IInv /\ Act => IInv'
<1> SUFFICES ASSUME IInv, Act PROVE IInv'
  OBVIOUS
<1> USE DEF IInv
<1> DEFINE t == LayerTrigger[pc]
<1>1. /\ Accept(t) /\ pc \in {"act1", "act2", "cancel"}
      /\ \/ pc' = AfterAct[pc] /\ warned' = warned
         \/ /\ pc' = IF pc = "cancel" THEN "cancelled" ELSE "failed"
            /\ warned' = (pc = "cancel")
      /\ UNCHANGED <<options, request, tenant, polls, seen, outside>>
  BY DEF Act, LayerTrigger, Goto
<1>2. /\ pc = "act1" => t = request.action
      /\ pc = "act2" => t = ApproveTrigger(options, Layer2)
      /\ pc = "cancel" => t = "cancel"
  BY DEF LayerTrigger, ApproveTrigger
<1> HIDE DEF t
<1>3. /\ node \in Steps /\ pending = "none" /\ pending' = t /\ t \in AllTriggers
      /\ status = "waiting" /\ status' \in {"waiting", "processing"}
      /\ UNCHANGED <<node, decided, reached, result>>
      /\ WorkflowShape' /\ Progress'
  BY <1>1, AcceptShape
<1>4. /\ pc = "act1" => pc' \in {"settle1", "failed"}
      /\ pc = "act2" => pc' \in {"settle2", "failed"}
      /\ pc = "cancel" => pc' = "cancelled"
      /\ warned' \in BOOLEAN
  <2>1. /\ AfterAct["act1"] = "settle1" /\ AfterAct["act2"] = "settle2"
        /\ AfterAct["cancel"] = "cancelled"
    BY DEF AfterAct
  <2>2. warned' \in BOOLEAN
    <3>1. warned \in BOOLEAN
      BY DEF TypeOK
    <3>2. QED
      BY <1>1, <3>1
  <2>3. QED
    BY <1>1, <2>1, <2>2
<1>5. TypeOK'
  BY <1>1, <1>3, <1>4 DEF TypeOK, TypeOKTenant, tenant, Locations, Settles, Ended, Finished
<1>6. pc = "act2" => node = Layer2
  BY <1>3, NodesDiffer, ActionType DEF DriverKnows
<1>7. t # "none"
  BY <1>3 DEF AllTriggers
<1>8. DriverKnows'
  BY <1>1, <1>2, <1>3, <1>4, <1>6, <1>7, NodesDiffer DEF DriverKnows
<1>9. HappyPath'
  <2>1. pc' = "settle2" => node' = Layer2 /\ pending' = ApproveTrigger(options, Layer2)
    BY <1>1, <1>2, <1>3, <1>4, <1>6
  <2>2. pc' # "finished2"
    BY <1>1, <1>4
  <2>3. QED
    BY <1>1, <2>1, <2>2 DEF HappyPath, ApproveTrigger
<1>10. QED
  BY <1>3, <1>5, <1>8, <1>9

\* A read of settled moves main on with what the status shows.
LEMMA SettleIInv == IInv /\ Settle => IInv'
<1> SUFFICES ASSUME IInv, Settle PROVE IInv'
  OBVIOUS
<1> USE DEF IInv
<1>1. UNCHANGED <<options, request, tenant, warned, node, status, pending, decided, reached,
                  result, outside>>
  BY DEF Settle, workflow
<1>2. WorkflowShape' /\ Progress'
  BY <1>1 DEF WorkflowShape, Progress
<1>3. CASE status = "processing" /\ polls < SettleAttempts
  <2>1. polls' = polls + 1 /\ UNCHANGED <<pc, seen>>
    BY <1>3 DEF Settle
  <2>2. TypeOK'
    BY <1>1, <1>3, <2>1, SettleAttemptsAssumption DEF TypeOK, TypeOKTenant, tenant
  <2>3. DriverKnows' /\ HappyPath'
    BY <1>1, <2>1 DEF DriverKnows, HappyPath, ApproveTrigger, Success
  <2>4. QED
    BY <1>2, <2>2, <2>3
<1>4. CASE ~(status = "processing" /\ polls < SettleAttempts)
  <2>1. polls' = 0 /\ seen' = status /\ pc' = AfterSettle(pc, status) /\ pc \in Settles
    BY <1>4 DEF Settle, Goto
  <2>2. /\ pc = "settle0" => pc' \in {"steps", "act1"}
        /\ pc = "settle1" =>
             \/ pc' = "finished1" /\ (request.action # "approve" \/ status = "completed")
             \/ pc' = "act2" /\ request.action = "approve"
        /\ pc = "settle2" => pc' = "finished2"
    BY <2>1 DEF AfterSettle
  <2>3. status # "created"
    BY <2>1 DEF DriverKnows, Settles
  <2>4. TypeOK'
    BY <1>1, <2>1, <2>2, <2>3, SettleAttemptsAssumption
       DEF TypeOK, TypeOKTenant, tenant, Locations, Settles, Ended, Finished
  <2>5. DriverKnows'
    BY <1>1, <2>1, <2>2, <2>3, NodesDiffer DEF DriverKnows, Settles, WorkflowShape
  <2>6. HappyPath'
    <3>1. pc' \in {"settle2", "finished2"} => pc = "settle2"
      BY <2>1, <2>2 DEF Settles
    <3>2. seen' = "completed" => node' = "end"
      BY <1>1, <2>1 DEF WorkflowShape
    <3>3. QED
      BY <1>1, <3>1, <3>2 DEF HappyPath, ApproveTrigger, Success
  <2>7. QED
    BY <1>2, <2>4, <2>5, <2>6
<1>5. QED
  BY <1>3, <1>4

\* A request of the set-up keeps the types of the tenant's entries.
LEMMA UpsertType ==
  ASSUME TypeOKTenant, NEW e \in Entries, Upsert(e)
  PROVE  TypeOKTenant'
<1>1. entry' \in [Entries -> Stored]
  BY DEF TypeOKTenant, Upsert, Conflict, Delete, Store, Stored
<1>2. at' \in Entries \cup {"ready", "broken", "removed"}
  <2>1. SetUpOrder[e] \in Entries \cup {"ready"}
    BY DEF SetUpOrder, Entries
  <2>2. at' \in {at, "broken", SetUpOrder[e]}
    BY DEF Upsert, Conflict, Delete, Store, Onward, BreakOff
  <2>3. QED
    BY <2>1, <2>2 DEF TypeOKTenant
<1>3. call' \in Calls
  BY DEF TypeOKTenant, Upsert, Conflict, Delete, Store, Onward, BreakOff, Calls
<1>4. warnings' \in SUBSET Entries
  BY DEF TypeOKTenant, Upsert
<1>5. QED
  BY <1>1, <1>2, <1>3, <1>4 DEF TypeOKTenant

\* And so does one of the clean-up.
LEMMA RemoveType ==
  ASSUME TypeOKTenant, NEW e \in Entries, Remove(e)
  PROVE  TypeOKTenant'
<1>1. entry' \in [Entries -> Stored]
  BY DEF TypeOKTenant, Remove, Stored
<1>2. at' \in Entries \cup {"ready", "broken", "removed"}
  BY DEF Remove, RemovalOrder, Entries
<1>3. call' \in Calls /\ warnings' \in SUBSET Entries
  BY DEF TypeOKTenant, Remove
<1>4. QED
  BY <1>1, <1>2, <1>3 DEF TypeOKTenant

\* The remaining steps of main keep it: the calls before the first read, the
\* wait for a step, and every error.
LEMMA MainIInv ==
  ASSUME IInv,
         Prepare \/ SetUp \/ CleanUp \/ Create \/ Process \/ SettleStep \/ ActRefused \/ CallFails
  PROVE  IInv'
<1> USE DEF IInv
<1>1. CASE Prepare
  <2>1. /\ pc \in {"login", "kind", "draft", "publish"}
        /\ pc' \in {"cleanup", "kind", "setup", "draft", "publish", "create", "failed"}
        /\ UNCHANGED <<options, request, tenant, polls, seen, warned, node, status, pending,
                       decided, reached, result, outside>>
    BY <1>1, AfterKind DEF Prepare, Login, CreateDraft, Publish, workflow, Goto
  <2>2. TypeOK'
    BY <2>1 DEF TypeOK, TypeOKTenant, tenant, Locations, Ended
  <2>3. WorkflowShape' /\ Progress'
    BY <2>1 DEF WorkflowShape, Progress
  <2>4. DriverKnows' /\ HappyPath'
    BY <2>1 DEF DriverKnows, HappyPath
  <2>5. QED
    BY <2>2, <2>3, <2>4
<1>2. CASE Create
  <2>1. /\ pc = "create" /\ node' = "start"
        /\ \/ status' = "processing" /\ pc' \in {"settle0", "failed"}
           \/ status' = "created" /\ pc' \in {"process", "failed"}
        /\ UNCHANGED <<options, request, tenant, polls, seen, warned, pending, decided,
                       reached, result, outside>>
    BY <1>2 DEF Create, CreateProduction, CreateTest
  <2>2. node = "none" /\ pending = "none" /\ result = "none"
    BY <2>1, NodesDiffer DEF DriverKnows, WorkflowShape
  <2>3. TypeOK'
    BY <2>1 DEF TypeOK, TypeOKTenant, tenant, Locations, Settles, Ended, Nodes
  <2>4. WorkflowShape' /\ Progress'
    BY <2>1, <2>2, NodesDiffer DEF WorkflowShape, Progress
  <2>5. DriverKnows' /\ HappyPath'
    BY <2>1 DEF DriverKnows, HappyPath
  <2>6. QED
    BY <2>3, <2>4, <2>5
<1>3. CASE Process
  <2>1. /\ pc = "process" /\ status' = "processing" /\ pc' \in {"settle0", "failed"}
        /\ UNCHANGED <<options, request, tenant, polls, seen, warned, node, pending, decided,
                       reached, result, outside>>
    BY <1>3 DEF Process
  <2>2. node = "start"
    BY <2>1 DEF DriverKnows, WorkflowShape
  <2>3. TypeOK'
    BY <2>1 DEF TypeOK, TypeOKTenant, tenant, Locations, Settles, Ended
  <2>4. WorkflowShape' /\ Progress'
    BY <2>1, <2>2, NodesDiffer DEF WorkflowShape, Progress
  <2>5. DriverKnows' /\ HappyPath'
    BY <2>1 DEF DriverKnows, HappyPath
  <2>6. QED
    BY <2>3, <2>4, <2>5
<1>4. CASE SettleStep
  <2>1. /\ pc = "steps" /\ pc' \in {"steps", "cancel"}
        /\ polls' \in 0 .. SettleAttempts
        /\ UNCHANGED <<options, request, tenant, seen, warned, node, status, pending, decided,
                       reached, result, outside>>
    BY <1>4, SettleAttemptsAssumption DEF SettleStep, workflow, Goto, TypeOK
  <2>2. TypeOK'
    BY <2>1 DEF TypeOK, TypeOKTenant, tenant, Locations
  <2>3. WorkflowShape' /\ Progress'
    BY <2>1 DEF WorkflowShape, Progress
  <2>4. DriverKnows' /\ HappyPath'
    BY <2>1 DEF DriverKnows, HappyPath
  <2>5. QED
    BY <2>2, <2>3, <2>4
<1>5. CASE ActRefused \/ CallFails
  <2>1. /\ pc' = "failed" \/ (pc' = "cancelled" /\ warned' = TRUE)
        /\ warned' \in BOOLEAN
        /\ UNCHANGED <<options, request, tenant, polls, seen, node, status, pending, decided,
                       reached, result, outside>>
    BY <1>5 DEF ActRefused, CallFails, workflow, Goto, TypeOK
  <2>2. status = "created" => pc' = "failed"
    <3>1. ActRefused => pc \in {"act1", "act2", "cancel"}
      BY DEF ActRefused, LayerTrigger
    <3>2. CallFails => pc' = "failed"
      BY DEF CallFails, Goto
    <3>3. QED
      BY <1>5, <3>1, <3>2 DEF DriverKnows
  <2>3. TypeOK'
    BY <2>1 DEF TypeOK, TypeOKTenant, tenant, Locations, Ended, Finished
  <2>4. WorkflowShape' /\ Progress'
    BY <2>1 DEF WorkflowShape, Progress
  <2>5. DriverKnows' /\ HappyPath'
    BY <2>1, <2>2 DEF DriverKnows, HappyPath
  <2>6. QED
    BY <2>3, <2>4, <2>5
<1>6. CASE SetUp \/ CleanUp
  <2>1. /\ pc \in {"setup", "cleanup"}
        /\ pc' \in {"setup", "cleanup", "draft", "cleaned", "failed"}
        /\ UNCHANGED <<options, request, polls, seen, warned, node, status, pending,
                       decided, reached, result, outside>>
    BY <1>6 DEF SetUp, CleanUp, workflow, Goto
  <2>2. TypeOKTenant'
    BY <1>6, UpsertType, RemoveType DEF SetUp, CleanUp, TypeOK
  <2>3. TypeOK'
    BY <2>1, <2>2 DEF TypeOK, Locations, Ended
  <2>4. WorkflowShape' /\ Progress'
    BY <2>1 DEF WorkflowShape, Progress
  <2>5. DriverKnows' /\ HappyPath'
    BY <2>1 DEF DriverKnows, HappyPath
  <2>6. QED
    BY <2>3, <2>4, <2>5
<1>7. QED
  BY <1>1, <1>2, <1>3, <1>4, <1>5, <1>6

\* Every step keeps the inductive invariant.
LEMMA NextIInv == IInv /\ [Next]_vars => IInv'
<1> SUFFICES ASSUME IInv, [Next]_vars PROVE IInv'
  OBVIOUS
<1>1. CASE Platform
  BY <1>1, AutoMoveIInv, CheckSkipIInv, ApplyIInv, BreakIInv DEF Platform
<1>2. CASE Main
  BY <1>2, ActIInv, SettleIInv, MainIInv DEF Main, MainRuns
<1>3. ASSUME NEW t \in AllTriggers, OtherActs(t) PROVE IInv'
  BY <1>3, OtherActsIInv
<1>4. CASE UNCHANGED vars
  BY <1>4 DEF vars, tenant, driver, workflow, IInv, TypeOK, TypeOKTenant, WorkflowShape, Progress,
              DriverKnows, HappyPath, ApproveTrigger, Success
<1>5. QED
  BY <1>1, <1>2, <1>3, <1>4 DEF Next

\* The inductive invariant holds throughout every run.
THEOREM Invariance == Spec => []IInv
BY InitIInv, NextIInv, PTL DEF Spec

\* Every variable keeps its type; in particular settled never reads more often
\* than it may, and never returns the status of a workflow not yet processed.
THEOREM TypeCorrect == Spec => []TypeOK
<1>1. IInv => TypeOK
  BY DEF IInv
<1>2. QED
  BY <1>1, Invariance, PTL

\* A run that ends without an error or a warning leaves no request waiting for
\* an approver, for every scenario, every interleaving and any number of reads.
THEOREM NothingLeftWaiting == Spec => []NoRequestLeftWaiting
<1>1. IInv => NoRequestLeftWaiting
  <2> SUFFICES ASSUME IInv, pc \in Finished, ~warned, status = "waiting", pending = "none"
               PROVE  FALSE
    BY DEF NoRequestLeftWaiting
  <2>1. node # "end" /\ request.action # "none"
    BY ActionType DEF IInv, WorkflowShape
  <2>2. QED
    BY <2>1 DEF IInv, DriverKnows, Finished
<1>2. QED
  BY <1>1, Invariance, PTL

\* The happy scenario ends Successful (or Completed, as the definition says)
\* when nobody else acts and the platform does not give the workflow up.
THEOREM HappyRun == Spec => []HappyRunGrants
<1>1. IInv => HappyRunGrants
  <2> SUFFICES ASSUME IInv, pc = "finished2", seen = "completed", ~outside
               PROVE  result \in {Success(options), "Error"}
    BY DEF HappyRunGrants
  <2>1. node = "end"
    BY DEF IInv, HappyPath
  <2>2. QED
    BY <2>1, NodesDiffer DEF IInv, HappyPath
<1>2. QED
  BY <1>1, Invariance, PTL

-----------------------------------------------------------------------------
\* What is known of the tenant is known from the start.
LEMMA InitTenantKnows == Init => TenantKnows
BY DEF Init, InitTenant, TenantKnows, TakesKind, RemovalOrder, Requests

\* It only depends on where main is and on whether there is a workflow.
LEMMA TenantStays ==
  ASSUME TenantKnows, UNCHANGED <<request, tenant>>,
         pc' \in {"setup", "cleanup", "cleaned", "draft", "publish", "create"} => pc' = pc,
         node' # "none" => node # "none" \/ pc = "create"
  PROVE  TenantKnows'
BY DEF TenantKnows, TakesKind, tenant

\* A request of the set-up.
LEMMA SetUpTenant == ASSUME IInv, TenantKnows, SetUp PROVE TenantKnows'
<1>1. PICK e \in Entries : Upsert(e)
  BY DEF SetUp
<1>2. /\ pc = "setup" /\ TakesKind /\ ~request.cleanup /\ node = "none"
      /\ request' = request /\ node' = node
      /\ pc' = (CASE at' = "ready" -> "draft" [] at' = "broken" -> "failed" [] OTHER -> "setup")
  BY DEF SetUp, Goto, workflow, TenantKnows, TakesKind, IInv, TypeOK, DriverKnows, Requests
<1>3. entry \in [Entries -> Stored] /\ at = e
  BY <1>1 DEF IInv, TypeOK, TypeOKTenant, Upsert
<1>4. \/ at' = at /\ \A f \in Entries : f # e => entry'[f] = entry[f]
      \/ at' = "broken"
      \/ /\ at' = SetUpOrder[e] /\ entry'[e] = "own"
         /\ \A f \in Entries : f # e => entry'[f] = entry[f]
  BY <1>1, <1>3 DEF Upsert, Conflict, Delete, Store, Onward, BreakOff
<1>5. /\ at' \in {"config", "kind", "ready"} => entry'["secret"] = "own"
      /\ at' \in {"kind", "ready"} => entry'["config"] = "own"
      /\ at' = "ready" => entry'["kind"] = "own"
  BY <1>2, <1>3, <1>4 DEF TenantKnows, SetUpOrder, Entries
<1>6. QED
  BY <1>2, <1>5 DEF TenantKnows, TakesKind

\* A request of the clean-up.
LEMMA CleanUpTenant == ASSUME IInv, TenantKnows, CleanUp PROVE TenantKnows'
<1>1. PICK e \in Entries : Remove(e)
  BY DEF CleanUp
<1>2. /\ pc = "cleanup" /\ request.cleanup /\ ~TakesKind
      /\ request' = request
      /\ pc' = IF at' = "removed" THEN "cleaned" ELSE "cleanup"
  BY DEF CleanUp, Goto, TenantKnows, TakesKind, IInv, TypeOK, Requests
<1>3. entry \in [Entries -> Stored] /\ at = e
  BY <1>1 DEF IInv, TypeOK, TypeOKTenant, Remove
<1>4. /\ at' = RemovalOrder[e]
      /\ entry'[e] = "absent" \/ e \in warnings'
      /\ \A f \in Entries : f # e => entry'[f] = entry[f]
      /\ warnings \subseteq warnings'
  BY <1>1, <1>3 DEF Remove
<1>5. /\ at' # "kind" => entry'["kind"] = "absent" \/ "kind" \in warnings'
      /\ at' \notin {"kind", "secret"} => entry'["secret"] = "absent" \/ "secret" \in warnings'
      /\ at' \notin {"kind", "secret", "config"} =>
           entry'["config"] = "absent" \/ "config" \in warnings'
  BY <1>2, <1>3, <1>4 DEF TenantKnows, RemovalOrder, Entries
<1>6. QED
  BY <1>2, <1>5 DEF TenantKnows, TakesKind

\* Every step keeps what is known of the tenant.
LEMMA NextTenantKnows == IInv /\ TenantKnows /\ [Next]_vars => TenantKnows'
<1> SUFFICES ASSUME IInv, TenantKnows, [Next]_vars PROVE TenantKnows'
  OBVIOUS
<1>1. CASE SetUp \/ CleanUp
  BY <1>1, SetUpTenant, CleanUpTenant
<1>2. CASE Prepare
  <2>1. /\ UNCHANGED <<request, tenant, node>> /\ node = "none"
        /\ \/ pc = "login" /\ pc' = IF request.cleanup THEN "cleanup" ELSE "kind"
           \/ pc = "kind" /\ pc' \in {"setup", "draft", "failed"}
              /\ (pc' = "setup" => TakesKind) /\ (pc' = "draft" => ~TakesKind)
           \/ pc \in {"draft", "publish"} /\ pc' \in {"publish", "create"}
    BY <1>2, AfterKind
       DEF Prepare, Login, CreateDraft, Publish, Goto, workflow, IInv, DriverKnows
  <2>2. QED
    BY <2>1 DEF TenantKnows, TakesKind, tenant
<1>3. CASE Platform \/ (\E t \in AllTriggers : OtherActs(t)) \/ UNCHANGED vars
  <2>1. UNCHANGED <<request, tenant, pc>>
    BY <1>3 DEF Platform, AutoMove, CheckSkip, Apply, Break, OtherActs, vars, driver
  <2>2. node' # "none" => node # "none"
    BY <1>3, NodesDiffer
       DEF Platform, AutoMove, CheckSkip, Apply, Break, OtherActs, Accept, vars, workflow,
           IInv, WorkflowShape
  <2>3. QED
    BY <2>1, <2>2, TenantStays
<1>4. CASE Create \/ Process \/ Settle \/ SettleStep \/ Act \/ ActRefused \/ CallFails
  <2>1. UNCHANGED <<request, tenant>>
    BY <1>4 DEF Create, Process, Settle, SettleStep, Act, ActRefused, CallFails
  <2>2. node' = node \/ pc = "create"
    BY <1>4 DEF Create, Process, Settle, SettleStep, Act, ActRefused, CallFails, Accept,
                workflow
  <2>3. pc' \in {"setup", "cleanup", "cleaned", "draft", "publish", "create"} => pc' = pc
    BY <1>4 DEF Create, CreateTest, CreateProduction, Process, Settle, SettleStep, Act,
                ActRefused, CallFails, Goto, AfterSettle, AfterAct, LayerTrigger, Settles
  <2>4. QED
    BY <2>1, <2>2, <2>3, TenantStays
<1>5. QED
  BY <1>1, <1>2, <1>3, <1>4 DEF Next, Main, MainRuns

\* What is known of the tenant holds throughout every run.
LEMMA TenantInvariance == Spec => []TenantKnows
BY InitIInv, NextIInv, InitTenantKnows, NextTenantKnows, PTL DEF Spec

\* What a clean-up leaves, it has warned of.
THEOREM CleanupTells == Spec => []CleanupHonest
<1>1. IInv /\ TenantKnows => CleanupHonest
  BY DEF CleanupHonest, TenantKnows, Entries
<1>2. QED
  BY <1>1, Invariance, TenantInvariance, PTL

\* A workflow of the custom-kind variant finds its kind, secret and config, from
\* whatever state of the tenant the run set out.
THEOREM KindThere == Spec => []KindComplete
<1>1. IInv /\ TenantKnows => KindComplete
  <2> SUFFICES ASSUME IInv, TenantKnows, TakesKind, node # "none" PROVE entry = Own
    BY DEF KindComplete
  <2>1. \A e \in Entries : entry[e] = "own"
    BY DEF TenantKnows, Entries
  <2>2. QED
    BY <2>1 DEF Own, IInv, TypeOK, TypeOKTenant
<1>2. QED
  BY <1>1, Invariance, TenantInvariance, PTL

\* No secret or config entry is taken from under a kind that stays without a
\* warning.
THEOREM EntriesKept == Spec => KindKeepsEntries
<1> DEFINE Kept ==
      \A e \in {"secret", "config"} :
        /\ entry[e] # "absent" /\ entry'[e] = "absent"
        /\ entry'["kind"] # "absent"
        => TakesKind \/ "kind" \in warnings
<1>1. IInv /\ TenantKnows /\ [Next]_vars => [Kept]_vars
  <2> SUFFICES ASSUME IInv, TenantKnows, Next PROVE Kept \/ UNCHANGED vars
    OBVIOUS
  <2>1. CASE SetUp
    BY <2>1 DEF SetUp, TenantKnows
  <2>2. CASE CleanUp
    <3>1. PICK e \in Entries : Remove(e)
      BY <2>2 DEF CleanUp
    <3>2. request.cleanup /\ at = e /\ entry \in [Entries -> Stored]
      BY <2>2, <3>1 DEF CleanUp, TenantKnows, Remove, IInv, TypeOK, TypeOKTenant
    <3>3. e # "kind" => entry'["kind"] = entry["kind"]
      BY <3>1, <3>2 DEF Remove, Entries
    <3>4. \A f \in Entries : entry'[f] = entry[f] \/ f = e
      BY <3>1, <3>2 DEF Remove
    <3>5. QED
      BY <3>2, <3>3, <3>4 DEF TenantKnows, Entries
  <2>3. CASE ~SetUp /\ ~CleanUp
    <3>1. UNCHANGED tenant
      BY <2>3 DEF Next, Platform, Main, MainRuns, Prepare, Create, Process, Settle,
                  SettleStep, Act, ActRefused, CallFails, AutoMove, CheckSkip, Apply,
                  Break, OtherActs
    <3>2. QED
      BY <3>1 DEF tenant
  <2>4. QED
    BY <2>1, <2>2, <2>3
<1>2. QED
  BY <1>1, Invariance, TenantInvariance, PTL DEF Spec, KindKeepsEntries

-----------------------------------------------------------------------------
\* The workflow starts as a gate nothing has reached.
LEMMA InitGate == Init => Gate!Init
<1> SUFFICES ASSUME Init PROVE Gate!Init
  OBVIOUS
<1>1. LayerState(Layer1) = "unreached" /\ LayerState(Layer2) = "unreached"
  BY DEF Init, LayerState
<1>2. Success(options) \in {"Successful", "Completed"}
  BY Zenon DEF Success
<1>3. options.conditionalNetwork \in BOOLEAN
  BY DEF Init, Options
<1>4. QED
  BY <1>1, <1>2, <1>3 DEF Init, Gate!Init

\* What the gate sees of a workflow, by its node.
LEMMA LayersByNode ==
  ASSUME Progress
  PROVE  /\ node \in {"none", "start", "notify_approvers"} =>
              LayerState(Layer1) = "unreached" /\ LayerState(Layer2) = "unreached"
         /\ node = Layer1 =>
              LayerState(Layer1) = "open" /\ LayerState(Layer2) = "unreached"
         /\ node = Layer2 =>
              LayerState(Layer1) = "approved" /\ LayerState(Layer2) = "open"
<1>1. CASE node \in {"none", "start", "notify_approvers"}
  BY <1>1, NodesDiffer DEF Progress, LayerState
<1>2. CASE node = Layer1
  BY <1>2, NodesDiffer DEF Progress, LayerState
<1>3. CASE node = Layer2
  <2>1. reached = Steps /\ decided[Layer1] = "approve" /\ decided[Layer2] = "none"
    BY <1>3 DEF Progress
  <2>2. LayerState(Layer1) = "approved"
    BY <2>1, NodesDiffer DEF LayerState, Verdict
  <2>3. LayerState(Layer2) = "open"
    BY <2>1, NodesDiffer DEF LayerState
  <2>4. QED
    BY <1>3, <2>2, <2>3, NodesDiffer
<1>4. QED
  BY <1>1, <1>2, <1>3

\* The mapped variables depend on these four alone.
LEMMA GateStutters ==
  ASSUME UNCHANGED <<options, reached, decided, result>>
  PROVE  UNCHANGED Gate!vars
BY DEF Gate!vars, LayerState, Success

\* A move to the first step opens the first layer; a failed email callback ends
\* the request without a decision.
LEMMA AutoMoveGate ==
  ASSUME IInv, AutoMove
  PROVE  Gate!Next \/ UNCHANGED Gate!vars
<1>1. PICK t \in StartTransitions(options) : t.source = node /\ Enter(t.target, t.result)
  BY DEF AutoMove
<1>2. node \in {"start", "notify_approvers"}
  BY <1>1, FirstTransitions
<1>3. /\ result = "none" /\ reached = {} /\ decided = [s \in Steps |-> "none"]
      /\ LayerState(Layer1) = "unreached" /\ LayerState(Layer2) = "unreached"
  BY <1>2, LayersByNode DEF IInv, WorkflowShape, Progress
<1>4. UNCHANGED <<options, decided>>
  BY DEF AutoMove
<1>5. UNCHANGED <<Success(options), options.conditionalNetwork>>
  BY <1>4 DEF Success
<1>6. CASE t.target = "notify_approvers" /\ t.result = "none"
  <2>1. reached' = reached /\ result' = result
    BY <1>1, <1>3, <1>6, EnterNotify
  <2>2. QED
    BY <1>4, <2>1, GateStutters
<1>7. CASE t.target = Layer1 /\ t.result = "none"
  <2>1. reached' = {Layer1} /\ result' = "none"
    BY <1>1, <1>3, <1>7, EnterLayer1
  <2>2. LayerState(Layer1)' = "open" /\ LayerState(Layer2)' = "unreached"
    BY <1>3, <1>4, <2>1, NodesDiffer DEF LayerState
  <2>3. Gate!Open1 /\ Gate!Fixed
    BY <1>3, <1>5, <2>1, <2>2 DEF Gate!Open1, Gate!Fixed
  <2>4. QED
    BY <2>3 DEF Gate!Next
<1>8. CASE t.target = "end" /\ t.result = "Failed"
  <2>1. reached' = reached /\ result' = "Failed"
    BY <1>1, <1>8, EnterEnd
  <2>2. UNCHANGED <<LayerState(Layer1), LayerState(Layer2)>>
    BY <1>4, <2>1 DEF LayerState
  <2>3. Gate!BreakDown /\ Gate!Fixed
    BY <1>3, <1>5, <2>1, <2>2 DEF Gate!BreakDown, Gate!Breakdowns, Gate!Fixed
  <2>4. QED
    BY <2>3 DEF Gate!Next
<1>9. QED
  BY <1>1, <1>6, <1>7, <1>8, FirstTransitions

\* A trigger that is applied is a decision of the layer the workflow is at.
LEMMA ApplyGate ==
  ASSUME IInv, Apply
  PROVE  Gate!Next
<1>1. PICK t \in StepTransitions(options) :
        t.source = node /\ t.condition = pending /\ Enter(t.target, t.result)
  BY DEF Apply
<1>2. /\ pending # "none" /\ node \in Steps
      /\ decided' = [decided EXCEPT ![node] = pending] /\ UNCHANGED options
      /\ decided \in [Steps -> AllTriggers \cup {"none"}]
  BY DEF Apply, IInv, WorkflowShape, TypeOK
<1>3. UNCHANGED <<Success(options), options.conditionalNetwork>>
  BY <1>2 DEF Success
<1>4. Gate!Fixed
  BY <1>3 DEF Gate!Fixed
<1>5. result = "none"
  BY <1>2, NodesDiffer DEF IInv, WorkflowShape
<1>6. CASE node = Layer1
  <2>1. reached = {Layer1} /\ LayerState(Layer1) = "open" /\ LayerState(Layer2) = "unreached"
    BY <1>6, LayersByNode DEF IInv, Progress
  <2>2. decided[Layer2] = "none"
    BY <1>6, NodesDiffer DEF IInv, Progress
  <2>3. decided'[Layer1] = pending /\ decided'[Layer2] = "none"
    BY <1>2, <1>6, <2>2, NodesDiffer
  <2>4. CASE pending = "approve" /\ t.target = Layer2 /\ t.result = "none"
    <3>1. reached' = Steps /\ result' = "none"
      BY <1>1, <2>1, <2>4, EnterLayer2, NodesDiffer
    <3>2. LayerState(Layer1)' = "approved" /\ LayerState(Layer2)' = "open"
      BY <2>3, <2>4, <3>1, NodesDiffer DEF LayerState, Verdict
    <3>3. Gate!Approve1
      BY <1>5, <2>1, <3>1, <3>2 DEF Gate!Approve1
    <3>4. QED
      BY <1>4, <3>3 DEF Gate!Next
  <2>5. CASE /\ t.target = "end"
             /\ \/ pending = "reject" /\ t.result = "Rejected"
                \/ pending = "cancel" /\ t.result = "Canceled"
    <3>1. reached' = reached /\ result' = t.result
      BY <1>1, <2>5, EnterEnd
    <3>2. /\ LayerState(Layer2)' = "unreached"
          /\ LayerState(Layer1)' = IF pending = "reject" THEN "rejected" ELSE "canceled"
      BY <2>1, <2>3, <2>5, <3>1, NodesDiffer DEF LayerState, Verdict
    <3>3. Gate!Refuse1
      BY <1>5, <2>1, <2>5, <3>1, <3>2 DEF Gate!Refuse1, Gate!Refusal
    <3>4. QED
      BY <1>4, <3>3 DEF Gate!Next
  <2>6. QED
    BY <1>1, <1>6, <2>4, <2>5, Layer1Transitions
<1>7. CASE node = Layer2
  <2>1. /\ reached = Steps /\ decided[Layer1] = "approve"
        /\ LayerState(Layer1) = "approved" /\ LayerState(Layer2) = "open"
    BY <1>7, LayersByNode DEF IInv, Progress
  <2>2. decided'[Layer1] = "approve" /\ decided'[Layer2] = pending
    BY <1>2, <1>7, <2>1, NodesDiffer
  <2>3. reached' = Steps /\ result' = t.result
    BY <1>1, <1>7, <2>1, EnterEnd, Layer2Transitions
  <2>4. LayerState(Layer1)' = "approved" /\ LayerState(Layer2)' = Verdict[pending]
    BY <1>2, <2>2, <2>3, NodesDiffer DEF LayerState, Verdict
  <2>5. ApproveTrigger(options, Layer2) \in {"approve", "complete"}
    BY Zenon DEF ApproveTrigger
  <2>6. CASE \/ pending = ApproveTrigger(options, Layer2) /\ t.result = Success(options)
             \/ options.conditionalNetwork /\ pending = "skip" /\ t.result = Success(options)
    <3>1. \/ Verdict[pending] = "approved"
          \/ options.conditionalNetwork /\ Verdict[pending] = "skipped"
      BY <2>5, <2>6 DEF Verdict
    <3>2. Gate!Grant2
      BY <1>5, <2>1, <2>3, <2>4, <2>6, <3>1 DEF Gate!Grant2
    <3>3. QED
      BY <1>4, <3>2 DEF Gate!Next
  <2>7. CASE \/ pending = "reject" /\ t.result = "Rejected"
             \/ pending = "cancel" /\ t.result = "Canceled"
    <3>1. Gate!Refuse2
      BY <1>5, <2>1, <2>3, <2>4, <2>7 DEF Gate!Refuse2, Gate!Refusal, Verdict
    <3>2. QED
      BY <1>4, <3>1 DEF Gate!Next
  <2>8. QED
    BY <1>1, <1>7, <2>6, <2>7, Layer2Transitions
<1>8. QED
  BY <1>2, <1>6, <1>7, NodesDiffer

\* Every step of the workflow is a step of the gate or leaves it as it is.
LEMMA StepGate ==
  ASSUME IInv, [Next]_vars
  PROVE  [Gate!Next]_Gate!vars
<1>1. CASE AutoMove \/ Apply
  BY <1>1, AutoMoveGate, ApplyGate
<1>2. CASE Break
  <2>1. result = "none"
    BY <1>2 DEF Break, IInv, WorkflowShape
  <2>2. result' = "Error" /\ UNCHANGED <<options, decided, reached>>
    BY <1>2 DEF Break
  <2>3. UNCHANGED <<LayerState(Layer1), LayerState(Layer2), Success(options),
                    options.conditionalNetwork>>
    BY <2>2 DEF LayerState, Success
  <2>4. Gate!BreakDown /\ Gate!Fixed
    BY <2>1, <2>2, <2>3 DEF Gate!BreakDown, Gate!Breakdowns, Gate!Fixed
  <2>5. QED
    BY <2>4 DEF Gate!Next
<1>3. CASE CheckSkip \/ Main \/ (\E t \in AllTriggers : OtherActs(t)) \/ UNCHANGED vars
  <2>1. UNCHANGED <<options, reached, decided, result>>
    <3>1. CASE CheckSkip \/ UNCHANGED vars
      BY <3>1 DEF CheckSkip, vars, workflow
    <3>2. CASE Main
      BY <3>2 DEF Main, MainRuns, Prepare, SetUp, CleanUp, Create, Process, Settle, SettleStep, Act,
                  ActRefused, CallFails, Accept, workflow
    <3>3. CASE \E t \in AllTriggers : OtherActs(t)
      BY <3>3 DEF OtherActs, Accept
    <3>4. QED
      BY <1>3, <3>1, <3>2, <3>3
  <2>2. QED
    BY <2>1, GateStutters
<1>4. QED
  BY <1>1, <1>2, <1>3 DEF Next, Platform

\* The approval state machine is a two-layer gate for every choice of features
\* and every interleaving of the program, other approvers and the platform.
THEOREM Refinement == Spec => ImplementsGate
<1>1. IInv /\ [Next]_vars => [Gate!Next]_Gate!vars
  BY StepGate
<1>2. QED
  BY <1>1, InitGate, Invariance, PTL DEF Spec, ImplementsGate, Gate!Spec
-----------------------------------------------------------------------------
\* A gate that may have granted only through both layers stays one.
LEMMA GateGrants ==
  ASSUME Success(options) \in {"Successful", "Completed"}, Gate!GrantedByBoth,
         [Gate!Next]_Gate!vars
  PROVE  Gate!GrantedByBoth'
<1>1. CASE UNCHANGED Gate!vars
  BY <1>1 DEF Gate!vars, Gate!GrantedByBoth
<1>2. CASE Gate!Next
  <2>1. /\ Success(options)' = Success(options)
        /\ options'.conditionalNetwork = options.conditionalNetwork
    BY <1>2 DEF Gate!Next, Gate!Fixed
  <2>2. CASE Gate!Open1 \/ Gate!Approve1
    BY <2>1, <2>2 DEF Gate!Open1, Gate!Approve1, Gate!GrantedByBoth
  <2>3. CASE Gate!Refuse1 \/ Gate!Refuse2
    <3>1. result' \in {"Rejected", "Canceled"}
      BY <2>3 DEF Gate!Refuse1, Gate!Refuse2, Gate!Refusal
    <3>2. QED
      BY <2>1, <3>1 DEF Gate!GrantedByBoth
  <2>4. CASE Gate!Grant2
    BY <2>1, <2>4 DEF Gate!Grant2, Gate!GrantedByBoth
  <2>5. CASE Gate!BreakDown
    <3>1. result' \in {"Failed", "Error"}
      BY <2>5 DEF Gate!BreakDown, Gate!Breakdowns
    <3>2. QED
      BY <2>1, <3>1 DEF Gate!GrantedByBoth
  <2>6. QED
    BY <1>2, <2>2, <2>3, <2>4, <2>5 DEF Gate!Next
<1>3. QED
  BY <1>1, <1>2

\* "The request is granted by both layers", said of the code's own definition: what
\* a recorded success says of the decisions at the two steps, at any later time.
THEOREM GrantNeedsBoth == Spec => []Gate!GrantedByBoth
<1>1. Success(options) \in {"Successful", "Completed"}
  BY Zenon DEF Success
<1>2. Gate!Init => Gate!GrantedByBoth
  BY <1>1 DEF Gate!Init, Gate!GrantedByBoth
<1>3. Gate!GrantedByBoth /\ [Gate!Next]_Gate!vars => Gate!GrantedByBoth'
  BY <1>1, GateGrants
<1>4. QED
  BY <1>2, <1>3, Refinement, PTL DEF ImplementsGate, Gate!Spec

\* A recorded result is final, and so are the decisions that led to it: nobody's
\* late trigger changes them.
THEOREM ResultsFinal == Spec => Gate!DecisionsStay
<1>1. [Gate!Next]_Gate!vars =>
        [result = "none"]_<<LayerState(Layer1), LayerState(Layer2), result>>
  BY DEF Gate!Next, Gate!vars, Gate!Open1, Gate!Approve1, Gate!Refuse1, Gate!Grant2,
         Gate!Refuse2, Gate!BreakDown
<1>2. QED
  BY <1>1, Refinement, PTL DEF ImplementsGate, Gate!Spec, Gate!DecisionsStay

-----------------------------------------------------------------------------
\* The transitions that leave a step, each with the trigger it is taken on.
LEMMA TransitionsOf ==
  ASSUME NEW o \in Options, NEW u \in StepTransitions(o)
  PROVE  \/ u = Transition(Layer1, Layer2, "approve", "none")
         \/ u = Transition(Layer1, "end", "reject", "Rejected")
         \/ u = Transition(Layer1, "end", "cancel", "Canceled")
         \/ u = Transition(Layer2, "end", ApproveTrigger(o, Layer2), Success(o))
         \/ u = Transition(Layer2, "end", "reject", "Rejected")
         \/ u = Transition(Layer2, "end", "cancel", "Canceled")
         \/ o.conditionalNetwork /\ u = Transition(Layer2, "end", "skip", Success(o))
BY Zenon DEF StepTransitions

\* The two lists that buildDefinition makes agree: each trigger of a step has one
\* transition at it.
LEMMA OneTransition ==
  ASSUME NEW o \in Options, NEW s \in Steps, NEW c \in Triggers(o, s)
  PROVE  \E t \in StepTransitions(o) :
           \A u \in StepTransitions(o) : u.source = s /\ u.condition = c <=> u = t
<1> DEFINE Right(target, res) ==
      /\ Transition(s, target, c, res) \in StepTransitions(o)
      /\ \A u \in StepTransitions(o) :
           u.source = s /\ u.condition = c => u = Transition(s, target, c, res)
<1>1. ApproveTrigger(o, Layer2) \in {"approve", "complete"} /\ ApproveTrigger(o, Layer1) = "approve"
  BY DEF ApproveTrigger, Layer1, Layer2
<1>2. \E target, res : Right(target, res)
  <2>1. CASE s = Layer1
    <3>1. c \in {"approve", "reject", "cancel"}
      BY <1>1, <2>1, Zenon DEF Triggers, Layer1, Layer2
    <3>2. CASE c = "approve"
      <4>1. Right(Layer2, "none")
        BY <1>1, <2>1, <3>2, TransitionsOf DEF StepTransitions, Transition, Layer1, Layer2
      <4>2. QED
        BY <4>1
    <3>3. CASE c = "reject"
      <4>1. Right("end", "Rejected")
        BY <1>1, <2>1, <3>3, TransitionsOf DEF StepTransitions, Transition, Layer1, Layer2
      <4>2. QED
        BY <4>1
    <3>4. CASE c = "cancel"
      <4>1. Right("end", "Canceled")
        BY <1>1, <2>1, <3>4, TransitionsOf DEF StepTransitions, Transition, Layer1, Layer2
      <4>2. QED
        BY <4>1
    <3>5. QED
      BY <3>1, <3>2, <3>3, <3>4
  <2>2. CASE s = Layer2
    <3>1. \/ c \in {ApproveTrigger(o, Layer2), "reject", "cancel"}
          \/ c = "skip" /\ o.conditionalNetwork
      BY <2>2, Zenon DEF Triggers
    <3>2. CASE c = ApproveTrigger(o, Layer2)
      <4>1. Right("end", Success(o))
        BY <1>1, <2>2, <3>2, TransitionsOf DEF StepTransitions, Transition, Layer1, Layer2
      <4>2. QED
        BY <4>1
    <3>3. CASE c = "reject"
      <4>1. Right("end", "Rejected")
        BY <1>1, <2>2, <3>3, TransitionsOf DEF StepTransitions, Transition, Layer1, Layer2
      <4>2. QED
        BY <4>1
    <3>4. CASE c = "cancel"
      <4>1. Right("end", "Canceled")
        BY <1>1, <2>2, <3>4, TransitionsOf DEF StepTransitions, Transition, Layer1, Layer2
      <4>2. QED
        BY <4>1
    <3>5. CASE c = "skip" /\ o.conditionalNetwork
      <4>1. Right("end", Success(o))
        BY <1>1, <2>2, <3>5, TransitionsOf DEF StepTransitions, Transition, Layer1, Layer2
      <4>2. QED
        BY <4>1
    <3>6. QED
      BY <3>1, <3>2, <3>3, <3>4, <3>5
  <2>3. QED
    BY <2>1, <2>2 DEF Steps
<1>3. PICK target, res : Right(target, res)
  BY <1>2
<1>4. \A u : u = Transition(s, target, c, res) => u.source = s /\ u.condition = c
  BY DEF Transition
<1>5. QED
  BY <1>3, <1>4

\* An accepted trigger always has its one transition to take.
THEOREM TriggersApply == Spec => []TriggerApplies
<1>1. IInv => TriggerApplies
  BY OneTransition DEF IInv, TypeOK, WorkflowShape, TriggerApplies
<1>2. QED
  BY <1>1, Invariance, PTL
-----------------------------------------------------------------------------
(***************************************************************************)
(* Why main ends: each of its steps uses up some of a finite amount of     *)
(* work, and nobody else adds to it.                                       *)
(***************************************************************************)

\* The requests that storing an entry may still take, by the next one.
CallsLeft(c) == CASE c = "POST" -> 3 [] c = "DELETE" -> 2 [] OTHER -> 1

\* The requests that a set-up may still take.
SetUpLeft(e, c) ==
  CASE e = "secret" -> 6 + CallsLeft(c)
    [] e = "config" -> 3 + CallsLeft(c)
    [] e = "kind" -> CallsLeft(c)
    [] OTHER -> 0

\* The requests that a clean-up may still take.
CleanUpLeft(e) == CASE e = "kind" -> 3 [] e = "secret" -> 2 [] e = "config" -> 1 [] OTHER -> 0

\* A bound on the requests that main may still send from place l on; r is the
\* number of reads the settled under way may still make, e and c are the entry of
\* the tenant it is at and the request it sends next.
Work(l, r, e, c) ==
  CASE l = "settle2" -> r
    [] l = "act2" -> SettleAttempts + 2
    [] l = "settle1" -> SettleAttempts + 2 + r
    [] l = "act1" -> 2 * SettleAttempts + 4
    [] l = "cancel" -> 1
    [] l = "steps" -> 1 + r
    [] l = "settle0" -> 2 * SettleAttempts + 4 + r
    [] l = "process" -> 3 * SettleAttempts + 6
    [] l = "create" -> 3 * SettleAttempts + 7
    [] l = "publish" -> 3 * SettleAttempts + 8
    [] l = "draft" -> 3 * SettleAttempts + 9
    [] l = "setup" -> 3 * SettleAttempts + 9 + SetUpLeft(e, c)
    [] l = "cleanup" -> CleanUpLeft(e)
    [] l = "kind" -> 3 * SettleAttempts + 19
    [] l = "login" -> 3 * SettleAttempts + 20
    [] OTHER -> 0

WorkLeft == Work(pc, SettleAttempts - polls + 1, at, call)

\* Every step of main leaves less to do, and no other step leaves more or less.
MainGetsOn == [][IF Main THEN WorkLeft' < WorkLeft ELSE WorkLeft' = WorkLeft]_vars

\* The work is never negative, and bounded by what a run starts with.
LEMMA WorkBound ==
  ASSUME NEW l \in Locations, NEW r \in 1 .. SettleAttempts + 1, NEW e, NEW c
  PROVE  /\ Work(l, r, e, c) \in 0 .. 3 * SettleAttempts + 20
         /\ l \notin Ended /\ (l = "cleanup" => e \in Entries) => Work(l, r, e, c) > 0
<1>1. SettleAttempts \in Nat /\ r \in Int
  BY SettleAttemptsAssumption
<1>2. SetUpLeft(e, c) \in 0 .. 9 /\ CleanUpLeft(e) \in 0 .. 3
  BY DEF SetUpLeft, CallsLeft, CleanUpLeft
<1>3. e \in Entries => CleanUpLeft(e) > 0
  BY DEF CleanUpLeft, Entries
<1>4. CASE l \in {"settle0", "settle1", "settle2", "steps"}
  <2>1. Work(l, r, e, c) \in {r, SettleAttempts + 2 + r, 1 + r, 2 * SettleAttempts + 4 + r}
    BY <1>4 DEF Work
  <2>2. QED
    BY <1>1, <1>4, <2>1
<1>5. CASE l = "setup"
  BY <1>1, <1>2, <1>5 DEF Work, Ended, Finished
<1>6. CASE l = "cleanup"
  BY <1>1, <1>2, <1>3, <1>6 DEF Work, Ended, Finished
<1>7. CASE l \in Ended
  <2>1. Work(l, r, e, c) = 0
    BY <1>7 DEF Work, Ended, Finished
  <2>2. QED
    BY <1>1, <1>7, <2>1
<1>8. CASE l \in {"act1", "act2", "cancel", "process", "create", "publish", "draft", "kind", "login"}
  <2>1. Work(l, r, e, c) \in
          {1, SettleAttempts + 2, 2 * SettleAttempts + 4, 3 * SettleAttempts + 6,
           3 * SettleAttempts + 7, 3 * SettleAttempts + 8, 3 * SettleAttempts + 9,
           3 * SettleAttempts + 19, 3 * SettleAttempts + 20}
    BY <1>8 DEF Work
  <2>2. QED
    BY <1>1, <1>8, <2>1
<1>9. QED
  BY <1>4, <1>5, <1>6, <1>7, <1>8 DEF Locations, Settles

\* A place reached by a step of main comes after the place it left.
LEMMA MainWorks ==
  ASSUME IInv, Main
  PROVE  WorkLeft' < WorkLeft
<1> DEFINE r == SettleAttempts - polls + 1
<1>1. SettleAttempts \in Nat /\ r \in 1 .. SettleAttempts + 1 /\ pc \in Locations
  BY SettleAttemptsAssumption DEF IInv, TypeOK
<1>2. CASE Prepare
  <2>1. polls' = polls /\ at' = at /\ call' = call
    BY <1>2 DEF Prepare, tenant
  <2>2. SetUpLeft(at, call) \in 0 .. 9 /\ CleanUpLeft(at) \in 0 .. 3
    BY DEF SetUpLeft, CallsLeft, CleanUpLeft
  <2>3. CASE RegisterKind
    BY <1>1, <2>1, <2>2, <2>3, AfterKind DEF IInv, WorkLeft, Work
  <2>4. CASE Login \/ CreateDraft \/ Publish
    BY <1>1, <2>1, <2>2, <2>4 DEF Login, CreateDraft, Publish, Goto, WorkLeft, Work
  <2>5. QED
    BY <1>2, <2>3, <2>4 DEF Prepare
<1>3. CASE SetUp
  <2>1. PICK e \in Entries : Upsert(e)
    BY <1>3 DEF SetUp
  <2>2. pc = "setup" /\ at = e
    BY <1>3, <2>1 DEF SetUp, Upsert
  <2>3. \/ at' = "broken"
        \/ at' = SetUpOrder[e]
        \/ at' = e /\ CallsLeft(call') < CallsLeft(call)
    <3>1. CASE Conflict(e)
      BY <2>2, <3>1 DEF Conflict, CallsLeft
    <3>2. CASE Delete(e)
      <4>1. \/ at' = "broken"
            \/ at' = at /\ CallsLeft(call') = 1 /\ CallsLeft(call) = 2
        BY <3>2, Zenon DEF Delete, BreakOff, CallsLeft
      <4>2. QED
        BY <2>2, <4>1
    <3>3. CASE Store(e)
      BY <3>3 DEF Store, Onward, BreakOff
    <3>4. QED
      BY <2>1, <3>1, <3>2, <3>3 DEF Upsert, BreakOff
  <2>4. CallsLeft(call) \in 1 .. 3 /\ CallsLeft(call') \in 1 .. 3
    BY DEF CallsLeft
  <2>5. CASE at' \in {"broken", "ready"}
    BY <1>1, <1>3, <2>1, <2>2, <2>4, <2>5 DEF SetUp, Goto, WorkLeft, Work, SetUpLeft, Entries
  <2>6. CASE at' \notin {"broken", "ready"}
    <3>1. pc' = "setup"
      BY <1>3, <2>6 DEF SetUp, Goto
    <3>2. SetUpLeft(at', call') < SetUpLeft(at, call)
      BY <2>1, <2>2, <2>3, <2>4, <2>6 DEF SetUpLeft, SetUpOrder, Entries
    <3>3. SetUpLeft(at', call') \in Nat /\ SetUpLeft(at, call) \in Nat
      BY <2>4 DEF SetUpLeft
    <3>4. QED
      BY <1>1, <2>2, <3>1, <3>2, <3>3 DEF WorkLeft, Work
  <2>7. QED
    BY <2>5, <2>6
<1>4. CASE CleanUp
  <2>1. PICK e \in Entries : Remove(e)
    BY <1>4 DEF CleanUp
  <2>2. CleanUpLeft(at') < CleanUpLeft(at) /\ CleanUpLeft(at) > 0
    BY <2>1 DEF Remove, RemovalOrder, CleanUpLeft, Entries
  <2>3. QED
    BY <1>4, <2>2 DEF CleanUp, Goto, WorkLeft, Work
<1>5. CASE Create \/ Process
  BY <1>1, <1>5 DEF Create, CreateProduction, CreateTest, Process, WorkLeft, Work
<1>6. CASE Settle
  <2>1. CASE polls < SettleAttempts /\ polls' = polls + 1 /\ pc' = pc
    <3>1. pc \in Settles /\ SettleAttempts - polls' + 1 = SettleAttempts - polls
      BY <1>1, <1>6, <2>1 DEF Settle, IInv, TypeOK
    <3>2. QED
      BY <1>1, <2>1, <3>1 DEF Settles, WorkLeft, Work, IInv, TypeOK
  <2>2. CASE polls' = 0 /\ pc' = AfterSettle(pc, status)
    <3>1. \/ pc = "settle0" /\ pc' \in {"steps", "act1"}
          \/ pc = "settle1" /\ pc' \in {"finished1", "act2"}
          \/ pc = "settle2" /\ pc' = "finished2"
      BY <1>6, <2>2 DEF Settle, Settles, AfterSettle
    <3>2. QED
      BY <1>1, <2>2, <3>1 DEF WorkLeft, Work
  <2>3. QED
    BY <1>6, <2>1, <2>2 DEF Settle, Goto
<1>7. CASE SettleStep
  BY <1>1, <1>7 DEF SettleStep, Goto, WorkLeft, Work, IInv, TypeOK
<1>8. CASE Act \/ ActRefused
  <2>1. /\ pc \in {"act1", "act2", "cancel"} /\ polls' = polls
        /\ pc' \in {"failed", "cancelled"} \/ pc' = AfterAct[pc]
    BY <1>8 DEF Act, ActRefused, Goto, LayerTrigger
  <2>2. QED
    BY <1>1, <2>1 DEF AfterAct, WorkLeft, Work, IInv, TypeOK
<1>9. CASE CallFails
  <2>1. pc' = "failed"
    BY <1>9 DEF CallFails, Goto
  <2>2. WorkLeft > 0
    BY <1>1, <1>9, WorkBound DEF CallFails, WorkLeft
  <2>3. QED
    BY <2>1, <2>2 DEF WorkLeft, Work
<1>10. QED
  BY <1>2, <1>3, <1>4, <1>5, <1>6, <1>7, <1>8, <1>9 DEF Main, MainRuns

\* What others do takes nothing off main's work.
LEMMA OthersWait ==
  ASSUME ~Main, [Next]_vars
  PROVE  WorkLeft' = WorkLeft
<1>1. UNCHANGED <<pc, polls, at, call>>
  <2>1. CASE Platform
    BY <2>1 DEF Platform, AutoMove, CheckSkip, Apply, Break, driver, tenant
  <2>2. CASE \E t \in AllTriggers : OtherActs(t)
    BY <2>2 DEF OtherActs, driver, tenant
  <2>3. CASE UNCHANGED vars
    BY <2>3 DEF vars, driver, tenant
  <2>4. QED
    BY <2>1, <2>2, <2>3 DEF Next
<1>2. QED
  BY <1>1 DEF WorkLeft, Work, SetUpLeft, CleanUpLeft, CallsLeft

\* main takes at most 3 * SettleAttempts + 20 steps in a run, the repeated reads of
\* each settled included: every step of it uses up some of that, whatever the
\* platform and other approvers do in between. With the fairness of main's steps
\* this is why main ends.
THEOREM DriverBounded == Spec => [](WorkLeft \in 0 .. 3 * SettleAttempts + 20) /\ MainGetsOn
<1>1. IInv => WorkLeft \in 0 .. 3 * SettleAttempts + 20
  BY SettleAttemptsAssumption, WorkBound DEF WorkLeft, IInv, TypeOK
<1>2. IInv /\ [Next]_vars
        => [IF Main THEN WorkLeft' < WorkLeft ELSE WorkLeft' = WorkLeft]_vars
  BY MainWorks, OthersWait
<1>3. QED
  BY <1>1, <1>2, Invariance, PTL DEF Spec, MainGetsOn

-----------------------------------------------------------------------------
\* A set-up or a clean-up, also one that is still to begin, is at an entry.
AtEntry == pc \in {"login", "cleanup", "kind", "setup"} => at \in Entries

\* The guards of main's steps, those aside that only a failed call takes.
MainCanGoOn ==
  \/ pc \in {"login", "kind", "draft", "publish", "process", "steps"} \cup Settles
  \/ pc \in {"setup", "cleanup"} /\ \E e \in Entries : at = e
  \/ pc = "create" /\ request.mode \in {"production", "test"}
  \/ pc \in DOMAIN LayerTrigger

\* main is over, or has a step to take.
MainNeverWaits == pc \notin Ended => MainCanGoOn

\* No answer of the tenant leads a set-up or a clean-up of the custom kind to an
\* entry it has no request for, and nothing main does waits for the platform: with
\* DriverBounded, main ends although the workflow may stay in "processing".
THEOREM DriverNeverStuck == Spec => []MainNeverWaits
<1>1. Init => AtEntry
  BY DEF Init, InitTenant, RemovalOrder, Entries, AtEntry
<1>2. ASSUME IInv, AtEntry, [Next]_vars
      PROVE  AtEntry'
  <2>1. CASE SetUp
    <3>1. PICK e \in Entries : Upsert(e)
      BY <2>1 DEF SetUp
    <3>2. \/ at' = at
          \/ at' = "broken"
          \/ at' = SetUpOrder[e]
      BY <3>1 DEF Upsert, Conflict, Delete, Store, Onward, BreakOff
    <3>3. /\ pc' = (CASE at' = "ready" -> "draft" [] at' = "broken" -> "failed" [] OTHER -> "setup")
          /\ at \in Entries
      BY <1>2, <2>1 DEF SetUp, Goto, AtEntry
    <3>4. QED
      BY <3>2, <3>3 DEF AtEntry, SetUpOrder, Entries
  <2>2. CASE CleanUp
    <3>1. PICK e \in Entries : Remove(e)
      BY <2>2 DEF CleanUp
    <3>2. /\ at' = RemovalOrder[e]
          /\ pc' = IF at' = "removed" THEN "cleaned" ELSE "cleanup"
      BY <2>2, <3>1 DEF CleanUp, Remove, Goto
    <3>3. QED
      BY <3>2 DEF AtEntry, RemovalOrder, Entries
  <2>3. CASE Prepare
    <3>1. at' = at /\ (pc' \in {"cleanup", "kind", "setup", "login"} => pc \in {"login", "kind"})
      BY <2>3 DEF Prepare, Login, RegisterKind, CreateDraft, Publish, Goto, tenant
    <3>2. QED
      BY <1>2, <3>1 DEF AtEntry
  <2>4. CASE Create \/ Process \/ Settle \/ SettleStep \/ Act \/ ActRefused \/ CallFails
    <3>1. pc' \notin {"login", "cleanup", "kind", "setup"} \/ (pc' = pc /\ at' = at)
      BY <2>4 DEF Create, CreateTest, CreateProduction, Process, Settle, SettleStep, Act,
                  ActRefused, CallFails, Goto, AfterSettle, AfterAct, LayerTrigger, Settles, tenant
    <3>2. QED
      BY <1>2, <3>1 DEF AtEntry
  <2>5. CASE Platform \/ (\E t \in AllTriggers : OtherActs(t)) \/ UNCHANGED vars
    <3>1. at' = at /\ pc' = pc
      BY <2>5 DEF Platform, AutoMove, CheckSkip, Apply, Break, OtherActs, vars, driver, tenant
    <3>2. QED
      BY <1>2, <3>1 DEF AtEntry
  <2>6. QED
    BY <1>2, <2>1, <2>2, <2>3, <2>4, <2>5 DEF Next, Main, MainRuns
<1>3. IInv /\ AtEntry => MainNeverWaits
  <2> SUFFICES ASSUME IInv, AtEntry, pc \notin Ended PROVE MainCanGoOn
    BY DEF MainNeverWaits
  <2>1. /\ pc \in Locations /\ request.mode \in {"test", "production"}
        /\ DOMAIN LayerTrigger = {"act1", "act2", "cancel"}
    BY DEF IInv, TypeOK, Requests, LayerTrigger
  <2>2. QED
    BY <2>1 DEF AtEntry, MainCanGoOn, Locations
<1>4. QED
  BY <1>1, <1>2, <1>3, Invariance, PTL DEF Spec
=============================================================================
