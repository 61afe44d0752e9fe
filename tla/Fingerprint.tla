---------------------------- MODULE Fingerprint ----------------------------
(***************************************************************************)
(* The four fingerprint variants of horizon-workflow-approval-gate-poc     *)
(* (fingerprint.go, idempotency.go): scripts that create workflows with    *)
(* equal and different fingerprints, one after the other and from          *)
(* concurrent goroutines, and cancel what they created.                    *)
(*                                                                         *)
(* The platform is external. Its duplicate check looks at an index that    *)
(* follows the workflows with a delay of its own, and a workflow can be    *)
(* cancelled only once it has entered its first step, also with a delay:   *)
(* with no bound on either delay a creation with a fingerprint in use may  *)
(* be accepted or refused, and so may a cancellation, which is all the     *)
(* scripts can rely on and all the model says. The workflows are           *)
(* production workflows: the platform may give one up, and others may act  *)
(* on it, as in ApprovalGate.                                              *)
(***************************************************************************)
EXTENDS Naturals, SequencesExt

CONSTANTS
  Scripts,         \* the variants to run, a subset of DOMAIN Program
  RaceSlots,       \* the simultaneous creations of case H
  CancelAttempts,  \* how often cancelWhenReady tries (settleAttempts)
  MaxMishaps       \* bound: answers lost after the platform has acted, and
                   \* workflows that somebody else ends, together

ASSUME ScriptsAssumption == Scripts \subseteq {"cases", "race", "idempotency", "types"}
ASSUME CancelAttemptsAssumption == CancelAttempts \in Nat \ {0}
ASSUME MaxMishapsAssumption == MaxMishaps \in Nat

-----------------------------------------------------------------------------
(***************************************************************************)
(* The scripts as data. A slot stands for one creation and the workflow it *)
(* may yield; the slots of one instruction are created by concurrent       *)
(* goroutines. Waits between the instructions are left out: whatever the   *)
(* platform does with a delay may come before or after any of them. So are *)
(* the check-duplicate probes, which change nothing.                       *)
(***************************************************************************)
Create(slots) == [op |-> "create", slots |-> slots]
Cancel(slot) == [op |-> "cancel", slots |-> {slot}]
CancelCreated == [op |-> "cancelCreated", slots |-> {}]
Publish == [op |-> "publish", slots |-> {}]
ReturnUnless(slot) == [op |-> "returnUnless", slots |-> {slot}]

RaceScript == << Create({"R1", "R2"}), Create({"R3", "R4"}), CancelCreated >>

IdempotencyScript ==
  << Create({"I1"}), Create({"I2"}), Create({"I3"}), Create({"I4"}),
     Create({"I5"}), Create({"K1"}), Create({"K2"}), CancelCreated >>

TypesScript == << Create({"T1"}), ReturnUnless("T1"), Create({"T2"}), Cancel("T1") >>

CasesScript ==
  << Create({"B"}), Create({"C"}), Create({"E"}), Create({"F"}),
     Cancel("B"), Cancel("E"), Create({"D"}), Cancel("D"), Create({"G1"}), Publish,
     Create({"G2"}), Cancel("G2"), Cancel("G1"), Create(RaceSlots), CancelCreated >>

\* As if the case script ended without its last loop over what it created.
ProgramNoSweep ==
  [cases |-> Front(CasesScript),
   race |-> RaceScript, idempotency |-> IdempotencyScript, types |-> TypesScript]

\* As if G1 were cancelled before its payload is repeated on the new version.
ProgramEarlyCancel ==
  [cases |-> InsertAt(RemoveAt(CasesScript, 13), 11, Cancel("G1")),
   race |-> RaceScript, idempotency |-> IdempotencyScript, types |-> TypesScript]

\* Two pairs stand for the pairs of a race, two probed creations for those of
\* the probe loop.
Program ==
  [cases |-> CasesScript, race |-> RaceScript,
   idempotency |-> IdempotencyScript, types |-> TypesScript]

NamedSlots ==
  {"B", "C", "D", "E", "F", "G1", "G2", "R1", "R2", "R3", "R4", "I1", "I2", "I3", "I4",
   "I5", "K1", "K2", "T1", "T2"}

ASSUME RaceSlotsAssumption == RaceSlots \cap NamedSlots = {}

Slots == NamedSlots \cup RaceSlots

\* The id of the second creation of the types script is printed and dropped.
Dropped == {"T2"}

\* The payload of F lacks a field of the fingerprint and is always refused.
Incomplete == {"F"}

-----------------------------------------------------------------------------
VARIABLES
  script,    \* the variant of this run (fixed)
  step,      \* the instruction the script is at
  call,      \* call[s]: the creation s, see Calls
  created,   \* the ids that reached the script, in the order it recorded them
  queue,     \* what the current cancel instruction has still to cancel
  tries,     \* failed attempts at the first of queue
  warned,    \* cancellations given up with a warning
  lost,      \* answers lost, by workflow
  life       \* life[s]: the workflow of slot s on the platform

vars == <<script, step, call, created, queue, tries, warned, lost, life>>

\* started: the goroutine or the script is about to send the request.
\* accepted: the platform has created the workflow, the answer is under way.
Calls == {"idle", "started", "accepted", "returned"}
\* ended: by a cancellation of the script.  over: by anybody else.
Lives == {"absent", "open", "ended", "over"}

Init ==
  /\ script \in Scripts
  /\ step = 1
  /\ call = [s \in Slots |-> "idle"]
  /\ created = << >> /\ queue = << >>
  /\ tries = 0 /\ warned = {} /\ lost = {}
  /\ life = [s \in Slots |-> "absent"]

Done == step > Len(Program[script])
Instruction == Program[script][step]
At(op) == ~Done /\ Instruction.op = op

Record(s) == Append(created, s)
Known(s) == s \in ToSet(created)

Mishaps == Cardinality(lost) + Cardinality({s \in Slots : life[s] = "over"})

-----------------------------------------------------------------------------
(***************************************************************************)
(* Creations                                                               *)
(***************************************************************************)

\* The script calls create, or starts a goroutine for each of several calls.
StartCreate ==
  /\ At("create")
  /\ \A s \in Instruction.slots : call[s] = "idle"
  /\ call' = [s \in Slots |-> IF s \in Instruction.slots THEN "started" ELSE call[s]]
  /\ UNCHANGED <<script, step, created, queue, tries, warned, lost, life>>

\* The platform accepts a creation: it has the fields it needs, and the index
\* shows no workflow with its fingerprint, or not yet.
Accept(s) ==
  /\ call[s] = "started" /\ s \notin Incomplete
  /\ call' = [call EXCEPT ![s] = "accepted"]
  /\ life' = [life EXCEPT ![s] = "open"]
  /\ UNCHANGED <<script, step, created, queue, tries, warned, lost>>

\* The platform gives the workflow up, or an approver or the requester ends it in
\* the portal. A cancellation of the script's is refused from then on.
EndsElsewhere(s) ==
  /\ life[s] = "open"
  /\ Mishaps < MaxMishaps
  /\ life' = [life EXCEPT ![s] = "over"]
  /\ UNCHANGED <<script, step, call, created, queue, tries, warned, lost>>

\* An accepted creation returns its id, which the script keeps: in its list,
\* appended under the mutex, or in a variable, unless it is dropped.
CreateReturns(s) ==
  /\ call[s] = "accepted"
  /\ call' = [call EXCEPT ![s] = "returned"]
  /\ created' = IF s \in Dropped THEN created ELSE Record(s)
  /\ UNCHANGED <<script, step, queue, tries, warned, lost, life>>

\* A creation fails: it is refused, or the request or its answer is lost. The
\* error is printed and the script goes on without an id.
CreateFails(s) ==
  /\ \/ call[s] = "started" /\ UNCHANGED lost
     \/ /\ call[s] = "accepted" /\ Mishaps < MaxMishaps
        /\ lost' = lost \cup {s}
  /\ call' = [call EXCEPT ![s] = "returned"]
  /\ UNCHANGED <<script, step, created, queue, tries, warned, life>>

\* The call has returned; of several calls, all have (wg.Wait).
CreateDone ==
  /\ At("create")
  /\ \A s \in Instruction.slots : call[s] = "returned"
  /\ step' = step + 1
  /\ UNCHANGED <<script, call, created, queue, tries, warned, lost, life>>

\* publishNext; when it fails the two instructions for G2 are skipped.
PublishNext ==
  /\ At("publish")
  /\ step' \in {step + 1, step + 3}
  /\ UNCHANGED <<script, call, created, queue, tries, warned, lost, life>>

\* runFingerprintTypes returns when its first creation fails.
ReturnEarly ==
  /\ At("returnUnless")
  /\ step' = IF \A s \in Instruction.slots : Known(s)
             THEN step + 1 ELSE Len(Program[script]) + 1
  /\ UNCHANGED <<script, call, created, queue, tries, warned, lost, life>>

-----------------------------------------------------------------------------
(***************************************************************************)
(* cancelWhenReady                                                         *)
(***************************************************************************)

\* What a cancel instruction works through: an empty id is passed over, and the
\* loop at the end meets workflows that were cancelled before once more.
CancelTargets ==
  IF Instruction.op = "cancelCreated" THEN created
  ELSE IF \E s \in Instruction.slots : Known(s)
    THEN << CHOOSE s \in Instruction.slots : Known(s) >> ELSE << >>

StartCancel ==
  /\ At("cancel") \/ At("cancelCreated")
  /\ queue = << >>
  /\ queue' = CancelTargets
  /\ step' = IF CancelTargets = << >> THEN step + 1 ELSE step
  /\ UNCHANGED <<script, call, created, tries, warned, lost, life>>

\* On to the next workflow of the instruction, or to the next instruction.
CancelNext ==
  /\ tries' = 0
  /\ queue' = Tail(queue)
  /\ step' = IF Tail(queue) = << >> THEN step + 1 ELSE step

Cancellable == queue # << >> /\ life[Head(queue)] = "open"

CancelAccepted ==
  /\ Cancellable
  /\ life' = [life EXCEPT ![Head(queue)] = "ended"]
  /\ CancelNext
  /\ UNCHANGED <<script, call, created, warned, lost>>

\* As if cancelWhenReady tried until it succeeds.
FailedAttemptEndless == tries' = 0 /\ UNCHANGED <<queue, step, warned>>

\* As if the loop made one attempt too many.
FailedAttemptOneMore ==
  IF tries < CancelAttempts
    THEN tries' = tries + 1 /\ UNCHANGED <<queue, step, warned>>
    ELSE warned' = warned \cup {Head(queue)} /\ CancelNext

\* A failed attempt is repeated; after the last one a warning is printed.
FailedAttempt ==
  IF tries + 1 < CancelAttempts
    THEN tries' = tries + 1 /\ UNCHANGED <<queue, step, warned>>
    ELSE warned' = warned \cup {Head(queue)} /\ CancelNext

\* The cancel is refused, the step not having been entered yet or the workflow
\* being over, or the request does not arrive.
CancelFails ==
  /\ queue # << >>
  /\ FailedAttempt
  /\ UNCHANGED <<script, call, created, lost, life>>

\* The cancel is accepted and the answer is lost: it is tried again.
CancelAnswerLost ==
  /\ Cancellable /\ Mishaps < MaxMishaps
  /\ lost' = lost \cup {Head(queue)}
  /\ life' = [life EXCEPT ![Head(queue)] = "ended"]
  /\ FailedAttempt
  /\ UNCHANGED <<script, call, created>>

-----------------------------------------------------------------------------
ScriptStep ==
  \/ StartCreate \/ CreateDone \/ PublishNext \/ ReturnEarly
  \/ \E s \in Slots : CreateReturns(s) \/ CreateFails(s)
  \/ StartCancel \/ CancelAccepted \/ CancelFails \/ CancelAnswerLost

Next == ScriptStep \/ \E s \in Slots : Accept(s) \/ EndsElsewhere(s)

Spec == Init /\ [][Next]_vars

\* The script runs on and its calls return, with an answer or an error.
FairSpec == Spec /\ WF_vars(ScriptStep)

-----------------------------------------------------------------------------
(***************************************************************************)
(* Properties                                                              *)
(***************************************************************************)
TypeOK ==
  /\ script \in Scripts
  /\ step \in 1 .. Len(Program[script]) + 1
  /\ call \in [Slots -> Calls]
  /\ created \in Seq(Slots) /\ IsInjective(created)
  /\ queue \in Seq(Slots)
  /\ tries \in 0 .. CancelAttempts - 1
  /\ warned \subseteq ToSet(created) /\ lost \subseteq Slots
  /\ life \in [Slots -> Lives]

Unreachable == {s \in lost : ~Known(s)}

LeftOpen == {s \in Slots : life[s] = "open"}

\* Every id a script keeps is worked off, from concurrent creations, repeated
\* cancellations and lost answers alike: what is open when a script ends is a
\* workflow whose id never reached the script or was dropped, or one whose
\* cancellation it gave up with a warning.
EveryKeptCancelled == Done => LeftOpen \subseteq Unreachable \cup warned \cup Dropped

\* "The four fingerprint-related variants cancel every workflow they create"
\* (README), lost answers and warnings excepted.
EveryWorkflowCancelled == Done => LeftOpen \subseteq Unreachable \cup warned

\* The cases create in the situation their labels name, as far as it is the
\* script's to bring about: before D the first workflow has been cancelled by it,
\* also when somebody else ended it first, unless it has said otherwise; and
\* while G2 is created it has not cancelled the workflow on the older version,
\* which is then active unless somebody else has ended it.
CasesAsLabelled ==
  /\ call["D"] # "idle" /\ Known("B") => life["B"] = "ended" \/ "B" \in warned
  /\ call["G2"] = "started" /\ Known("G1") => life["G1"] \in {"open", "over"}

\* Every script ends, whatever the platform refuses or delays.
ScriptEnds == <>Done
=============================================================================
