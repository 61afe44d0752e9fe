--------------------------- MODULE FingerprintProofs ---------------------------
(***************************************************************************)
(* The safety of Fingerprint for any number of simultaneous creations, of  *)
(* attempts at a cancellation, and of lost answers.                        *)
(***************************************************************************)
EXTENDS Fingerprint, TLAPS

Steps == {"create", "cancel", "cancelCreated", "publish", "returnUnless"}

\* Instruction i of script p cancels the workflow of s, if the script has its id.
Covers(p, i, s) ==
  /\ i \in 1 .. Len(Program[p])
  /\ \/ Program[p][i].op = "cancelCreated"
     \/ Program[p][i].op = "cancel" /\ s \in Program[p][i].slots

\* Instruction i of script p creates s.
Makes(p, i, s) ==
  /\ i \in 1 .. Len(Program[p])
  /\ Program[p][i].op = "create" /\ s \in Program[p][i].slots

\* What a script has to be for its workflows to be cancelled: what is created and
\* not dropped is cancelled later, a publication that fails skips the cancelling
\* of nothing that was created before, and the early return has nothing to cancel.
\* No workflow is created twice.
GoodScript(p) ==
  LET P == Program[p] IN
  /\ Len(P) \in Nat
  /\ \A i \in 1 .. Len(P) : P[i].op \in Steps /\ P[i].slots \in SUBSET Slots
  /\ \A i \in 1 .. Len(P), s \in Slots \ Dropped :
       Makes(p, i, s) => \E j \in i + 1 .. Len(P) : Covers(p, j, s)
  /\ \A i \in 1 .. Len(P), s \in Slots :
       P[i].op = "cancel" /\ s \in P[i].slots => P[i].slots = {s}
  /\ \A i \in 1 .. Len(P) : P[i].op = "publish" =>
       /\ i + 2 <= Len(P)
       /\ \A k \in 1 .. i, j \in i + 1 .. i + 2, s \in Slots :
            Makes(p, k, s) => ~Covers(p, j, s)
  /\ \A i \in 1 .. Len(P) : P[i].op = "returnUnless" =>
       \A k \in 1 .. i, s \in Slots : Makes(p, k, s) => P[i].slots = {s}
  /\ \A i, j \in 1 .. Len(P), s \in Slots : Makes(p, i, s) /\ Makes(p, j, s) => i = j

\* The positions the labels of the cases rest on.
GoodLabels(p) ==
  \A i \in 1 .. Len(Program[p]) :
    /\ Makes(p, i, "B") => p = "cases" /\ i = 1
    /\ Makes(p, i, "D") => p = "cases" /\ i = 7
    /\ Makes(p, i, "G2") => p = "cases" /\ i = 11
    /\ p = "cases" /\ i = 5 => Program[p][i] = Cancel("B")
    /\ p = "cases" /\ i <= 11 => ~Covers(p, i, "G1")
    /\ p = "cases" /\ Program[p][i].op = "publish" => i > 5
    /\ p = "cases" => Program[p][i].op # "returnUnless"

\* s belongs to a creation the script has come to.
Begun(s) == \E i \in 1 .. step : Makes(script, i, s)

\* The script has still to start cancelling the workflow of s.
Ahead(s) ==
  \E i \in step .. Len(Program[script]) :
    Covers(script, i, s) /\ (i = step => queue = << >>)

\* A creation is under way only at its instruction; the script knows what the
\* platform has accepted, unless an answer was lost or its id dropped.
CreationSound(s) ==
  /\ call[s] # "idle" => Begun(s)
  /\ call[s] \in {"started", "accepted"} => Makes(script, step, s)
  /\ call[s] \in {"idle", "started"} => life[s] = "absent"
  /\ call[s] = "accepted" => life[s] # "absent"
  /\ Known(s) => call[s] = "returned" /\ life[s] # "absent" /\ s \notin Dropped
  /\ call[s] = "returned" /\ life[s] # "absent" => Known(s) \/ s \in lost \cup Dropped
CreationsSound == \A s \in Slots : CreationSound(s)

\* The queue holds what the instruction cancels. What the script knows and has
\* not cancelled is in it, or ahead, or was given up; nothing is cancelled early.
CancellingSound ==
  /\ queue # << >> => At("cancel") \/ At("cancelCreated")
  /\ ToSet(queue) \subseteq ToSet(created)
  /\ queue # << >> /\ At("cancel") => Len(queue) = 1 /\ Head(queue) \in Instruction.slots
  /\ \A s \in Slots : Known(s) /\ life[s] # "ended" =>
       s \in warned \/ s \in ToSet(queue) \/ Ahead(s)
  /\ \A s \in Slots : life[s] = "ended" => \E i \in 1 .. step : Covers(script, i, s)

\* Once case D may be created, the first workflow is over or was given up.
FirstOver ==
  script = "cases" /\ step > 5 /\ Known("B") => life["B"] = "ended" \/ "B" \in warned

IInv == TypeOK /\ CreationsSound /\ CancellingSound /\ FirstOver

-----------------------------------------------------------------------------
\* The case script has its labels right, a publication that fails included.
LEMMA CasesGood == GoodScript("cases") /\ GoodLabels("cases")
<1>1. Program["cases"] = CasesScript
  BY DEF Program
<1>2. Len(CasesScript) = 15 /\ 1 .. 15 = {1,2,3,4,5,6,7,8,9,10,11,12,13,14,15}
  BY DEF CasesScript
<1>3. /\ CasesScript[1] = Create({"B"}) /\ CasesScript[2] = Create({"C"})
      /\ CasesScript[3] = Create({"E"}) /\ CasesScript[4] = Create({"F"})
      /\ CasesScript[5] = Cancel("B") /\ CasesScript[6] = Cancel("E")
      /\ CasesScript[7] = Create({"D"}) /\ CasesScript[8] = Cancel("D")
      /\ CasesScript[9] = Create({"G1"}) /\ CasesScript[10] = Publish
      /\ CasesScript[11] = Create({"G2"}) /\ CasesScript[12] = Cancel("G2")
      /\ CasesScript[13] = Cancel("G1") /\ CasesScript[14] = Create(RaceSlots)
      /\ CasesScript[15] = CancelCreated
  BY DEF CasesScript
<1>4. \A i \in 1 .. 15 : CasesScript[i].op \in Steps /\ CasesScript[i].slots \in SUBSET Slots
  BY <1>2, <1>3 DEF Create, Cancel, CancelCreated, Publish, Steps, Slots, NamedSlots
<1>5. \A i \in 1 .. 15, s \in Slots : Makes("cases", i, s) =>
        \/ (i = 1 /\ s = "B") \/ (i = 2 /\ s = "C") \/ (i = 3 /\ s = "E") \/ (i = 4 /\ s = "F")
        \/ (i = 7 /\ s = "D") \/ (i = 9 /\ s = "G1") \/ (i = 11 /\ s = "G2")
        \/ (i = 14 /\ s \in RaceSlots)
  <2>1. \A i \in {5, 6, 8, 10, 12, 13, 15} : CasesScript[i].op # "create"
    BY <1>3 DEF Cancel, CancelCreated, Publish
  <2>2. /\ CasesScript[1].slots = {"B"} /\ CasesScript[2].slots = {"C"}
        /\ CasesScript[3].slots = {"E"} /\ CasesScript[4].slots = {"F"}
        /\ CasesScript[7].slots = {"D"} /\ CasesScript[9].slots = {"G1"}
        /\ CasesScript[11].slots = {"G2"} /\ CasesScript[14].slots = RaceSlots
    BY <1>3 DEF Create
  <2> SUFFICES ASSUME NEW i \in 1 .. 15, NEW s \in Slots, Makes("cases", i, s)
               PROVE  \/ (i = 1 /\ s = "B") \/ (i = 2 /\ s = "C") \/ (i = 3 /\ s = "E")
                      \/ (i = 4 /\ s = "F") \/ (i = 7 /\ s = "D") \/ (i = 9 /\ s = "G1")
                      \/ (i = 11 /\ s = "G2") \/ (i = 14 /\ s \in RaceSlots)
    OBVIOUS
  <2>3. CasesScript[i].op = "create" /\ s \in CasesScript[i].slots
    BY <1>1 DEF Makes
  <2>4. i \in {1, 2, 3, 4, 7, 9, 11, 14}
    BY <1>2, <2>1, <2>3
  <2>5. QED
    BY <2>2, <2>3, <2>4
<1>6. \A i \in 1 .. 15, s \in Slots : Covers("cases", i, s) =>
        \/ (i = 5 /\ s = "B") \/ (i = 6 /\ s = "E") \/ (i = 8 /\ s = "D") \/ (i = 12 /\ s = "G2")
        \/ (i = 13 /\ s = "G1") \/ i = 15
  <2>1. \A i \in {1, 2, 3, 4, 7, 9, 10, 11, 14} :
          CasesScript[i].op # "cancel" /\ CasesScript[i].op # "cancelCreated"
    BY <1>3 DEF Create, Publish
  <2>2. \A i \in {5, 6, 8, 12, 13} : CasesScript[i].op = "cancel"
    BY <1>3 DEF Cancel
  <2>3. /\ CasesScript[5].slots = {"B"} /\ CasesScript[6].slots = {"E"}
        /\ CasesScript[8].slots = {"D"} /\ CasesScript[12].slots = {"G2"}
        /\ CasesScript[13].slots = {"G1"}
    BY <1>3 DEF Cancel
  <2> SUFFICES ASSUME NEW i \in 1 .. 15, NEW s \in Slots, Covers("cases", i, s), i # 15
               PROVE  \/ (i = 5 /\ s = "B") \/ (i = 6 /\ s = "E") \/ (i = 8 /\ s = "D")
                      \/ (i = 12 /\ s = "G2") \/ (i = 13 /\ s = "G1")
    OBVIOUS
  <2>4. \/ CasesScript[i].op = "cancelCreated"
        \/ CasesScript[i].op = "cancel" /\ s \in CasesScript[i].slots
    BY <1>1 DEF Covers
  <2>5. i \in {5, 6, 8, 12, 13}
    BY <1>2, <2>1, <2>4
  <2>6. s \in CasesScript[i].slots
    BY <2>2, <2>4, <2>5
  <2>7. QED
    BY <2>3, <2>5, <2>6
<1>7. \A s \in Slots : Covers("cases", 15, s)
  BY <1>1, <1>2, <1>3 DEF Covers, CancelCreated
<1>8. \A i \in 1 .. 15 : CasesScript[i].op # "returnUnless"
                         /\ (CasesScript[i].op = "publish" => i = 10)
  BY <1>2, <1>3 DEF Create, Cancel, CancelCreated, Publish
<1>9. RaceSlots \cap NamedSlots = {}
  BY RaceSlotsAssumption DEF RaceSlotsAssumption
<1>10. GoodScript("cases")
  <2>1. \A i \in 1 .. 15, s \in Slots \ Dropped :
          Makes("cases", i, s) => \E j \in i + 1 .. 15 : Covers("cases", j, s)
    BY <1>5, <1>7
  <2>2. \A k \in 1 .. 10, j \in 11 .. 12, s \in Slots :
            Makes("cases", k, s) => ~Covers("cases", j, s)
    <3> SUFFICES ASSUME NEW k \in 1 .. 10, NEW j \in 11 .. 12, NEW s \in Slots,
                        Makes("cases", k, s), Covers("cases", j, s)
                 PROVE  FALSE
      OBVIOUS
    <3>1. s = "G2"
      BY <1>6
    <3>2. QED
      BY <1>5, <3>1
  <2>3. \A i \in 1 .. 15, s \in Slots :
          CasesScript[i].op = "cancel" /\ s \in CasesScript[i].slots => CasesScript[i].slots = {s}
    <3>1. \A i \in {1, 2, 3, 4, 7, 9, 10, 11, 14, 15} : CasesScript[i].op # "cancel"
      BY <1>3 DEF Create, Publish, CancelCreated
    <3>2. /\ CasesScript[5].slots = {"B"} /\ CasesScript[6].slots = {"E"}
          /\ CasesScript[8].slots = {"D"} /\ CasesScript[12].slots = {"G2"}
          /\ CasesScript[13].slots = {"G1"}
      BY <1>3 DEF Cancel
    <3>3. QED
      BY <1>2, <3>1, <3>2
  <2>4. \A i, j \in 1 .. 15, s \in Slots :
          Makes("cases", i, s) /\ Makes("cases", j, s) => i = j
    <3>1. {"B", "C", "D", "E", "F", "G1", "G2"} \cap RaceSlots = {}
      BY <1>9 DEF NamedSlots
    <3>2. QED
      BY <1>5, <3>1
  <2>5. QED
    BY <1>1, <1>2, <1>4, <1>8, <2>1, <2>2, <2>3, <2>4 DEF GoodScript
<1>11. GoodLabels("cases")
  <2>1. {"B", "D", "G1", "G2"} \subseteq NamedSlots
    BY DEF NamedSlots
  <2>2. {"B", "D", "G1", "G2"} \subseteq Slots /\ {"B", "D", "G1", "G2"} \cap RaceSlots = {}
    BY <2>1, <1>9 DEF Slots
  <2>3. QED
    BY <1>1, <1>2, <1>3, <1>5, <1>6, <1>8, <2>2 DEF GoodLabels
<1>12. QED
  BY <1>10, <1>11

\* The race script cancels everything in the end.
LEMMA RaceGood == GoodScript("race") /\ GoodLabels("race")
<1>1. Program["race"] = RaceScript /\ Len(RaceScript) = 3 /\ 1 .. 3 = {1, 2, 3}
  BY DEF Program, RaceScript
<1>2. /\ RaceScript[1] = Create({"R1", "R2"}) /\ RaceScript[2] = Create({"R3", "R4"})
      /\ RaceScript[3] = CancelCreated
  BY DEF RaceScript
<1>3. /\ RaceScript[1].op = "create" /\ RaceScript[1].slots = {"R1", "R2"}
      /\ RaceScript[2].op = "create" /\ RaceScript[2].slots = {"R3", "R4"}
      /\ RaceScript[3].op = "cancelCreated" /\ RaceScript[3].slots = {}
  BY <1>2 DEF Create, CancelCreated
<1>4. {"R1", "R2", "R3", "R4"} \subseteq Slots
  BY DEF Slots, NamedSlots
<1>5. \A s \in Slots : Covers("race", 3, s)
  BY <1>1, <1>3 DEF Covers
<1>6. \A i \in 1 .. 3, s \in Slots : Makes("race", i, s) =>
        i \in {1, 2} /\ s \in {"R1", "R2", "R3", "R4"}
  BY <1>1, <1>3 DEF Makes
<1>7. GoodScript("race")
  <2>1. \A i, j \in 1 .. 3, s \in Slots :
          Makes("race", i, s) /\ Makes("race", j, s) => i = j
    BY <1>1, <1>3, <1>6 DEF Makes
  <2>2. QED
    BY <1>1, <1>3, <1>4, <1>5, <1>6, <2>1 DEF GoodScript, Steps
<1>8. GoodLabels("race")
  BY <1>1, <1>3, <1>4, <1>6 DEF GoodLabels, Makes
<1>9. QED
  BY <1>7, <1>8

\* The types script cancels the one workflow whose id it keeps.
LEMMA TypesGood == GoodScript("types") /\ GoodLabels("types")
<1>1. Program["types"] = TypesScript /\ Len(TypesScript) = 4 /\ 1 .. 4 = {1, 2, 3, 4}
  BY DEF Program, TypesScript
<1>2. /\ TypesScript[1] = Create({"T1"}) /\ TypesScript[2] = ReturnUnless("T1")
      /\ TypesScript[3] = Create({"T2"}) /\ TypesScript[4] = Cancel("T1")
  BY DEF TypesScript
<1>3. /\ TypesScript[1].op = "create" /\ TypesScript[1].slots = {"T1"}
      /\ TypesScript[2].op = "returnUnless" /\ TypesScript[2].slots = {"T1"}
      /\ TypesScript[3].op = "create" /\ TypesScript[3].slots = {"T2"}
      /\ TypesScript[4].op = "cancel" /\ TypesScript[4].slots = {"T1"}
  BY <1>2 DEF Create, Cancel, ReturnUnless
<1>4. {"T1", "T2"} \subseteq Slots
  BY DEF Slots, NamedSlots
<1>5. Covers("types", 4, "T1")
  BY <1>1, <1>3 DEF Covers
<1>6. \A i \in 1 .. 4, s \in Slots : Makes("types", i, s) =>
        (i = 1 /\ s = "T1") \/ (i = 3 /\ s = "T2")
  <2> SUFFICES ASSUME NEW i \in 1 .. 4, NEW s \in Slots, Makes("types", i, s)
               PROVE  (i = 1 /\ s = "T1") \/ (i = 3 /\ s = "T2")
    OBVIOUS
  <2>1. TypesScript[i].op = "create" /\ s \in TypesScript[i].slots
    BY <1>1 DEF Makes
  <2>2. i \in {1, 3}
    BY <1>1, <1>3, <2>1
  <2>3. QED
    BY <1>3, <2>1, <2>2
<1>7. GoodScript("types")
  <2>1. \A i \in 1 .. 4, s \in Slots \ Dropped :
          Makes("types", i, s) => \E j \in i + 1 .. 4 : Covers("types", j, s)
    BY <1>5, <1>6 DEF Dropped
  <2>2. \A i \in 1 .. 4 : TypesScript[i].op # "publish"
    BY <1>1, <1>3
  <2>3. \A i \in 1 .. 4 : TypesScript[i].op = "returnUnless" => i = 2
    BY <1>1, <1>3
  <2>4. \A i \in 1 .. 4 : TypesScript[i].op \in Steps /\ TypesScript[i].slots \in SUBSET Slots
    BY <1>1, <1>3, <1>4 DEF Steps
  <2>5. \A i, j \in 1 .. 4, s \in Slots :
          Makes("types", i, s) /\ Makes("types", j, s) => i = j
    BY <1>6
  <2>6. QED
    BY <1>1, <1>3, <1>6, <2>1, <2>2, <2>3, <2>4, <2>5 DEF GoodScript
<1>8. GoodLabels("types")
  BY <1>1, <1>3, <1>4, <1>6 DEF GoodLabels, Makes
<1>9. QED
  BY <1>7, <1>8

\* The idempotency script cancels everything in the end.
LEMMA IdempotencyGood == GoodScript("idempotency") /\ GoodLabels("idempotency")
<1> DEFINE P == IdempotencyScript
           Made == {"I1", "I2", "I3", "I4", "I5", "K1", "K2"}
<1>1. Program["idempotency"] = P /\ Len(P) = 8 /\ 1 .. 8 = {1, 2, 3, 4, 5, 6, 7, 8}
  BY DEF Program, IdempotencyScript
<1>2. /\ P[1] = Create({"I1"}) /\ P[2] = Create({"I2"}) /\ P[3] = Create({"I3"})
      /\ P[4] = Create({"I4"}) /\ P[5] = Create({"I5"}) /\ P[6] = Create({"K1"})
      /\ P[7] = Create({"K2"}) /\ P[8] = CancelCreated
  BY DEF IdempotencyScript
<1>3. \A i \in 1 .. 7 : P[i].op = "create" /\ P[i].slots \in SUBSET Made
  BY <1>1, <1>2 DEF Create
<1>3a. \A i, j \in 1 .. 7, s \in Made : s \in P[i].slots /\ s \in P[j].slots => i = j
  <2>1. /\ P[1].slots = {"I1"} /\ P[2].slots = {"I2"} /\ P[3].slots = {"I3"}
        /\ P[4].slots = {"I4"} /\ P[5].slots = {"I5"} /\ P[6].slots = {"K1"}
        /\ P[7].slots = {"K2"}
    BY <1>2 DEF Create
  <2>2. 1 .. 7 = {1, 2, 3, 4, 5, 6, 7}
    OBVIOUS
  <2> HIDE DEF P
  <2>3. QED
    BY <2>1, <2>2
<1>4. P[8].op = "cancelCreated" /\ P[8].slots = {}
  BY <1>2 DEF CancelCreated
<1>5. Made \subseteq Slots /\ {"B", "D", "G2"} \cap Made = {}
  BY DEF Slots, NamedSlots
<1> HIDE DEF P, Made
<1>6. \A s \in Slots : Covers("idempotency", 8, s)
  BY <1>1, <1>4 DEF Covers
<1>7. \A i \in 1 .. 8, s \in Slots : Makes("idempotency", i, s) => i \in 1 .. 7 /\ s \in Made
  BY <1>1, <1>3, <1>4 DEF Makes
<1>8. \A i \in 1 .. 8 : P[i].op \in {"create", "cancelCreated"} /\ P[i].slots \in SUBSET Slots
  BY <1>1, <1>3, <1>4, <1>5
<1>9. GoodScript("idempotency")
  <2>1. \A i \in 1 .. 8, s \in Slots \ Dropped :
          Makes("idempotency", i, s) => \E j \in i + 1 .. 8 : Covers("idempotency", j, s)
    BY <1>6, <1>7
  <2>2. \A i, j \in 1 .. 8, s \in Slots :
          Makes("idempotency", i, s) /\ Makes("idempotency", j, s) => i = j
    BY <1>1, <1>7, <1>3a DEF Makes
  <2>3. QED
    BY <1>1, <1>8, <2>1, <2>2 DEF GoodScript, Steps
<1>10. GoodLabels("idempotency")
  BY <1>1, <1>3, <1>4, <1>5 DEF GoodLabels, Makes
<1>11. QED
  BY <1>9, <1>10

\* Every script that is run is a good one.
LEMMA ScriptsGood == \A p \in Scripts : GoodScript(p) /\ GoodLabels(p)
BY CasesGood, RaceGood, TypesGood, IdempotencyGood, ScriptsAssumption DEF ScriptsAssumption

-----------------------------------------------------------------------------
\* What a sequence holds when something is appended,
LEMMA ToSetAppend ==
  ASSUME NEW S, NEW q \in Seq(S), NEW x \in S
  PROVE  ToSet(Append(q, x)) = ToSet(q) \cup {x}
<1>1. /\ Append(q, x) \in Seq(S) /\ Len(Append(q, x)) = Len(q) + 1 /\ Len(q) \in Nat
      /\ \A i \in 1 .. Len(q) : Append(q, x)[i] = q[i]
      /\ Append(q, x)[Len(q) + 1] = x
  OBVIOUS
<1>2. DOMAIN q = 1 .. Len(q) /\ DOMAIN Append(q, x) = 1 .. Len(q) + 1
  BY <1>1
<1>3. QED
  BY <1>1, <1>2 DEF ToSet

\* and when the first is taken off.
LEMMA ToSetTail ==
  ASSUME NEW S, NEW q \in Seq(S), q # << >>
  PROVE  /\ Head(q) \in S /\ Tail(q) \in Seq(S)
         /\ ToSet(q) = {Head(q)} \cup ToSet(Tail(q))
<1>1. /\ Len(q) \in Nat /\ Len(q) > 0 /\ Head(q) = q[1] /\ Head(q) \in S
      /\ Tail(q) \in Seq(S) /\ Len(Tail(q)) = Len(q) - 1
      /\ \A i \in 1 .. Len(q) - 1 : Tail(q)[i] = q[i + 1]
  OBVIOUS
<1>2. DOMAIN q = 1 .. Len(q) /\ DOMAIN Tail(q) = 1 .. Len(q) - 1
  BY <1>1
<1>3. \A i \in 1 .. Len(q) : i = 1 \/ (i - 1 \in 1 .. Len(q) - 1 /\ q[i] = Tail(q)[i - 1])
  BY <1>1
<1>4. ToSet(q) \subseteq {Head(q)} \cup ToSet(Tail(q))
  <2>1. ASSUME NEW i \in 1 .. Len(q)
        PROVE  q[i] \in {Head(q)} \cup ToSet(Tail(q))
    <3>1. CASE i = 1
      BY <1>1, <3>1
    <3>2. CASE i # 1
      BY <1>2, <1>3, <3>2 DEF ToSet
    <3>3. QED
      BY <3>1, <3>2
  <2>2. QED
    BY <1>2, <2>1 DEF ToSet
<1>5. \A i \in 1 .. Len(q) - 1 : i + 1 \in 1 .. Len(q)
  BY <1>1
<1>6. ToSet(Tail(q)) \subseteq ToSet(q)
  BY <1>1, <1>2, <1>5 DEF ToSet
<1>7. Head(q) \in ToSet(q)
  BY <1>1, <1>2 DEF ToSet
<1>8. QED
  BY <1>1, <1>4, <1>6, <1>7

\* The shortest sequences.
LEMMA ToSetSmall ==
  /\ ToSet(<< >>) = {}
  /\ \A x : ToSet(<< x >>) = {x}
BY DEF ToSet

\* A new id makes no repetition.
LEMMA NewIdDistinct ==
  ASSUME NEW S, NEW q \in Seq(S), NEW x \in S
  PROVE  IsInjective(q) /\ x \notin ToSet(q) => IsInjective(Append(q, x))
<1> SUFFICES ASSUME IsInjective(q), x \notin ToSet(q) PROVE IsInjective(Append(q, x))
  OBVIOUS
<1>1. /\ Len(Append(q, x)) = Len(q) + 1 /\ Len(q) \in Nat
      /\ \A i \in 1 .. Len(q) : Append(q, x)[i] = q[i]
      /\ Append(q, x)[Len(q) + 1] = x
      /\ DOMAIN q = 1 .. Len(q) /\ DOMAIN Append(q, x) = 1 .. Len(q) + 1
  OBVIOUS
<1>2. \A i \in 1 .. Len(q) : q[i] # x
  BY <1>1 DEF ToSet
<1>3. \A i, j \in 1 .. Len(q) : q[i] = q[j] => i = j
  BY <1>1 DEF IsInjective
<1>4. \A i, j \in 1 .. Len(q) + 1 : Append(q, x)[i] = Append(q, x)[j] => i = j
  BY <1>1, <1>2, <1>3
<1>5. QED
  BY <1>1, <1>4 DEF IsInjective

-----------------------------------------------------------------------------
\* Where a script is.
LEMMA Place ==
  ASSUME IInv
  PROVE  /\ script \in Scripts /\ GoodScript(script) /\ GoodLabels(script)
         /\ step \in Nat /\ step >= 1 /\ Len(Program[script]) \in Nat
         /\ \A op : At(op) => /\ step \in 1 .. Len(Program[script])
                              /\ Program[script][step].op = op
                              /\ Instruction = Program[script][step]
                              /\ Instruction.slots \in SUBSET Slots
                              /\ ~Done
<1>1. script \in Scripts
  BY DEF IInv, TypeOK
<1>2. GoodScript(script) /\ GoodLabels(script)
  BY <1>1, ScriptsGood
<1>3. Len(Program[script]) \in Nat
  BY <1>2 DEF GoodScript
<1>4. step \in Nat /\ step >= 1 /\ step <= Len(Program[script]) + 1
  BY <1>3 DEF IInv, TypeOK
<1>5. ASSUME NEW op, At(op)
      PROVE  /\ step \in 1 .. Len(Program[script]) /\ Program[script][step].op = op
             /\ Instruction = Program[script][step] /\ ~Done
  BY <1>3, <1>4, <1>5 DEF At, Done, Instruction
<1>6. ASSUME NEW op, At(op)
      PROVE  Instruction.slots \in SUBSET Slots
  BY <1>2, <1>5, <1>6 DEF GoodScript
<1>7. QED
  BY <1>1, <1>2, <1>3, <1>4, <1>5, <1>6

\* A script that has started nothing has nothing to cancel.
LEMMA InitIInv == Init => IInv
<1> SUFFICES ASSUME Init PROVE IInv
  OBVIOUS
<1>1. script \in Scripts /\ GoodScript(script)
  BY ScriptsGood DEF Init
<1>2. created = << >> /\ queue = << >> /\ ToSet(created) = {} /\ step = 1
      /\ call = [s \in Slots |-> "idle"] /\ life = [s \in Slots |-> "absent"]
  BY ToSetSmall DEF Init
<1>3. TypeOK
  <2>1. step \in 1 .. Len(Program[script]) + 1
    BY <1>1, <1>2 DEF GoodScript
  <2>2. << >> \in Seq(Slots) /\ IsInjective(<< >>)
    BY DEF IsInjective
  <2>3. 0 \in 0 .. CancelAttempts - 1
    BY CancelAttemptsAssumption DEF CancelAttemptsAssumption
  <2>4. QED
    BY <1>1, <1>2, <2>1, <2>2, <2>3 DEF Init, TypeOK, Calls, Lives
<1>4. CreationsSound
  BY <1>2 DEF CreationsSound, CreationSound, Known
<1>5. CancellingSound
  BY <1>2 DEF CancellingSound, Known
<1>6. FirstOver
  BY <1>2 DEF FirstOver
<1>7. QED
  BY <1>3, <1>4, <1>5, <1>6 DEF IInv

\* The creations of an instruction are started.
LEMMA StartCreateIInv == ASSUME IInv, StartCreate PROVE IInv'
<1> DEFINE P == Program[script]
<1>1. /\ step \in 1 .. Len(P) /\ P[step].op = "create" /\ Instruction = P[step]
      /\ Instruction.slots \in SUBSET Slots
  BY Place DEF StartCreate
<1>2. /\ \A s \in Slots : call'[s] = IF s \in P[step].slots THEN "started" ELSE call[s]
      /\ \A s \in P[step].slots : call[s] = "idle"
      /\ UNCHANGED <<script, step, created, queue, tries, warned, lost, life>>
  BY <1>1 DEF StartCreate
<1>3. TypeOK'
  <2>1. call' \in [Slots -> Calls]
    BY <1>1 DEF StartCreate, IInv, TypeOK, Calls
  <2>2. QED
    BY <1>2, <2>1 DEF IInv, TypeOK
<1>4. \A s \in Slots : s \in P[step].slots => Makes(script, step, s)
  BY <1>1 DEF Makes
<1>5. CreationsSound'
  <2> SUFFICES ASSUME NEW s \in Slots
               PROVE  CreationSound(s)'
    BY DEF CreationsSound
  <2>1. CreationSound(s)
    BY DEF IInv, CreationsSound
  <2>2. Begun(s)' <=> Begun(s)
    BY <1>2 DEF Begun
  <2>3. Known(s)' <=> Known(s)
    BY <1>2 DEF Known
  <2>4. CASE s \in P[step].slots
    <3>1. Begun(s)
      BY <1>1, <1>4, <2>4 DEF Begun
    <3>2. QED
      BY <1>2, <1>4, <2>1, <2>2, <2>3, <2>4, <3>1 DEF CreationSound
  <2>5. CASE s \notin P[step].slots
    BY <1>2, <2>1, <2>2, <2>3, <2>5 DEF CreationSound
  <2>6. QED
    BY <2>4, <2>5
<1>6. CancellingSound' /\ FirstOver'
  BY <1>2 DEF IInv, CancellingSound, FirstOver, At, Done, Instruction, Known, Ahead
<1>7. QED
  BY <1>3, <1>5, <1>6 DEF IInv

\* The platform accepts a creation.
LEMMA AcceptIInv == ASSUME IInv, NEW c \in Slots, Accept(c) PROVE IInv'
<1>1. /\ call[c] = "started" /\ call' = [call EXCEPT ![c] = "accepted"]
      /\ life' = [life EXCEPT ![c] = "open"]
      /\ UNCHANGED <<script, step, created, queue, tries, warned, lost>>
  BY DEF Accept
<1>2. call \in [Slots -> Calls] /\ life \in [Slots -> Lives]
  BY DEF IInv, TypeOK
<1>3. ~Known(c)
  BY <1>1 DEF IInv, CreationsSound, CreationSound
<1>4. TypeOK'
  BY <1>1, <1>2 DEF IInv, TypeOK, Calls, Lives
<1>5. CreationsSound'
  <2> SUFFICES ASSUME NEW s \in Slots
               PROVE  CreationSound(s)'
    BY DEF CreationsSound
  <2>1. CreationSound(s)
    BY DEF IInv, CreationsSound
  <2>2. (Begun(s)' <=> Begun(s)) /\ (Known(s)' <=> Known(s))
    BY <1>1 DEF Begun, Known
  <2>3. CASE s = c
    BY <1>1, <1>2, <1>3, <2>1, <2>2, <2>3 DEF CreationSound
  <2>4. CASE s # c
    BY <1>1, <1>2, <2>1, <2>2, <2>4 DEF CreationSound
  <2>5. QED
    BY <2>3, <2>4
<1>6. CancellingSound'
  <2>1. \A s \in Slots : Known(s)' /\ life'[s] # "ended" => Known(s) /\ life[s] # "ended"
    BY <1>1, <1>2, <1>3 DEF Known
  <2>2. \A s \in Slots : life'[s] = "ended" => life[s] = "ended"
    BY <1>1, <1>2
  <2>3. \A s \in Slots : Ahead(s)' <=> Ahead(s)
    BY <1>1 DEF Ahead
  <2>4. QED
    BY <1>1, <2>1, <2>2, <2>3 DEF IInv, CancellingSound, At, Done, Instruction
<1>7. FirstOver'
  <2>1. "B" \in Slots
    BY DEF Slots, NamedSlots
  <2>2. Known("B")' => Known("B") /\ life'["B"] = life["B"]
    BY <1>1, <1>2, <1>3, <2>1 DEF Known
  <2>3. QED
    BY <1>1, <2>2 DEF IInv, FirstOver
<1>8. QED
  BY <1>4, <1>5, <1>6, <1>7 DEF IInv

\* A workflow ended by somebody else is still one the script has to cancel, or to
\* warn of.
LEMMA EndsElsewhereIInv == ASSUME IInv, NEW c \in Slots, EndsElsewhere(c) PROVE IInv'
<1>1. /\ life[c] = "open" /\ life' = [life EXCEPT ![c] = "over"]
      /\ UNCHANGED <<script, step, call, created, queue, tries, warned, lost>>
  BY DEF EndsElsewhere
<1>2. life \in [Slots -> Lives]
  BY DEF IInv, TypeOK
<1>3. \A s \in Slots :
        /\ life'[s] = "ended" <=> life[s] = "ended"
        /\ life'[s] = "absent" <=> life[s] = "absent"
  BY <1>1, <1>2
<1>4. TypeOK'
  BY <1>1, <1>2 DEF IInv, TypeOK, Lives
<1>5. CreationsSound'
  BY <1>1, <1>3 DEF IInv, CreationsSound, CreationSound, Begun, Known
<1>6. CancellingSound'
  BY <1>1, <1>3 DEF IInv, CancellingSound, At, Done, Instruction, Known, Ahead
<1>7. FirstOver'
  <2>1. "B" \in Slots
    BY DEF Slots, NamedSlots
  <2>2. QED
    BY <1>1, <1>3, <2>1 DEF IInv, FirstOver, Known
<1>8. QED
  BY <1>4, <1>5, <1>6, <1>7 DEF IInv

\* Its answer reaches the script, which keeps the id: there is a later
\* instruction to cancel it.
LEMMA CreateReturnsIInv == ASSUME IInv, NEW c \in Slots, CreateReturns(c) PROVE IInv'
<1>1. /\ call[c] = "accepted" /\ call' = [call EXCEPT ![c] = "returned"]
      /\ created' = IF c \in Dropped THEN created ELSE Append(created, c)
      /\ UNCHANGED <<script, step, queue, tries, warned, lost, life>>
  BY DEF CreateReturns, Record
<1>2. /\ call \in [Slots -> Calls] /\ created \in Seq(Slots) /\ IsInjective(created)
      /\ warned \in SUBSET ToSet(created)
  BY DEF IInv, TypeOK
<1>3. ~Known(c) /\ life[c] # "absent" /\ Makes(script, step, c) /\ Begun(c)
  BY <1>1 DEF IInv, CreationsSound, CreationSound
<1>4. /\ created' \in Seq(Slots) /\ IsInjective(created')
      /\ ToSet(created') = IF c \in Dropped THEN ToSet(created) ELSE ToSet(created) \cup {c}
  <2>1. c \notin ToSet(created)
    BY <1>3 DEF Known
  <2>2. /\ Append(created, c) \in Seq(Slots) /\ IsInjective(Append(created, c))
        /\ ToSet(Append(created, c)) = ToSet(created) \cup {c}
    BY <1>2, <2>1, ToSetAppend, NewIdDistinct
  <2>3. QED
    BY <1>1, <1>2, <2>2
<1>5. \A s \in Slots : Known(s)' <=> Known(s) \/ (s = c /\ c \notin Dropped)
  BY <1>4 DEF Known
<1>6. TypeOK'
  BY <1>1, <1>2, <1>4 DEF IInv, TypeOK, Calls
<1>7. CreationsSound'
  <2> SUFFICES ASSUME NEW s \in Slots
               PROVE  CreationSound(s)'
    BY DEF CreationsSound
  <2>1. CreationSound(s)
    BY DEF IInv, CreationsSound
  <2>2. Begun(s)' <=> Begun(s)
    BY <1>1 DEF Begun
  <2>3. CASE s = c
    BY <1>1, <1>2, <1>3, <1>5, <2>1, <2>2, <2>3 DEF CreationSound
  <2>4. CASE s # c
    BY <1>1, <1>2, <1>5, <2>1, <2>2, <2>4 DEF CreationSound
  <2>5. QED
    BY <2>3, <2>4
<1>8. CancellingSound'
  <2>1. c \notin Dropped => Ahead(c)
    <3> SUFFICES ASSUME c \notin Dropped PROVE Ahead(c)
      OBVIOUS
    <3>1. step \in 1 .. Len(Program[script])
      BY <1>3 DEF Makes
    <3>2. PICK j \in step + 1 .. Len(Program[script]) : Covers(script, j, c)
      BY <1>3, <3>1, Place DEF GoodScript
    <3>3. QED
      BY <3>1, <3>2 DEF Ahead
  <2>2. \A s \in Slots : Ahead(s)' <=> Ahead(s)
    BY <1>1 DEF Ahead
  <2>3. ToSet(created) \subseteq ToSet(created')
    BY <1>4
  <2>4. \A s \in Slots : Known(s)' /\ life'[s] # "ended" =>
          s \in warned' \/ s \in ToSet(queue') \/ Ahead(s)'
    BY <1>1, <1>5, <2>1, <2>2 DEF IInv, CancellingSound
  <2>5. QED
    BY <1>1, <2>3, <2>4 DEF IInv, CancellingSound, At, Done, Instruction
<1>9. FirstOver'
  <2>1. c = "B" => step = 1
    BY <1>3, Place DEF GoodLabels, Makes
  <2>2. "B" \in Slots
    BY DEF Slots, NamedSlots
  <2>3. QED
    BY <1>1, <1>5, <2>1, <2>2 DEF IInv, FirstOver
<1>10. QED
  BY <1>6, <1>7, <1>8, <1>9 DEF IInv

\* A creation fails, before or after the platform accepted it.
LEMMA CreateFailsIInv == ASSUME IInv, NEW c \in Slots, CreateFails(c) PROVE IInv'
<1>1. /\ call[c] \in {"started", "accepted"} /\ call' = [call EXCEPT ![c] = "returned"]
      /\ lost' \in {lost, lost \cup {c}}
      /\ call[c] = "accepted" => c \in lost'
      /\ UNCHANGED <<script, step, created, queue, tries, warned, life>>
  BY DEF CreateFails
<1>2. call \in [Slots -> Calls]
  BY DEF IInv, TypeOK
<1>3. TypeOK'
  BY <1>1, <1>2 DEF IInv, TypeOK, Calls
<1>4. CreationsSound'
  <2> SUFFICES ASSUME NEW s \in Slots
               PROVE  CreationSound(s)'
    BY DEF CreationsSound
  <2>1. CreationSound(s)
    BY DEF IInv, CreationsSound
  <2>2. (Begun(s)' <=> Begun(s)) /\ (Known(s)' <=> Known(s))
    BY <1>1 DEF Begun, Known
  <2>3. CASE s = c
    BY <1>1, <1>2, <2>1, <2>2, <2>3 DEF CreationSound
  <2>4. CASE s # c
    BY <1>1, <1>2, <2>1, <2>2, <2>4 DEF CreationSound
  <2>5. QED
    BY <2>3, <2>4
<1>5. CancellingSound' /\ FirstOver'
  BY <1>1 DEF IInv, CancellingSound, FirstOver, At, Done, Instruction, Known, Ahead
<1>6. QED
  BY <1>3, <1>4, <1>5 DEF IInv

\* The script goes on to a later instruction, with nothing under way.
LEMMA MoveOn ==
  ASSUME IInv, NEW k \in Nat, k > step, k <= Len(Program[script]) + 1,
         step' = k, queue = << >>,
         UNCHANGED <<script, call, created, queue, tries, warned, lost, life>>,
         \A s \in Slots : call[s] \notin {"started", "accepted"},
         \A s \in Slots : Known(s) /\ life[s] # "ended" =>
           s \in warned \/ \E i \in k .. Len(Program[script]) : Covers(script, i, s),
         script = "cases" /\ step <= 5 /\ k > 5 /\ Known("B") =>
           life["B"] = "ended" \/ "B" \in warned
  PROVE  IInv'
<1>1. step \in Nat /\ step >= 1
  BY Place
<1>2. TypeOK'
  BY <1>1, Place DEF IInv, TypeOK
<1>3. CreationsSound'
  <2> SUFFICES ASSUME NEW s \in Slots
               PROVE  CreationSound(s)'
    BY DEF CreationsSound
  <2>1. CreationSound(s)
    BY DEF IInv, CreationsSound
  <2>2. Begun(s) => Begun(s)'
    BY <1>1 DEF Begun
  <2>3. Known(s)' <=> Known(s)
    BY DEF Known
  <2>4. QED
    BY <2>1, <2>2, <2>3 DEF CreationSound
<1>4. CancellingSound'
  <2>1. \A s \in Slots : Known(s)' <=> Known(s)
    BY DEF Known
  <2>2. \A s \in Slots :
          (\E i \in k .. Len(Program[script]) : Covers(script, i, s)) => Ahead(s)'
    BY DEF Ahead
  <2>3. \A s \in Slots : life[s] = "ended" => \E i \in 1 .. k : Covers(script, i, s)
    BY <1>1 DEF IInv, CancellingSound
  <2>4. QED
    BY <2>1, <2>2, <2>3 DEF IInv, CancellingSound
<1>5. FirstOver'
  <2>1. Known("B")' <=> Known("B")
    BY DEF Known
  <2>2. QED
    BY <1>1, <2>1 DEF IInv, FirstOver
<1>6. QED
  BY <1>2, <1>3, <1>4, <1>5 DEF IInv

\* When the instruction is not to cancel, the queue is empty; when it is not to
\* create, no creation is under way; and what is ahead is at a later instruction.
LEMMA Quiet ==
  ASSUME IInv
  PROVE  /\ ~At("cancel") /\ ~At("cancelCreated") => queue = << >>
         /\ ~At("create") => \A s \in Slots : call[s] \notin {"started", "accepted"}
         /\ \A s \in Slots : ~Covers(script, step, s) /\ Ahead(s) =>
              \E i \in step + 1 .. Len(Program[script]) : Covers(script, i, s)
<1>1. ~At("cancel") /\ ~At("cancelCreated") => queue = << >>
  BY DEF IInv, CancellingSound
<1>2. ASSUME NEW s \in Slots, call[s] \in {"started", "accepted"} PROVE At("create")
  BY <1>2, Place DEF IInv, CreationsSound, CreationSound, Makes, At, Done, Instruction
<1>3. ASSUME NEW s \in Slots, ~Covers(script, step, s), Ahead(s)
      PROVE  \E i \in step + 1 .. Len(Program[script]) : Covers(script, i, s)
  BY <1>3, Place DEF Ahead
<1>4. QED
  BY <1>1, <1>2, <1>3

\* All creations of the instruction have returned.
LEMMA CreateDoneIInv == ASSUME IInv, CreateDone PROVE IInv'
<1>1. /\ At("create") /\ step' = step + 1
      /\ \A s \in Instruction.slots : call[s] = "returned"
      /\ UNCHANGED <<script, call, created, queue, tries, warned, lost, life>>
  BY DEF CreateDone
<1>2. /\ step \in 1 .. Len(Program[script]) /\ Instruction = Program[script][step]
      /\ Program[script][step].op = "create" /\ Len(Program[script]) \in Nat
  BY <1>1, Place
<1>3. queue = << >>
  BY <1>1, <1>2, Quiet DEF At
<1>4. \A s \in Slots : call[s] \notin {"started", "accepted"}
  BY <1>1, <1>2 DEF IInv, CreationsSound, CreationSound, Makes
<1>5. \A s \in Slots : ~Covers(script, step, s)
  BY <1>2 DEF Covers
<1>6. \A s \in Slots : Known(s) /\ life[s] # "ended" =>
        s \in warned \/ \E i \in step + 1 .. Len(Program[script]) : Covers(script, i, s)
  BY <1>3, <1>5, Quiet, ToSetSmall DEF IInv, CancellingSound
<1>7. script = "cases" => step # 5
  BY <1>2, Place DEF GoodLabels, Cancel
<1>8. QED
  BY <1>1, <1>2, <1>3, <1>4, <1>6, <1>7, MoveOn

\* The definition is published, or the cases that need it are skipped.
LEMMA PublishIInv == ASSUME IInv, PublishNext PROVE IInv'
<1>1. /\ At("publish") /\ step' \in {step + 1, step + 3}
      /\ UNCHANGED <<script, call, created, queue, tries, warned, lost, life>>
  BY DEF PublishNext
<1>2. /\ step \in 1 .. Len(Program[script]) /\ step + 2 <= Len(Program[script])
      /\ Program[script][step].op = "publish" /\ Len(Program[script]) \in Nat
  BY <1>1, Place DEF GoodScript
<1>3. queue = << >> /\ \A s \in Slots : call[s] \notin {"started", "accepted"}
  BY <1>1, Quiet DEF At
<1>4. ASSUME NEW s \in Slots, Known(s), life[s] # "ended", s \notin warned
      PROVE  \E i \in step + 3 .. Len(Program[script]) : Covers(script, i, s)
  <2>1. ~Covers(script, step, s)
    BY <1>2 DEF Covers
  <2>2. PICK i \in step + 1 .. Len(Program[script]) : Covers(script, i, s)
    BY <1>3, <1>4, <2>1, Quiet, ToSetSmall DEF IInv, CancellingSound
  <2>3. PICK k \in 1 .. step : Makes(script, k, s)
    BY <1>4 DEF IInv, CreationsSound, CreationSound, Begun
  <2>4. i \notin step + 1 .. step + 2
    BY <1>2, <2>2, <2>3, Place DEF GoodScript
  <2>5. QED
    BY <1>2, <2>2, <2>4
<1>5. script = "cases" => step > 5
  BY <1>2, Place DEF GoodLabels
<1>6. \A s \in Slots : Known(s) /\ life[s] # "ended" =>
        s \in warned \/ \E i \in step' .. Len(Program[script]) : Covers(script, i, s)
  BY <1>1, <1>2, <1>4
<1>7. QED
  BY <1>1, <1>2, <1>3, <1>5, <1>6, MoveOn

\* The types script goes on, or returns because it has nothing to cancel.
LEMMA ReturnEarlyIInv == ASSUME IInv, ReturnEarly PROVE IInv'
<1>1. /\ At("returnUnless")
      /\ step' = IF \A s \in Instruction.slots : Known(s)
                 THEN step + 1 ELSE Len(Program[script]) + 1
      /\ UNCHANGED <<script, call, created, queue, tries, warned, lost, life>>
  BY DEF ReturnEarly
<1>2. /\ step \in 1 .. Len(Program[script]) /\ Instruction = Program[script][step]
      /\ Program[script][step].op = "returnUnless" /\ Len(Program[script]) \in Nat
  BY <1>1, Place
<1>3. queue = << >> /\ \A s \in Slots : call[s] \notin {"started", "accepted"}
  BY <1>1, Quiet DEF At
<1>4. \A s \in Slots : Known(s) /\ life[s] # "ended" =>
        s \in warned \/ \E i \in step + 1 .. Len(Program[script]) : Covers(script, i, s)
  <2>1. \A s \in Slots : ~Covers(script, step, s)
    BY <1>2 DEF Covers
  <2>2. QED
    BY <1>3, <2>1, Quiet, ToSetSmall DEF IInv, CancellingSound
<1>5. (\E s \in Instruction.slots : ~Known(s)) => \A s \in Slots : ~Known(s)
  <2> SUFFICES ASSUME NEW r \in Instruction.slots, ~Known(r), NEW s \in Slots, Known(s)
               PROVE  FALSE
    OBVIOUS
  <2>1. PICK k \in 1 .. step : Makes(script, k, s)
    BY DEF IInv, CreationsSound, CreationSound, Begun
  <2>2. Instruction.slots = {s}
    BY <1>2, <2>1, Place DEF GoodScript
  <2>3. QED
    BY <2>2
<1>6. script # "cases"
  BY <1>2, Place DEF GoodLabels
<1>7. CASE \A s \in Instruction.slots : Known(s)
  <2>1. step' = step + 1
    BY <1>1, <1>7
  <2>2. step + 1 \in Nat /\ step + 1 > step /\ step + 1 <= Len(Program[script]) + 1
    BY <1>2
  <2>3. UNCHANGED <<script, call, created, queue, tries, warned, lost, life>>
    BY <1>1
  <2>4. QED
    BY <1>3, <1>4, <1>6, <2>1, <2>2, <2>3, MoveOn
<1>8. CASE \E s \in Instruction.slots : ~Known(s)
  <2> DEFINE end == Len(Program[script]) + 1
  <2>1. step' = end
    BY <1>1, <1>8
  <2>2. end \in Nat /\ end > step /\ end <= Len(Program[script]) + 1
    BY <1>2
  <2>3. UNCHANGED <<script, call, created, queue, tries, warned, lost, life>>
    BY <1>1
  <2>4. \A s \in Slots : ~Known(s)
    BY <1>5, <1>8
  <2>5. "B" \in Slots
    BY DEF Slots, NamedSlots
  <2> HIDE DEF end
  <2>6. QED
    BY <1>3, <1>6, <2>1, <2>2, <2>3, <2>4, <2>5, MoveOn
<1>9. QED
  BY <1>7, <1>8

\* What a cancel instruction is to cancel.
LEMMA Targets ==
  ASSUME IInv, At("cancel") \/ At("cancelCreated")
  PROVE  /\ CancelTargets \in Seq(Slots) /\ ToSet(CancelTargets) \subseteq ToSet(created)
         /\ \A s \in Slots : Known(s) /\ Covers(script, step, s) /\ At("cancelCreated") =>
              s \in ToSet(CancelTargets)
         /\ At("cancel") /\ CancelTargets # << >> =>
              Len(CancelTargets) = 1 /\ Head(CancelTargets) \in Instruction.slots
         /\ At("cancel") => \A s \in Slots : Known(s) /\ Instruction.slots = {s} =>
              CancelTargets = << s >>
<1>1. created \in Seq(Slots)
  BY DEF IInv, TypeOK
<1>2. CASE At("cancelCreated")
  <2>1. CancelTargets = created /\ ~At("cancel")
    BY <1>2 DEF CancelTargets, At
  <2>2. QED
    BY <1>1, <1>2, <2>1 DEF Known
<1>3. CASE At("cancel") /\ \E s \in Instruction.slots : Known(s)
  <2> DEFINE c == CHOOSE s \in Instruction.slots : Known(s)
  <2>1. CancelTargets = << c >> /\ ~At("cancelCreated")
    BY <1>3 DEF CancelTargets, At
  <2>2. c \in Instruction.slots /\ Known(c) /\ c \in Slots
    BY <1>3, Place
  <2> HIDE DEF c
  <2>3. << c >> \in Seq(Slots) /\ Len(<< c >>) = 1 /\ Head(<< c >>) = c
    BY <2>2
  <2>4. QED
    BY <2>1, <2>2, <2>3, ToSetSmall DEF Known
<1>4. CASE At("cancel") /\ ~\E s \in Instruction.slots : Known(s)
  <2>1. CancelTargets = << >> /\ ~At("cancelCreated")
    BY <1>4 DEF CancelTargets, At
  <2>2. << >> \in Seq(Slots)
    OBVIOUS
  <2>3. QED
    BY <1>4, <2>1, <2>2, ToSetSmall
<1>5. QED
  BY <1>2, <1>3, <1>4

\* A cancel instruction takes up its work, or has none.
LEMMA StartCancelIInv == ASSUME IInv, StartCancel PROVE IInv'
<1>1. /\ At("cancel") \/ At("cancelCreated")
      /\ queue = << >> /\ queue' = CancelTargets
      /\ step' = IF CancelTargets = << >> THEN step + 1 ELSE step
      /\ UNCHANGED <<script, call, created, tries, warned, lost, life>>
  BY DEF StartCancel
<1>2. /\ step \in 1 .. Len(Program[script]) /\ Instruction = Program[script][step]
      /\ Program[script][step].op \in {"cancel", "cancelCreated"}
      /\ Len(Program[script]) \in Nat
  BY <1>1, Place
<1>3. \A s \in Slots : Known(s) /\ Covers(script, step, s) => s \in ToSet(CancelTargets)
  <2> SUFFICES ASSUME NEW s \in Slots, Known(s), Covers(script, step, s), At("cancel")
               PROVE  s \in ToSet(CancelTargets)
    BY <1>1, Targets
  <2>1. s \in Instruction.slots
    BY <1>2 DEF Covers, At
  <2>2. Instruction.slots = {s}
    BY <1>2, <2>1, Place DEF GoodScript, At
  <2>3. CancelTargets = << s >>
    BY <2>2, Targets
  <2>4. QED
    BY <2>3, ToSetSmall
<1>4. CASE CancelTargets # << >>
  <2>1. UNCHANGED <<script, step, call, created, tries, warned, lost, life>>
    BY <1>1, <1>4
  <2>2. TypeOK'
    BY <1>1, <2>1, Targets DEF IInv, TypeOK
  <2>3. CreationsSound' /\ FirstOver'
    BY <2>1 DEF IInv, CreationsSound, CreationSound, FirstOver, Begun, Known
  <2>4. \A s \in Slots : Known(s)' /\ life'[s] # "ended" =>
          s \in warned' \/ s \in ToSet(queue') \/ Ahead(s)'
    <3> SUFFICES ASSUME NEW s \in Slots, Known(s), life[s] # "ended",
                        s \notin warned, s \notin ToSet(CancelTargets)
                 PROVE  Ahead(s)'
      BY <1>1, <2>1 DEF Known
    <3>1. Ahead(s)
      BY <1>1, ToSetSmall DEF IInv, CancellingSound
    <3>2. ~Covers(script, step, s)
      BY <1>3
    <3>3. PICK i \in step + 1 .. Len(Program[script]) : Covers(script, i, s)
      BY <3>1, <3>2, Quiet
    <3>4. QED
      BY <1>2, <2>1, <3>3 DEF Ahead
  <2>5. CancellingSound'
    <3>1. (At("cancel")' <=> At("cancel")) /\ (At("cancelCreated")' <=> At("cancelCreated"))
          /\ Instruction' = Instruction
      BY <2>1 DEF At, Done, Instruction
    <3>2. QED
      BY <1>1, <2>1, <2>4, <3>1, Targets DEF IInv, CancellingSound
  <2>6. QED
    BY <2>2, <2>3, <2>5 DEF IInv
<1>5. CASE CancelTargets = << >>
  <2>1. step' = step + 1
        /\ UNCHANGED <<script, call, created, queue, tries, warned, lost, life>>
    BY <1>1, <1>5
  <2>2. \A s \in Slots : call[s] \notin {"started", "accepted"}
    BY <1>1, Quiet DEF At
  <2>3. \A s \in Slots : Known(s) => ~Covers(script, step, s)
    BY <1>3, <1>5, ToSetSmall
  <2>4. \A s \in Slots : Known(s) /\ life[s] # "ended" =>
          s \in warned \/ \E i \in step + 1 .. Len(Program[script]) : Covers(script, i, s)
    BY <1>1, <2>3, Quiet, ToSetSmall DEF IInv, CancellingSound
  <2>5. script = "cases" /\ step = 5 => ~Known("B")
    <3> SUFFICES ASSUME script = "cases", step = 5 PROVE ~Known("B")
      OBVIOUS
    <3>1. Program[script][step] = Cancel("B") /\ "B" \in Slots
      BY <1>2, Place DEF GoodLabels, Slots, NamedSlots
    <3>2. Covers(script, step, "B")
      BY <1>2, <3>1 DEF Covers, Cancel
    <3>3. QED
      BY <2>3, <3>1, <3>2
  <2>6. QED
    BY <1>1, <1>2, <2>1, <2>2, <2>4, <2>5, MoveOn
<1>6. QED
  BY <1>4, <1>5

-----------------------------------------------------------------------------
\* One attempt at the first workflow of the queue: it is cancelled, or stays; and
\* the attempt was the last one, or is repeated.
Attempt ==
  /\ queue # << >>
  /\ life' \in {life, [life EXCEPT ![Head(queue)] = "ended"]}
  /\ warned' \in {warned, warned \cup {Head(queue)}}
  /\ lost' \in {lost, lost \cup {Head(queue)}}
  /\ UNCHANGED <<script, call, created>>
  /\ \/ /\ tries' \in 0 .. CancelAttempts - 1
        /\ UNCHANGED <<queue, step>>
     \/ /\ CancelNext
        /\ life'[Head(queue)] = "ended" \/ Head(queue) \in warned'

\* Every step of cancelWhenReady is one.
LEMMA EveryAttempt ==
  ASSUME IInv, CancelAccepted \/ CancelFails \/ CancelAnswerLost
  PROVE  Attempt
<1>1. /\ CancelAttempts \in Nat \ {0} /\ tries \in 0 .. CancelAttempts - 1
      /\ life \in [Slots -> Lives] /\ queue \in Seq(Slots)
  BY CancelAttemptsAssumption DEF CancelAttemptsAssumption, IInv, TypeOK
<1>2. queue # << >> /\ Head(queue) \in Slots
  BY <1>1, ToSetTail DEF CancelAccepted, CancelFails, CancelAnswerLost, Cancellable
<1>3. CASE CancelAccepted
  <2>1. life'[Head(queue)] = "ended"
    BY <1>1, <1>2, <1>3 DEF CancelAccepted
  <2>2. QED
    BY <1>2, <1>3, <2>1 DEF CancelAccepted, Attempt
<1>4. FailedAttempt =>
        \/ tries' \in 0 .. CancelAttempts - 1 /\ UNCHANGED <<queue, step, warned>>
        \/ warned' = warned \cup {Head(queue)} /\ CancelNext
  BY <1>1 DEF FailedAttempt
<1>5. CASE CancelFails
  BY <1>2, <1>4, <1>5 DEF CancelFails, Attempt
<1>6. CASE CancelAnswerLost
  BY <1>2, <1>4, <1>6 DEF CancelAnswerLost, Attempt
<1>7. QED
  BY <1>3, <1>5, <1>6

\* An attempt changes the first of the queue at most, and takes it off only when
\* it is over or was warned of.
LEMMA AttemptIInv == ASSUME IInv, Attempt PROVE IInv'
<1> DEFINE h == Head(queue)
<1>1. /\ queue \in Seq(Slots) /\ queue # << >> /\ life \in [Slots -> Lives]
      /\ warned \subseteq ToSet(created) /\ lost \subseteq Slots
      /\ ToSet(queue) \subseteq ToSet(created)
  BY DEF IInv, TypeOK, CancellingSound, Attempt
<1>2. /\ h \in Slots /\ Tail(queue) \in Seq(Slots)
      /\ ToSet(queue) = {h} \cup ToSet(Tail(queue))
  BY <1>1, ToSetTail
<1>3. Known(h) /\ call[h] = "returned" /\ life[h] # "absent" /\ h \notin Dropped
  BY <1>1, <1>2 DEF IInv, CreationsSound, CreationSound, Known
<1>4. /\ At("cancel") \/ At("cancelCreated")
      /\ At("cancel") => Len(queue) = 1 /\ h \in Instruction.slots
      /\ step \in 1 .. Len(Program[script]) /\ Instruction = Program[script][step]
      /\ Len(Program[script]) \in Nat
  BY <1>1, Place DEF IInv, CancellingSound
<1>5. Covers(script, step, h)
  BY <1>4 DEF Covers, At
<1> HIDE DEF h
<1>6. /\ life' \in {life, [life EXCEPT ![h] = "ended"]} /\ life' \in [Slots -> Lives]
      /\ warned' \in {warned, warned \cup {h}} /\ lost' \in {lost, lost \cup {h}}
      /\ UNCHANGED <<script, call, created>>
      /\ \A s \in Slots : s # h => life'[s] = life[s]
      /\ life'[h] \in {life[h], "ended"}
  BY <1>1, <1>2 DEF Attempt, h, Lives
<1>7. \/ tries' \in 0 .. CancelAttempts - 1 /\ UNCHANGED <<queue, step>>
      \/ /\ tries' = 0 /\ queue' = Tail(queue)
         /\ step' = IF Tail(queue) = << >> THEN step + 1 ELSE step
         /\ life'[h] = "ended" \/ h \in warned'
  BY DEF Attempt, CancelNext, h
<1>8. step' \in {step, step + 1} /\ (step' = step + 1 => queue' = << >>)
  <2>1. step \in Nat /\ step # step + 1
    BY <1>4
  <2>2. CASE Tail(queue) = << >>
    BY <1>7, <2>1, <2>2
  <2>3. CASE Tail(queue) # << >>
    BY <1>7, <2>1, <2>3
  <2>4. QED
    BY <2>2, <2>3
<1>9. \A s \in Slots : Known(s)' <=> Known(s)
  BY <1>6 DEF Known
<1>10. TypeOK'
  <2>1. tries' \in 0 .. CancelAttempts - 1
    BY <1>7, CancelAttemptsAssumption DEF CancelAttemptsAssumption
  <2>2. queue' \in Seq(Slots) /\ step' \in 1 .. Len(Program[script]) + 1
    <3>1. queue' \in Seq(Slots)
      BY <1>1, <1>2, <1>7
    <3>2. QED
      BY <1>4, <1>8, <3>1
  <2>3. warned' \subseteq ToSet(created)
    BY <1>1, <1>3, <1>6 DEF Known
  <2>4. QED
    BY <1>1, <1>2, <1>6, <2>1, <2>2, <2>3 DEF IInv, TypeOK
<1>11. \A s \in Slots : call[s] \notin {"started", "accepted"}
  BY <1>4, Quiet DEF At
<1>12. CreationsSound'
  <2> SUFFICES ASSUME NEW s \in Slots
               PROVE  CreationSound(s)'
    BY DEF CreationsSound
  <2>1. CreationSound(s)
    BY DEF IInv, CreationsSound
  <2>2. Begun(s) => Begun(s)'
    BY <1>4, <1>6, <1>8 DEF Begun
  <2>3. life'[s] # "absent" <=> life[s] # "absent"
    BY <1>3, <1>6
  <2>4. lost \subseteq lost'
    BY <1>6
  <2>5. QED
    BY <1>6, <1>9, <1>11, <2>1, <2>2, <2>3, <2>4 DEF CreationSound
<1>13. CancellingSound'
  <2>1. queue' # << >> => UNCHANGED step
    BY <1>7, <1>8
  <2>2. ToSet(queue') \subseteq ToSet(queue)
    BY <1>2, <1>7
  <2>3. ASSUME queue' # << >>
        PROVE  /\ At("cancel") \/ At("cancelCreated")
               /\ At("cancel") => UNCHANGED queue
               /\ At("cancel")' <=> At("cancel")
               /\ At("cancelCreated")' <=> At("cancelCreated")
               /\ Instruction' = Instruction
    <3>1. At("cancel") => Tail(queue) = << >>
      <4>1. Len(queue) = 1 => Len(Tail(queue)) = 0
        BY <1>1
      <4>2. \A q \in Seq(Slots) : Len(q) = 0 => q = << >>
        OBVIOUS
      <4>3. QED
        BY <1>2, <1>4, <4>1, <4>2
    <3>2. QED
      BY <1>4, <1>6, <1>7, <2>1, <2>3, <3>1 DEF At, Done, Instruction
  <2>4. ASSUME NEW s \in Slots, Known(s), life'[s] # "ended", s \notin warned'
        PROVE  s \in ToSet(queue') \/ Ahead(s)'
    <3>1. life[s] # "ended" /\ s \notin warned
      BY <1>3, <1>6, <2>4
    <3>2. s \in ToSet(queue) \/ Ahead(s)
      BY <2>4, <3>1 DEF IInv, CancellingSound
    <3>3. CASE s \in ToSet(queue)
      BY <1>2, <1>6, <1>7, <2>4, <3>3
    <3>4. CASE Ahead(s)
      <4>1. PICK i \in step + 1 .. Len(Program[script]) : Covers(script, i, s)
        BY <1>1, <1>4, <3>4 DEF Ahead
      <4>2. QED
        BY <1>4, <1>6, <1>8, <4>1 DEF Ahead
    <3>5. QED
      BY <3>2, <3>3, <3>4
  <2>5. ASSUME NEW s \in Slots, life'[s] = "ended"
        PROVE  \E i \in 1 .. step' : Covers(script, i, s)
    <3>1. \E i \in 1 .. step : Covers(script, i, s)
      BY <1>4, <1>5, <1>6, <2>5 DEF IInv, CancellingSound
    <3>2. QED
      BY <1>4, <1>8, <3>1
  <2>6. (queue # << >> => At("cancel") \/ At("cancelCreated"))'
    BY <2>3
  <2>7. (queue # << >> /\ At("cancel") =>
           Len(queue) = 1 /\ Head(queue) \in Instruction.slots)'
    BY <1>4, <2>3 DEF h
  <2>8. (\A s \in Slots : Known(s) /\ life[s] # "ended" =>
           s \in warned \/ s \in ToSet(queue) \/ Ahead(s))'
    BY <1>9, <2>4
  <2>9. (ToSet(queue) \subseteq ToSet(created))'
    BY <1>1, <1>6, <2>2
  <2>10. (\A s \in Slots : life[s] = "ended" => \E i \in 1 .. step : Covers(script, i, s))'
    BY <1>6, <2>5
  <2>11. QED
    BY <2>6, <2>7, <2>8, <2>9, <2>10 DEF CancellingSound
<1>14. FirstOver'
  <2> SUFFICES ASSUME script = "cases", step' > 5, Known("B")
               PROVE  life'["B"] = "ended" \/ "B" \in warned'
    BY <1>6, <1>9 DEF FirstOver, Slots, NamedSlots
  <2>0. "B" \in Slots
    BY DEF Slots, NamedSlots
  <2>1. CASE step > 5
    BY <1>6, <2>0, <2>1 DEF IInv, FirstOver
  <2>2. CASE step = 5
    <3>1. Program[script][step] = Cancel("B")
      BY <1>4, <2>2, Place DEF GoodLabels
    <3>2. At("cancel") /\ Instruction.slots = {"B"}
      BY <1>4, <3>1 DEF Cancel, At
    <3>3. h = "B"
      BY <1>4, <3>2
    <3>4. QED
      BY <1>7, <2>2, <3>3
  <2>3. QED
    BY <1>4, <1>8, <2>1, <2>2
<1>15. QED
  BY <1>10, <1>12, <1>13, <1>14 DEF IInv

-----------------------------------------------------------------------------
\* Every step of a script and of the platform keeps the invariant.
LEMMA NextIInv == IInv /\ [Next]_vars => IInv'
<1> SUFFICES ASSUME IInv, [Next]_vars PROVE IInv'
  OBVIOUS
<1>1. CASE StartCreate
  BY <1>1, StartCreateIInv
<1>2. CASE CreateDone
  BY <1>2, CreateDoneIInv
<1>3. CASE PublishNext
  BY <1>3, PublishIInv
<1>4. CASE ReturnEarly
  BY <1>4, ReturnEarlyIInv
<1>5. ASSUME NEW s \in Slots, CreateReturns(s) \/ CreateFails(s) \/ Accept(s) \/ EndsElsewhere(s)
      PROVE  IInv'
  BY <1>5, CreateReturnsIInv, CreateFailsIInv, AcceptIInv, EndsElsewhereIInv
<1>6. CASE StartCancel
  BY <1>6, StartCancelIInv
<1>7. CASE CancelAccepted \/ CancelFails \/ CancelAnswerLost
  BY <1>7, EveryAttempt, AttemptIInv
<1>8. CASE UNCHANGED vars
  <2>1. UNCHANGED <<script, step, call, created, queue, tries, warned, lost, life>>
    BY <1>8 DEF vars
  <2>2. TypeOK' /\ FirstOver'
    BY <2>1 DEF IInv, TypeOK, FirstOver, Known
  <2>3. CreationsSound'
    BY <2>1 DEF IInv, CreationsSound, CreationSound, Begun, Known
  <2>4. CancellingSound'
    BY <2>1 DEF IInv, CancellingSound, At, Done, Instruction, Known, Ahead
  <2>5. QED
    BY <2>2, <2>3, <2>4 DEF IInv
<1>9. QED
  BY <1>1, <1>2, <1>3, <1>4, <1>5, <1>6, <1>7, <1>8 DEF Next, ScriptStep

\* The invariant holds at all times.
LEMMA Invariance == Spec => []IInv
<1>1. QED
  BY InitIInv, NextIInv, PTL DEF Spec

\* Every variable of Fingerprint keeps its type; no id is recorded twice.
THEOREM TypeCorrect == Spec => []TypeOK
<1>1. IInv => TypeOK
  BY DEF IInv
<1>2. QED
  BY <1>1, Invariance, PTL

\* cancelWhenReady and the loops that call it leave nothing open that a script
\* knows of, whatever number of simultaneous creations, attempts and lost answers.
THEOREM KeptCancelled == Spec => []EveryKeptCancelled
<1>1. IInv => EveryKeptCancelled
  <2> SUFFICES ASSUME IInv, Done, NEW s \in Slots, life[s] = "open"
               PROVE  s \in Unreachable \cup warned \cup Dropped
    BY DEF EveryKeptCancelled, LeftOpen
  <2>1. queue = << >> /\ call[s] \notin {"started", "accepted"}
    BY Quiet DEF At
  <2>2. ~Ahead(s)
    BY Place DEF Ahead, Done
  <2>3. Known(s) => s \in warned
    BY <2>1, <2>2, ToSetSmall DEF IInv, CancellingSound
  <2>4. call[s] = "returned"
    BY <2>1 DEF IInv, TypeOK, Calls, CreationsSound, CreationSound
  <2>5. QED
    BY <2>3, <2>4 DEF IInv, CreationsSound, CreationSound, Unreachable
<1>2. QED
  BY <1>1, Invariance, PTL

\* Cases D and G2 are created in the situation their labels name, as far as the
\* script brings it about, whatever else ends its workflows.
THEOREM LabelsTrue == Spec => []CasesAsLabelled
<1>1. IInv => CasesAsLabelled
  <2> SUFFICES ASSUME IInv PROVE CasesAsLabelled
    OBVIOUS
  <2>1. {"B", "D", "G1", "G2"} \subseteq Slots
    BY DEF Slots, NamedSlots
  <2>2. ASSUME call["D"] # "idle", Known("B")
        PROVE  life["B"] = "ended" \/ "B" \in warned
    <3>1. PICK i \in 1 .. step : Makes(script, i, "D")
      BY <2>1, <2>2 DEF IInv, CreationsSound, CreationSound, Begun
    <3>2. script = "cases" /\ i = 7
      BY <3>1, Place DEF GoodLabels, Makes
    <3>3. QED
      BY <2>2, <3>2, Place DEF IInv, FirstOver
  <2>3. ASSUME call["G2"] = "started", Known("G1")
        PROVE  life["G1"] \in {"open", "over"}
    <3>1. Makes(script, step, "G2")
      BY <2>1, <2>3 DEF IInv, CreationsSound, CreationSound
    <3>2. script = "cases" /\ step = 11
      BY <3>1, Place DEF GoodLabels, Makes
    <3>3. life["G1"] # "ended"
      BY <2>1, <3>2, Place DEF IInv, CancellingSound, GoodLabels, Covers
    <3>4. life["G1"] # "absent" /\ life["G1"] \in Lives
      BY <2>1, <2>3 DEF IInv, TypeOK, CreationsSound, CreationSound
    <3>5. QED
      BY <3>3, <3>4 DEF Lives
  <2>4. QED
    BY <2>2, <2>3 DEF CasesAsLabelled
<1>2. QED
  BY <1>1, Invariance, PTL

-----------------------------------------------------------------------------
\* Only the types script creates the workflow whose id is dropped.
LEMMA DroppedInTypes ==
  ASSUME NEW p \in Scripts, NEW i, Makes(p, i, "T2")
  PROVE  p = "types"
<1>1. /\ i \in 1 .. Len(Program[p]) /\ Program[p][i].op = "create"
      /\ "T2" \in Program[p][i].slots
  BY DEF Makes
<1>2. CASE p = "cases"
  <2>1. Program[p] = CasesScript /\ Len(CasesScript) = 15
    BY <1>2 DEF Program, CasesScript
  <2>2. /\ CasesScript[1] = Create({"B"}) /\ CasesScript[2] = Create({"C"})
        /\ CasesScript[3] = Create({"E"}) /\ CasesScript[4] = Create({"F"})
        /\ CasesScript[5] = Cancel("B") /\ CasesScript[6] = Cancel("E")
        /\ CasesScript[7] = Create({"D"}) /\ CasesScript[8] = Cancel("D")
        /\ CasesScript[9] = Create({"G1"}) /\ CasesScript[10] = Publish
        /\ CasesScript[11] = Create({"G2"}) /\ CasesScript[12] = Cancel("G2")
        /\ CasesScript[13] = Cancel("G1") /\ CasesScript[14] = Create(RaceSlots)
        /\ CasesScript[15] = CancelCreated
    BY DEF CasesScript
  <2>3. "T2" \notin RaceSlots
    BY RaceSlotsAssumption DEF RaceSlotsAssumption, NamedSlots
  <2>4. \A j \in {1, 2, 3, 4, 5, 6, 7, 8, 9, 10, 11, 12, 13, 14, 15} :
          "T2" \notin CasesScript[j].slots
    BY <2>2, <2>3 DEF Create, Cancel, CancelCreated, Publish
  <2>5. 1 .. 15 = {1, 2, 3, 4, 5, 6, 7, 8, 9, 10, 11, 12, 13, 14, 15}
    OBVIOUS
  <2>6. QED
    BY <1>1, <2>1, <2>4, <2>5
<1>3. CASE p = "race"
  <2>1. Program[p] = RaceScript /\ Len(RaceScript) = 3 /\ 1 .. 3 = {1, 2, 3}
    BY <1>3 DEF Program, RaceScript
  <2>2. \A j \in {1, 2, 3} : "T2" \notin RaceScript[j].slots
    BY DEF RaceScript, Create, CancelCreated
  <2>3. QED
    BY <1>1, <2>1, <2>2
<1>4. CASE p = "idempotency"
  <2>1. Program[p] = IdempotencyScript /\ Len(IdempotencyScript) = 8
        /\ 1 .. 8 = {1, 2, 3, 4, 5, 6, 7, 8}
    BY <1>4 DEF Program, IdempotencyScript
  <2>2. \A j \in {1, 2, 3, 4, 5, 6, 7, 8} : "T2" \notin IdempotencyScript[j].slots
    BY DEF IdempotencyScript, Create, CancelCreated
  <2>3. QED
    BY <1>1, <2>1, <2>2
<1>5. QED
  BY <1>2, <1>3, <1>4, ScriptsAssumption DEF ScriptsAssumption

\* The README's sentence holds of every variant but one: the cases, the race and
\* the idempotency script leave nothing open but what an answer was lost for or a
\* warning was printed of. Only the types script, which drops an id, does not.
THEOREM OthersCancelAll == Spec => [](script # "types" => EveryWorkflowCancelled)
<1>1. IInv /\ EveryKeptCancelled => (script # "types" => EveryWorkflowCancelled)
  <2> SUFFICES ASSUME IInv, EveryKeptCancelled, script # "types", Done,
                      NEW s \in LeftOpen
               PROVE  s \in Unreachable \cup warned
    BY DEF EveryWorkflowCancelled
  <2>1. s \in Slots /\ life[s] = "open"
    BY DEF LeftOpen
  <2>2. s \in Unreachable \cup warned \cup Dropped
    BY DEF EveryKeptCancelled
  <2>3. s # "T2"
    <3> SUFFICES ASSUME s = "T2" PROVE FALSE
      OBVIOUS
    <3>1. call["T2"] # "idle"
      BY <2>1 DEF IInv, CreationsSound, CreationSound
    <3>2. PICK i \in 1 .. step : Makes(script, i, "T2")
      BY <2>1, <3>1 DEF IInv, CreationsSound, CreationSound, Begun
    <3>3. QED
      BY <3>2, DroppedInTypes DEF IInv, TypeOK
  <2>4. QED
    BY <2>2, <2>3 DEF Dropped
<1>2. QED
  BY <1>1, Invariance, KeptCancelled, PTL

-----------------------------------------------------------------------------
\* The goroutines of one instruction start together.
Together ==
  At("create") => \A s, t \in Instruction.slots : call[s] = "idle" <=> call[t] = "idle"

\* What is created later has not been started.
LEMMA LaterIdle ==
  ASSUME IInv, NEW i \in Nat, i > step, NEW s \in Slots, Makes(script, i, s)
  PROVE  call[s] = "idle"
<1> SUFFICES ASSUME call[s] # "idle" PROVE FALSE
  OBVIOUS
<1>1. PICK j \in 1 .. step : Makes(script, j, s)
  BY DEF IInv, CreationsSound, CreationSound, Begun
<1>2. i = j
  BY <1>1, Place DEF GoodScript, Makes
<1>3. QED
  BY <1>1, <1>2, Place

\* A step that starts no creation, and goes on to a later instruction at most,
LEMMA TogetherKept ==
  ASSUME IInv, Together, script' = script, step' \in Nat, step' >= step,
         \A s \in Slots : call'[s] = "idle" <=> call[s] = "idle"
  PROVE  Together'
<1> SUFFICES ASSUME At("create")' PROVE \A s, t \in Instruction'.slots :
                                          call'[s] = "idle" <=> call'[t] = "idle"
  BY DEF Together
<1>1. /\ step' \in 1 .. Len(Program[script]) /\ Program[script][step'].op = "create"
      /\ Instruction' = Program[script][step']
      /\ Instruction'.slots \in SUBSET Slots
  <2>1. step' <= Len(Program[script]) /\ Instruction' = Program[script][step']
    BY Place DEF At, Done, Instruction
  <2>2. step' \in 1 .. Len(Program[script])
    BY <2>1, Place
  <2>3. QED
    BY <2>1, <2>2, Place DEF At, GoodScript
<1>2. CASE step' = step
  BY <1>1, <1>2 DEF Together, At, Done, Instruction
<1>3. CASE step' > step
  <2>1. \A s \in Instruction'.slots : s \in Slots /\ Makes(script, step', s)
    BY <1>1 DEF Makes
  <2>2. \A s \in Instruction'.slots : call[s] = "idle"
    BY <1>3, <2>1, LaterIdle
  <2>3. QED
    BY <1>1, <2>2
<1>4. QED
  BY <1>2, <1>3, Place

\* How far a creation has come.
Turn(c) ==
  CASE c = "idle" -> 0 [] c = "started" -> 1 [] c = "accepted" -> 2 [] c = "returned" -> 3

\* Some creation goes on, and none goes back.
CallsGoOn ==
  /\ \A s \in Slots : Turn(call'[s]) >= Turn(call[s])
  /\ \E s \in Slots : Turn(call'[s]) > Turn(call[s])

\* The cancellations an instruction has before it; one more before it has begun.
CancelsLeft == IF queue = << >> THEN Len(created) + 1 ELSE Len(queue)

\* The order in which a script gets on: to a later instruction; or on with a
\* creation; or to the next cancellation; or to the next attempt at it.
GetsOn ==
  \/ step' > step
  \/ step' = step /\ CallsGoOn
  \/ /\ UNCHANGED <<step, call, created>>
     /\ CancelsLeft' < CancelsLeft \/ (CancelsLeft' = CancelsLeft /\ tries' > tries)

\* Every step of a script gets on in an order in which it cannot get on for ever,
\* the number of instructions, of creations, of ids and of attempts being what
\* they are; and what the platform does takes nothing back.
ScriptAdvances ==
  [][/\ ScriptStep => GetsOn
     /\ \A s \in Slots :
          /\ Accept(s) => CallsGoOn /\ UNCHANGED <<step, created, queue, tries>>
          /\ EndsElsewhere(s) => UNCHANGED <<step, call, created, queue, tries>>]_vars

\* The turns a creation takes.
LEMMA Turns ==
  /\ Turn("idle") = 0 /\ Turn("started") = 1 /\ Turn("accepted") = 2
  /\ Turn("returned") = 3
  /\ \A c \in Calls : Turn(c) \in 0 .. 3 /\ Turn(c) >= Turn(c)
<1>1. /\ Turn("idle") = 0 /\ Turn("started") = 1 /\ Turn("accepted") = 2
      /\ Turn("returned") = 3
  BY DEF Turn
<1>2. \A c \in Calls : c = "idle" \/ c = "started" \/ c = "accepted" \/ c = "returned"
  BY DEF Calls
<1>3. \A c \in Calls : Turn(c) \in {0, 1, 2, 3}
  BY <1>1, <1>2, Zenon
<1>4. QED
  BY <1>1, <1>3

\* One creation goes on.
LEMMA OneCallOn ==
  ASSUME IInv, NEW s \in Slots, NEW c \in {"accepted", "returned"},
         call' = [call EXCEPT ![s] = c],
         call[s] = "started" \/ (call[s] = "accepted" /\ c = "returned")
  PROVE  CallsGoOn /\ \A t \in Slots : call'[t] = "idle" <=> call[t] = "idle"
<1>1. call \in [Slots -> Calls]
  BY DEF IInv, TypeOK
<1>2. \A t \in Slots : call[t] \in {"idle", "started", "accepted", "returned"}
  BY <1>1 DEF Calls
<1>3. \A t \in Slots : t # s => call'[t] = call[t]
  BY <1>1
<1>4. call'[s] = c
  BY <1>1
<1>5. \A t \in Slots : Turn(call[t]) \in 0 .. 3
  BY <1>2, Turns
<1>6. Turn(call'[s]) > Turn(call[s])
  BY <1>4, Turns
<1>7. \A t \in Slots : Turn(call'[t]) >= Turn(call[t])
  <2> SUFFICES ASSUME NEW t \in Slots PROVE Turn(call'[t]) >= Turn(call[t])
    OBVIOUS
  <2>1. CASE t = s
    <3>1. Turn(call'[s]) \in 0 .. 3
      BY <1>4, Turns
    <3>2. QED
      BY <1>5, <1>6, <2>1, <3>1
  <2>2. CASE t # s
    <3>1. call'[t] = call[t]
      BY <1>3, <2>2
    <3>2. Turn(call[t]) >= Turn(call[t])
      BY <1>5
    <3>3. QED
      BY <3>1, <3>2
  <2>3. QED
    BY <2>1, <2>2
<1>8. CallsGoOn
  BY <1>6, <1>7 DEF CallsGoOn
<1>9. QED
  BY <1>3, <1>4, <1>8

\* The creations of an instruction are started, if there are any.
LEMMA StartCreateOn ==
  ASSUME IInv, StartCreate
  PROVE  Together' /\ (GetsOn \/ UNCHANGED vars)
<1>1. call \in [Slots -> Calls] /\ Instruction.slots \in SUBSET Slots
  BY Place DEF IInv, TypeOK, StartCreate
<1>2. /\ \A s \in Slots : s \in Instruction.slots =>
           call[s] = "idle" /\ call'[s] = "started"
      /\ \A s \in Slots : s \notin Instruction.slots => call'[s] = call[s]
      /\ UNCHANGED <<script, step>>
  BY <1>1 DEF StartCreate
<1>3. Instruction' = Instruction
  BY <1>2 DEF Instruction
<1>4. Together'
  BY <1>1, <1>2, <1>3 DEF Together
<1>5. CASE Instruction.slots = {}
  <2>1. call' = call
    <3>1. call' = [s \in Slots |-> call[s]]
      BY <1>5 DEF StartCreate
    <3>2. QED
      BY <1>1, <3>1
  <2>2. QED
    BY <1>4, <2>1 DEF StartCreate, vars
<1>6. CASE Instruction.slots # {}
  <2>1. PICK s \in Slots : s \in Instruction.slots
    BY <1>1, <1>6
  <2>2. Turn(call'[s]) > Turn(call[s])
    BY <1>2, <2>1, Turns
  <2>3. ASSUME NEW t \in Slots PROVE Turn(call'[t]) >= Turn(call[t])
    <3>1. call[t] \in {"idle", "started", "accepted", "returned"}
      BY <1>1 DEF Calls
    <3>2. Turn(call[t]) \in 0 .. 3
      BY <3>1, Turns
    <3>3. CASE t \in Instruction.slots
      BY <1>2, <3>3, Turns
    <3>4. CASE t \notin Instruction.slots
      <4>1. call'[t] = call[t]
        BY <1>2, <3>4
      <4>2. Turn(call[t]) >= Turn(call[t])
        BY <3>2
      <4>3. QED
        BY <4>1, <4>2
    <3>5. QED
      BY <3>3, <3>4
  <2>4. CallsGoOn
    BY <2>2, <2>3 DEF CallsGoOn
  <2>5. QED
    BY <1>2, <1>4, <2>4 DEF GetsOn
<1>7. QED
  BY <1>5, <1>6

\* A step of cancelWhenReady goes on to the next attempt, workflow or instruction.
LEMMA CancelOn ==
  ASSUME IInv, StartCancel \/ CancelAccepted \/ CancelFails \/ CancelAnswerLost
  PROVE  /\ step' \in {step, step + 1} /\ UNCHANGED <<script, call, created>>
         /\ GetsOn
<1>1. /\ step \in Nat /\ queue \in Seq(Slots) /\ created \in Seq(Slots)
      /\ tries \in Nat
  BY Place, CancelAttemptsAssumption DEF IInv, TypeOK, CancelAttemptsAssumption
<1>2. CASE StartCancel
  <2>1. CASE CancelTargets = << >>
    BY <1>1, <1>2, <2>1 DEF StartCancel, GetsOn
  <2>2. CASE CancelTargets # << >>
    <3>1. queue = << >> /\ queue' = CancelTargets
          /\ UNCHANGED <<script, step, call, created>>
          /\ (At("cancel") \/ At("cancelCreated"))
      BY <1>2, <2>2 DEF StartCancel
    <3>2. CASE At("cancelCreated")
      <4>1. CancelTargets = created
        BY <3>2 DEF CancelTargets, At
      <4>2. QED
        BY <1>1, <2>2, <3>1, <4>1 DEF GetsOn, CancelsLeft
    <3>3. CASE At("cancel")
      <4>1. Len(CancelTargets) = 1 /\ CancelTargets \in Seq(Slots)
            /\ ToSet(CancelTargets) \subseteq ToSet(created)
        BY <2>2, <3>3, Targets
      <4>2. Head(CancelTargets) \in ToSet(CancelTargets)
        BY <2>2, <4>1, ToSetTail
      <4>3. created # << >>
        BY <4>1, <4>2, ToSetSmall
      <4>4. Len(created) >= 1
        BY <1>1, <4>3
      <4>5. CancelsLeft = Len(created) + 1 /\ CancelsLeft' = 1
        BY <2>2, <3>1, <4>1 DEF CancelsLeft
      <4>6. CancelsLeft' < CancelsLeft
        BY <1>1, <4>4, <4>5
      <4>7. QED
        BY <1>1, <3>1, <4>6 DEF GetsOn
    <3>4. QED
      BY <3>1, <3>2, <3>3
  <2>3. QED
    BY <2>1, <2>2
<1>3. CASE CancelAccepted \/ CancelFails \/ CancelAnswerLost
  <2>1. UNCHANGED <<script, call, created>> /\ queue # << >>
    BY <1>3 DEF CancelAccepted, CancelFails, CancelAnswerLost, Cancellable
  <2>2. CancelNext \/ (tries' = tries + 1 /\ UNCHANGED <<queue, step>>)
    BY <1>3 DEF CancelAccepted, CancelFails, CancelAnswerLost, FailedAttempt
  <2>3. CASE CancelNext
    <3>1. CASE Tail(queue) = << >>
      BY <1>1, <2>1, <2>3, <3>1 DEF CancelNext, GetsOn
    <3>2. CASE Tail(queue) # << >>
      <4>1. queue' = Tail(queue) /\ step' = step
        BY <2>3, <3>2 DEF CancelNext
      <4>2. Len(Tail(queue)) = Len(queue) - 1 /\ Len(queue) \in Nat
        BY <1>1, <2>1
      <4>3. CancelsLeft = Len(queue) /\ CancelsLeft' = Len(queue) - 1
        BY <2>1, <3>2, <4>1, <4>2 DEF CancelsLeft
      <4>4. CancelsLeft' < CancelsLeft
        BY <4>2, <4>3
      <4>5. QED
        BY <2>1, <4>1, <4>4 DEF GetsOn
    <3>3. QED
      BY <3>1, <3>2
  <2>4. CASE tries' = tries + 1 /\ UNCHANGED <<queue, step>>
    <3>1. tries' > tries
      BY <1>1, <2>4
    <3>2. CancelsLeft' = CancelsLeft
      BY <2>1, <2>4 DEF CancelsLeft
    <3>3. QED
      BY <2>1, <2>4, <3>1, <3>2 DEF GetsOn
  <2>5. QED
    BY <2>2, <2>3, <2>4
<1>4. QED
  BY <1>2, <1>3

\* The other instructions go on to a later one.
LEMMA InstructionOn ==
  ASSUME IInv, CreateDone \/ PublishNext \/ ReturnEarly
  PROVE  step' \in Nat /\ step' > step /\ UNCHANGED <<script, call>>
<1>1. step \in Nat /\ Len(Program[script]) \in Nat
  BY Place
<1>2. CASE CreateDone \/ PublishNext
  BY <1>1, <1>2 DEF CreateDone, PublishNext
<1>3. CASE ReturnEarly
  <2>1. step <= Len(Program[script])
    BY <1>1, <1>3 DEF ReturnEarly, At, Done
  <2>2. QED
    BY <1>1, <1>3, <2>1 DEF ReturnEarly
<1>4. QED
  BY <1>2, <1>3

\* Every step keeps the goroutines of an instruction together, and gets on.
LEMMA EveryStepOn ==
  ASSUME IInv, Together, [Next]_vars
  PROVE  /\ Together'
         /\ ScriptStep => GetsOn \/ UNCHANGED vars
         /\ \A s \in Slots :
              /\ Accept(s) => CallsGoOn /\ UNCHANGED <<step, created, queue, tries>>
              /\ EndsElsewhere(s) => UNCHANGED <<step, call, created, queue, tries>>
<1>1. step \in Nat
  BY Place
<1>2. CASE StartCreate
  <2>1. \A s \in Slots : Accept(s) => FALSE
    BY <1>2 DEF StartCreate, Accept
  <2>2. QED
    BY <1>2, <2>1, StartCreateOn DEF EndsElsewhere
<1>3. ASSUME NEW s \in Slots, CreateReturns(s) \/ CreateFails(s) \/ Accept(s)
      PROVE  /\ Together' /\ GetsOn
             /\ CallsGoOn /\ UNCHANGED <<script, step, queue, tries>>
             /\ Accept(s) => UNCHANGED created
  <2>1. PICK c \in {"accepted", "returned"} :
          /\ call' = [call EXCEPT ![s] = c]
          /\ call[s] = "started" \/ (call[s] = "accepted" /\ c = "returned")
          /\ UNCHANGED <<script, step, queue, tries>>
    BY <1>3 DEF CreateReturns, CreateFails, Accept
  <2>2. CallsGoOn /\ \A t \in Slots : call'[t] = "idle" <=> call[t] = "idle"
    BY <2>1, OneCallOn
  <2>3. Together'
    BY <1>1, <2>1, <2>2, TogetherKept
  <2>4. QED
    BY <1>3, <2>1, <2>2, <2>3 DEF Accept, GetsOn
<1>4. ASSUME CreateDone \/ PublishNext \/ ReturnEarly
      PROVE  Together' /\ GetsOn /\ UNCHANGED call
  BY <1>1, <1>4, InstructionOn, TogetherKept DEF GetsOn
<1>5. ASSUME StartCancel \/ CancelAccepted \/ CancelFails \/ CancelAnswerLost
      PROVE  Together' /\ GetsOn /\ UNCHANGED call
  <2>1. step' \in Nat /\ step' >= step /\ UNCHANGED <<script, call>> /\ GetsOn
    BY <1>1, <1>5, CancelOn
  <2>2. QED
    BY <2>1, TogetherKept
<1>6. CASE UNCHANGED vars
  <2>1. Together'
    BY <1>1, <1>6, TogetherKept DEF vars
  <2>2. \A s \in Slots : ~Accept(s)
    <3> SUFFICES ASSUME NEW s \in Slots, Accept(s) PROVE FALSE
      OBVIOUS
    <3>1. call'[s] = "accepted" /\ call[s] = "started"
      BY DEF Accept, IInv, TypeOK
    <3>2. QED
      BY <1>6, <3>1 DEF vars
  <2>3. QED
    BY <1>6, <2>1, <2>2 DEF EndsElsewhere
<1>7. \A s \in Slots : Accept(s) => Together' /\ CallsGoOn /\ UNCHANGED <<step, created, queue, tries>>
  BY <1>3 DEF Accept
<1>8. ASSUME ScriptStep, ~StartCreate
      PROVE  Together' /\ GetsOn
  BY <1>3, <1>4, <1>5, <1>8 DEF ScriptStep
<1>9. \A s \in Slots :
        EndsElsewhere(s) => UNCHANGED <<script, step, call, created, queue, tries>>
  BY DEF EndsElsewhere
<1>10. \A s \in Slots : EndsElsewhere(s) => Together'
  BY <1>1, <1>9, TogetherKept
<1>11. QED
  BY <1>2, <1>6, <1>7, <1>8, <1>9, <1>10 DEF Next

\* The invariant of the order.
LEMMA StaysTogether == Spec => [](IInv /\ Together)
<1>1. Init => Together
  <2> SUFFICES ASSUME Init, At("create") PROVE Together
    BY DEF Together
  <2>1. Instruction.slots \in SUBSET Slots
    BY InitIInv, Place
  <2>2. QED
    BY <2>1 DEF Init, Together
<1>2. IInv /\ Together /\ [Next]_vars => Together'
  BY EveryStepOn
<1>3. QED
  BY <1>1, <1>2, Invariance, PTL DEF Spec

\* A script cannot go on for ever with what the platform refuses, loses or delays:
\* every step of it gets on in an order with an end, whatever the number of
\* attempts at a cancellation and of simultaneous creations.
THEOREM ScriptBounded == Spec => ScriptAdvances
<1>1. IInv /\ Together /\ [Next]_vars =>
        [/\ ScriptStep => GetsOn
         /\ \A s \in Slots :
              /\ Accept(s) => CallsGoOn /\ UNCHANGED <<step, created, queue, tries>>
              /\ EndsElsewhere(s) => UNCHANGED <<step, call, created, queue, tries>>]_vars
  BY EveryStepOn
<1>2. QED
  BY <1>1, StaysTogether, PTL DEF Spec, ScriptAdvances

\* A script that is not over has a step of its own to take: creations to start, an
\* answer or an error under way, a barrier to pass, or a cancellation to attempt.
NeverWaits ==
  \/ Done
  \/ /\ At("create")
     /\ \/ \A s \in Instruction.slots : call[s] = "idle"
        \/ \E s \in Slots : call[s] \in {"started", "accepted"}
        \/ \A s \in Instruction.slots : call[s] = "returned"
  \/ At("publish") \/ At("returnUnless")
  \/ (At("cancel") \/ At("cancelCreated"))

\* No order in which the goroutines of an instruction come back leaves a script
\* waiting at wg.Wait for one that was never started.
THEOREM ScriptNeverStuck == Spec => []NeverWaits
<1>1. IInv /\ Together => NeverWaits
  <2> SUFFICES ASSUME IInv, Together, ~Done PROVE NeverWaits
    BY DEF NeverWaits
  <2>1. step \in 1 .. Len(Program[script]) /\ Instruction.op \in Steps
    BY Place DEF Done, GoodScript, Instruction
  <2>2. \E op \in Steps : At(op)
    BY <2>1 DEF At
  <2>3. CASE ~At("create")
    BY <2>2, <2>3 DEF Steps, NeverWaits
  <2>4. CASE At("create")
    <3>1. Instruction.slots \in SUBSET Slots
          /\ \A s \in Slots : call[s] \in {"idle", "started", "accepted", "returned"}
      BY <2>4, Place DEF IInv, TypeOK, Calls
    <3>2. CASE \E s \in Instruction.slots : call[s] = "idle"
      BY <2>4, <3>2 DEF Together, NeverWaits
    <3>3. CASE \A s \in Instruction.slots : call[s] # "idle"
      BY <2>4, <3>1, <3>3 DEF NeverWaits
    <3>4. QED
      BY <3>2, <3>3
  <2>5. QED
    BY <2>3, <2>4
<1>2. QED
  BY <1>1, StaysTogether, PTL
================================================================================
