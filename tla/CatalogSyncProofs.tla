-------------------------- MODULE CatalogSyncProofs --------------------------
(***************************************************************************)
(* The safety of CatalogSync for every number of pods, every set of XRDs   *)
(* and every bound: the type invariant, the authenticity of every          *)
(* snapshot, and the implementation of CatalogView.                        *)
(***************************************************************************)
EXTENDS CatalogSync, TLAPS

\* The inductive invariant. Authenticity needs the types; that polls go forward
\* needs authenticity, which bounds the tag of the served snapshot by Current.
IInv == TypeOK /\ SnapshotsAuthentic /\ PollsGoForward

-----------------------------------------------------------------------------
\* The cluster only appends to its history, so a snapshot that was whole stays
\* whole.
LEMMA AuthenticStable ==
  ASSUME NEW s, Authentic(s), history \in Seq(SUBSET XRDs),
         NEW e \in SUBSET XRDs, history' = Append(history, e)
  PROVE  Authentic(s)'
<1>1. CASE s = NoSnapshot
  BY <1>1 DEF Authentic
<1>2. CASE s.rev \in 1 .. Current /\ s.items = ItemsOf(history[s.rev])
  <2>1. Current \in Nat /\ Current' = Current + 1
    BY DEF Current
  <2>2. s.rev \in 1 .. Current' /\ history'[s.rev] = history[s.rev]
    BY <1>2, <2>1 DEF Current
  <2>3. QED
    BY <1>2, <2>2 DEF Authentic, ItemsOf
<1>3. QED
  BY <1>1, <1>2 DEF Authentic

\* A step that leaves the cluster alone leaves every whole snapshot whole.
LEMMA AuthenticUnchanged ==
  ASSUME NEW s, UNCHANGED history
  PROVE  Authentic(s)' <=> Authentic(s)
BY DEF Authentic, Current, ItemsOf

\* What a LIST yields: the whole current revision.
LEMMA ListedSnapshot ==
  ASSUME TypeOK
  PROVE  LET s == [rev |-> Current, items |-> ItemsOf(history[Current])]
         IN  s \in Snapshot /\ Authentic(s)
<1>1. Current \in Nat /\ Current >= 1 /\ history[Current] \in SUBSET XRDs
  BY DEF TypeOK, Current
<1>2. QED
  BY <1>1 DEF Snapshot, Authentic, ItemsOf

-----------------------------------------------------------------------------
\* The initial states satisfy the inductive invariant.
LEMMA InitIInv == Init => IInv
<1> SUFFICES ASSUME Init PROVE IInv
  OBVIOUS
<1>1. PICK enabled \in SUBSET XRDs : history = <<enabled>>
  BY DEF Init
<1>2. history \in Seq(SUBSET XRDs) /\ Current = 1
  BY <1>1 DEF Current
<1>3. NoSnapshot \in Snapshot
  BY DEF NoSnapshot, Snapshot
<1>4. TypeOK
  BY <1>2, <1>3, BoundsAssumption DEF Init, TypeOK, Phases
<1>5. SnapshotsAuthentic
  BY DEF Init, SnapshotsAuthentic, Authentic
<1>6. PollsGoForward
  BY DEF Init, PollsGoForward
<1>7. QED
  BY <1>4, <1>5, <1>6 DEF IInv

\* Every step keeps the inductive invariant.
LEMMA NextIInv == IInv /\ [Next]_vars => IInv'
<1> SUFFICES ASSUME IInv, [Next]_vars PROVE IInv'
  OBVIOUS
<1> USE DEF IInv
<1>0. NoSnapshot \in Snapshot
  BY DEF NoSnapshot, Snapshot
<1>1. CASE ClusterMoves
  <2>1. PICK e \in SUBSET XRDs : history' = Append(history, e)
    BY <1>1 DEF ClusterMoves
  <2>2. history' \in Seq(SUBSET XRDs) /\ Current' >= 1
    BY <2>1 DEF TypeOK, Current
  <2>3. TypeOK'
    BY <1>1, <2>2 DEF ClusterMoves, TypeOK
  <2>4. \A s : Authentic(s) => Authentic(s)'
    BY <2>1, AuthenticStable DEF TypeOK
  <2>5. SnapshotsAuthentic'
    <3>1. \A p \in Pods : Authentic(cache[p])' /\ Authentic(listed[p])'
      BY <1>1, <2>4 DEF ClusterMoves, SnapshotsAuthentic, Authentic, ItemsOf, Current
    <3>2. Authentic(db)' /\ \A w \in writes : Authentic(w.snap)'
      BY <1>1, <2>4 DEF ClusterMoves, SnapshotsAuthentic, Authentic, ItemsOf, Current
    <3>3. QED
      BY <1>1, <3>1, <3>2 DEF ClusterMoves, SnapshotsAuthentic
  <2>6. PollsGoForward'
    BY <1>1 DEF ClusterMoves, PollsGoForward
  <2>7. QED
    BY <2>3, <2>5, <2>6
<1>2. ASSUME NEW p \in Pods, WarmStart(p) PROVE IInv'
  <2>1. TypeOK'
    BY <1>2 DEF WarmStart, TypeOK, Phases, Current
  <2>2. SnapshotsAuthentic'
    BY <1>2 DEF WarmStart, SnapshotsAuthentic, Authentic, Current, ItemsOf, TypeOK
  <2>3. PollsGoForward'
    BY <1>2 DEF WarmStart, PollsGoForward, TypeOK
  <2>4. QED
    BY <2>1, <2>2, <2>3
<1>3. ASSUME NEW p \in Pods, Poll(p) PROVE IInv'
  <2>1. CASE Tick(p) \/ ListFail(p) \/ UpsertReturns(p)
    BY <2>1 DEF Tick, ListFail, UpsertReturns, TypeOK, Phases, Current,
                SnapshotsAuthentic, Authentic, ItemsOf, PollsGoForward
  <2>2. CASE ListOk(p)
    <3> DEFINE s == [rev |-> Current, items |-> ItemsOf(history[Current])]
    <3>1. s \in Snapshot /\ Authentic(s)
      BY ListedSnapshot
    <3>2. /\ listed' = [listed EXCEPT ![p] = s]
          /\ phase' = [phase EXCEPT ![p] = "listed"]
          /\ UNCHANGED <<history, cache, db, writes, exits>>
      BY <2>2 DEF ListOk
    <3>3. s.rev = Current
      OBVIOUS
    <3> HIDE DEF s
    <3>4. TypeOK'
      BY <3>1, <3>2 DEF TypeOK, Phases, Current
    <3>5. SnapshotsAuthentic'
      BY <3>1, <3>2 DEF SnapshotsAuthentic, Authentic, Current, ItemsOf, TypeOK
    <3>6. cache[p].rev \in Nat /\ cache[p].rev <= Current
      BY DEF SnapshotsAuthentic, Authentic, NoSnapshot, TypeOK, Current, Snapshot
    <3>7. PollsGoForward'
      BY <3>2, <3>3, <3>6 DEF PollsGoForward, TypeOK
    <3>8. QED
      BY <3>4, <3>5, <3>7
  <2>3. CASE Swap(p)
    <3>1. TypeOK'
      BY <2>3 DEF Swap, TypeOK, Phases, Current
    <3>2. SnapshotsAuthentic'
      BY <2>3 DEF Swap, SnapshotsAuthentic, Authentic, Current, ItemsOf, TypeOK
    <3>3. PollsGoForward'
      BY <2>3 DEF Swap, PollsGoForward, TypeOK
    <3>4. QED
      BY <3>1, <3>2, <3>3
  <2>4. CASE SendUpsert(p)
    <3> DEFINE w == [pod |-> p, snap |-> listed[p]]
    <3>1. w \in Write /\ Authentic(w.snap)
      BY DEF TypeOK, Write, SnapshotsAuthentic
    <3>2. /\ writes' = writes \cup {w}
          /\ listed' = [listed EXCEPT ![p] = NoSnapshot]
          /\ phase' = [phase EXCEPT ![p] = "saving"]
          /\ UNCHANGED <<history, cache, db, exits>>
      BY <2>4 DEF SendUpsert
    <3> HIDE DEF w
    <3>3. TypeOK'
      BY <1>0, <3>1, <3>2 DEF TypeOK, Phases, Current
    <3>4. SnapshotsAuthentic'
      BY <3>1, <3>2 DEF SnapshotsAuthentic, Authentic, Current, ItemsOf, TypeOK
    <3>5. PollsGoForward'
      BY <3>2 DEF PollsGoForward, TypeOK
    <3>6. QED
      BY <3>3, <3>4, <3>5
  <2>5. QED
    BY <1>3, <2>1, <2>2, <2>3, <2>4 DEF Poll
<1>4. ASSUME NEW p \in Pods, Exit(p) PROVE IInv'
  <2>1. TypeOK'
    BY <1>0, <1>4, BoundsAssumption DEF Exit, TypeOK, Phases, Current
  <2>2. SnapshotsAuthentic'
    BY <1>4 DEF Exit, SnapshotsAuthentic, Authentic, Current, ItemsOf, TypeOK
  <2>3. PollsGoForward'
    BY <1>4 DEF Exit, PollsGoForward, TypeOK
  <2>4. QED
    BY <2>1, <2>2, <2>3
<1>5. ASSUME NEW w \in writes, Execute(w) \/ Lose(w) PROVE IInv'
  <2>1. w.snap \in Snapshot /\ Authentic(w.snap)
    BY DEF TypeOK, Write, SnapshotsAuthentic
  <2>2. TypeOK'
    BY <1>5, <2>1 DEF Execute, Lose, TypeOK, Current
  <2>3. SnapshotsAuthentic'
    BY <1>5, <2>1 DEF Execute, Lose, SnapshotsAuthentic, Authentic, Current, ItemsOf
  <2>4. PollsGoForward'
    BY <1>5 DEF Execute, Lose, PollsGoForward
  <2>5. QED
    BY <2>2, <2>3, <2>4
<1>6. CASE UNCHANGED vars
  BY <1>6 DEF vars, TypeOK, Current, SnapshotsAuthentic, Authentic, ItemsOf,
              PollsGoForward
<1>7. QED
  BY <1>1, <1>2, <1>3, <1>4, <1>5, <1>6 DEF Next

\* The inductive invariant holds throughout every run.
THEOREM Invariance == Spec => []IInv
BY InitIInv, NextIInv, PTL DEF Spec

\* Every variable keeps its type: in particular no item without a service id is
\* ever served or stored.
THEOREM TypeCorrect == Spec => []TypeOK
<1>1. IInv => TypeOK
  BY DEF IInv
<1>2. QED
  BY <1>1, Invariance, PTL

\* No cache, poll result, statement or row ever mixes two revisions.
THEOREM AlwaysAuthentic == Spec => []SnapshotsAuthentic
<1>1. IInv => SnapshotsAuthentic
  BY DEF IInv
<1>2. QED
  BY <1>1, Invariance, PTL

\* A poll never replaces what is served by something older.
THEOREM ForwardOnly == Spec => []PollsGoForward
<1>1. IInv => PollsGoForward
  BY DEF IInv
<1>2. QED
  BY <1>1, Invariance, PTL

-----------------------------------------------------------------------------
\* A whole snapshot is an answer the abstract view allows.
LEMMA AuthenticIsAnswer ==
  ASSUME NEW s \in Snapshot, Authentic(s)
  PROVE  [rev |-> s.rev, items |-> s.items, up |-> TRUE] \in View!Answers
<1>1. CASE s = NoSnapshot
  BY <1>1 DEF View!Answers, NoSnapshot
<1>2. CASE s.rev \in 1 .. Current /\ s.items = ItemsOf(history[s.rev])
  BY <1>2 DEF View!Answers, Current, ItemsOf
<1>3. QED
  BY <1>1, <1>2 DEF Authentic

\* The initial states are those of the view: no pod is up.
LEMMA InitView == Init => View!Init
<1> SUFFICES ASSUME Init PROVE View!Init
  OBVIOUS
<1>1. history \in {<<enabled>> : enabled \in SUBSET XRDs}
  BY DEF Init
<1>2. ASSUME NEW p \in Pods
      PROVE  [rev |-> cache[p].rev, items |-> cache[p].items,
              up |-> phase[p] # "down"] = View!Offline
  BY DEF Init, NoSnapshot, View!Offline
<1>3. Served = [p \in Pods |-> View!Offline]
  BY <1>2 DEF Served
<1>4. QED
  BY <1>1, <1>3 DEF View!Init

\* Every step of CatalogSync is a step of the view or leaves the view as it is.
LEMMA StepView ==
  ASSUME IInv, [Next]_vars
  PROVE  [View!Next]_<<history, Served>>
<1>1. CASE ClusterMoves
  <2>1. UNCHANGED Served
    BY <1>1 DEF ClusterMoves, Served
  <2>2. QED
    BY <1>1, <2>1 DEF ClusterMoves, View!Next, View!ClusterMoves
<1>2. ASSUME NEW p \in Pods, WarmStart(p) PROVE View!Next
  <2> DEFINE a == [rev |-> db.rev, items |-> db.items, up |-> TRUE]
  <2>1. a \in View!Answers
    BY AuthenticIsAnswer DEF IInv, TypeOK, SnapshotsAuthentic
  <2>2. ~Served[p].up
    BY <1>2 DEF WarmStart, Served
  <2>3. Served' = [Served EXCEPT ![p] = a]
    BY <1>2 DEF WarmStart, Served, IInv, TypeOK
  <2> HIDE DEF a
  <2>4. View!PodUp(p)
    BY <1>2, <2>1, <2>2, <2>3 DEF WarmStart, View!PodUp
  <2>5. QED
    BY <2>4 DEF View!Next
<1>3. ASSUME NEW p \in Pods, Poll(p) PROVE [View!Next]_<<history, Served>>
  <2>1. CASE Swap(p)
    <3> DEFINE a == [rev |-> listed[p].rev, items |-> listed[p].items, up |-> TRUE]
    <3>1. a \in View!Answers
      BY AuthenticIsAnswer DEF IInv, TypeOK, SnapshotsAuthentic
    <3>2. Served[p].up /\ Served[p].rev = cache[p].rev
      BY <2>1 DEF Swap, Served
    <3>3. listed[p].rev \in Nat /\ cache[p].rev \in Nat
      BY DEF IInv, TypeOK, Snapshot
    <3>4. a.rev >= Served[p].rev
      BY <2>1, <3>2, <3>3 DEF Swap, IInv, PollsGoForward
    <3>5. Served' = [Served EXCEPT ![p] = a]
      BY <2>1 DEF Swap, Served, IInv, TypeOK
    <3> HIDE DEF a
    <3>6. View!Refresh(p)
      BY <2>1, <3>1, <3>2, <3>4, <3>5 DEF Swap, View!Refresh
    <3>7. QED
      BY <3>6 DEF View!Next
  <2>2. CASE Tick(p) \/ ListOk(p) \/ ListFail(p) \/ SendUpsert(p) \/ UpsertReturns(p)
    <3>1. /\ UNCHANGED <<history, cache>>
          /\ \A q \in Pods : (phase'[q] # "down") = (phase[q] # "down")
      BY <2>2 DEF Tick, ListOk, ListFail, SendUpsert, UpsertReturns, IInv, TypeOK
    <3>2. QED
      BY <3>1 DEF Served
  <2>3. QED
    BY <1>3, <2>1, <2>2 DEF Poll
<1>4. ASSUME NEW p \in Pods, Exit(p) PROVE View!Next
  <2>1. Served' = [Served EXCEPT ![p] = View!Offline]
    BY <1>4 DEF Exit, Served, View!Offline, NoSnapshot, IInv, TypeOK
  <2>2. View!PodDown(p)
    BY <1>4, <2>1 DEF Exit, View!PodDown
  <2>3. QED
    BY <2>2 DEF View!Next
<1>5. ASSUME NEW w \in writes, Execute(w) \/ Lose(w)
      PROVE  UNCHANGED <<history, Served>>
  BY <1>5 DEF Execute, Lose, Served
<1>6. CASE UNCHANGED vars
  BY <1>6 DEF vars, Served
<1>7. QED
  BY <1>1, <1>2, <1>3, <1>4, <1>5, <1>6 DEF Next

\* CatalogSync implements the reader's view: whole snapshots only, and never an
\* older one after a newer one within one life of a pod.
THEOREM Refinement == Spec => ImplementsView
<1>1. IInv /\ [Next]_vars => [View!Next]_<<history, Served>>
  BY StepView
<1>2. QED
  BY <1>1, InitView, Invariance, PTL DEF Spec, ImplementsView, View!Spec

-----------------------------------------------------------------------------
\* What the view promises its readers, carried over to CatalogSync: replicas that
\* serve the same revision serve the same items, however each came by them: its
\* own LIST, or the row another pod wrote.
THEOREM ReplicasServeTheSame == Spec => []View!ReplicasAgree
<1>1. IInv => View!ReplicasAgree
  <2> SUFFICES ASSUME IInv, NEW p \in Pods, NEW q \in Pods, cache[p].rev = cache[q].rev
               PROVE  cache[p].items = cache[q].items
    BY DEF View!ReplicasAgree, Served
  <2>1. Authentic(cache[p]) /\ Authentic(cache[q])
    BY DEF IInv, SnapshotsAuthentic
  <2>2. QED
    BY <2>1 DEF Authentic, NoSnapshot
<1>2. QED
  BY <1>1, Invariance, PTL

\* A step of the view takes no pod that stays up back to an older revision,
LEMMA ViewNeverBack ==
  ASSUME IInv, [View!Next]_<<history, Served>>, NEW p \in Pods, Served[p].up, Served'[p].up
  PROVE  Served'[p].rev >= Served[p].rev
<1>1. Served[p].rev \in Nat /\ Served \in [Pods -> [rev : Nat, items : SUBSET Identified, up : BOOLEAN]]
  BY DEF IInv, TypeOK, Snapshot, Served
<1>2. CASE UNCHANGED Served
  BY <1>1, <1>2
<1>3. ASSUME NEW q \in Pods, View!PodUp(q) \/ View!Refresh(q) \/ View!PodDown(q)
      PROVE  Served'[p].rev >= Served[p].rev
  <2>1. CASE q # p
    BY <1>1, <1>3, <2>1 DEF View!PodUp, View!Refresh, View!PodDown
  <2>2. CASE q = p
    <3>1. ~View!PodUp(p)
      BY DEF View!PodUp
    <3>2. ~View!PodDown(p)
      BY <1>1 DEF View!PodDown, View!Offline
    <3>3. View!Refresh(p)
      BY <1>3, <2>2, <3>1, <3>2
    <3>4. PICK a \in View!Answers :
            a.rev >= Served[p].rev /\ Served' = [Served EXCEPT ![p] = a]
      BY <3>3 DEF View!Refresh
    <3>5. QED
      BY <1>1, <3>4
  <2>3. QED
    BY <2>1, <2>2
<1>4. QED
  BY <1>2, <1>3 DEF View!Next, View!ClusterMoves

\* and so none of CatalogSync does: within one life of a pod the catalog only
\* moves forward, through failed polls, a warm start from a newer or an older row,
\* and statements of other pods that are executed late.
THEOREM ReadersNeverGoBack == Spec => View!NeverBack
<1>1. IInv /\ [Next]_vars =>
        [\A p \in Pods : Served[p].up /\ Served'[p].up => Served'[p].rev >= Served[p].rev]_Served
  BY StepView, ViewNeverBack
<1>2. QED
  BY <1>1, Invariance, PTL DEF Spec, View!NeverBack

-----------------------------------------------------------------------------
\* Every pod that is up serves the items the cluster has now, and nothing older is
\* under way: in a poll, in a statement, or in the row.
Settled ==
  /\ \A p \in Pods : phase[p] # "down" =>
       cache[p] = [rev |-> Current, items |-> ItemsOf(history[Current])]
  /\ \A p \in Pods : phase[p] \in {"listed", "swapped"} => listed[p].rev = Current
  /\ \A w \in writes : w.snap.rev = Current
  /\ db.rev = Current

SettledStays == [][Settled /\ UNCHANGED history => Settled']_vars

\* What has settled stays so until the cluster changes, whatever fails, exits or is
\* executed late: a pod that comes up then serves the current items at once, before
\* its first poll. It is what remains of ServesCurrentInTheEnd and of
\* RowCurrentInTheEnd when the fairness they assume is left out.
THEOREM SettledForGood == Spec => SettledStays
<1> DEFINE now == [rev |-> Current, items |-> ItemsOf(history[Current])]
<1>1. ASSUME IInv, [Next]_vars, Settled, UNCHANGED history
      PROVE  Settled'
  <2>1. now' = now /\ Current' = Current /\ Current \in Nat /\ Current >= 1 /\ now.rev = Current
    BY <1>1 DEF Current, ItemsOf, IInv, TypeOK
  <2>2. \A s \in Snapshot : Authentic(s) /\ s.rev = Current => s = now
    BY <2>1 DEF Authentic, NoSnapshot, Snapshot
  <2>3. /\ \A p \in Pods : phase[p] # "down" => cache[p] = now
        /\ \A p \in Pods : phase[p] \in {"listed", "swapped"} => listed[p] = now
        /\ \A w \in writes : w.snap.rev = Current
        /\ db = now
    BY <1>1, <2>2 DEF Settled, IInv, TypeOK, SnapshotsAuthentic
  <2>4. /\ phase \in [Pods -> Phases] /\ cache \in [Pods -> Snapshot]
        /\ listed \in [Pods -> Snapshot]
    BY <1>1 DEF IInv, TypeOK
  <2> SUFFICES /\ \A p \in Pods : phase'[p] # "down" => cache'[p] = now
               /\ \A p \in Pods : phase'[p] \in {"listed", "swapped"} => listed'[p].rev = Current
               /\ \A w \in writes' : w.snap.rev = Current
               /\ db'.rev = Current
    BY <2>1 DEF Settled
  <2>5. ASSUME NEW p \in Pods, WarmStart(p) \/ Tick(p) \/ ListFail(p) \/ Swap(p) \/ UpsertReturns(p)
        PROVE  /\ \A q \in Pods : phase'[q] # "down" => cache'[q] = now
               /\ \A q \in Pods : phase'[q] \in {"listed", "swapped"} => listed'[q] = now
               /\ UNCHANGED <<writes, db>>
    BY <2>3, <2>4, <2>5 DEF WarmStart, Tick, ListFail, Swap, UpsertReturns
  <2>6. ASSUME NEW p \in Pods, ListOk(p)
        PROVE  /\ \A q \in Pods : phase'[q] # "down" => cache'[q] = now
               /\ \A q \in Pods : phase'[q] \in {"listed", "swapped"} => listed'[q] = now
               /\ UNCHANGED <<writes, db>>
    <3>1. /\ listed' = [listed EXCEPT ![p] = now] /\ phase' = [phase EXCEPT ![p] = "listed"]
          /\ phase[p] = "listing" /\ UNCHANGED <<cache, writes, db>>
      BY <2>6 DEF ListOk
    <3> HIDE DEF now
    <3>2. QED
      BY <2>3, <2>4, <3>1
  <2>7. ASSUME NEW p \in Pods, SendUpsert(p)
        PROVE  /\ \A q \in Pods : phase'[q] # "down" => cache'[q] = now
               /\ \A q \in Pods : phase'[q] \in {"listed", "swapped"} => listed'[q] = now
               /\ (\A w \in writes' : w.snap.rev = Current) /\ UNCHANGED db
    <3>1. /\ writes' = writes \cup {[pod |-> p, snap |-> listed[p]]} /\ phase[p] = "swapped"
          /\ listed' = [listed EXCEPT ![p] = NoSnapshot]
          /\ phase' = [phase EXCEPT ![p] = "saving"] /\ UNCHANGED <<cache, db>>
      BY <2>7 DEF SendUpsert
    <3>2. listed[p] = now
      BY <2>3, <3>1
    <3> HIDE DEF now
    <3>3. QED
      BY <2>1, <2>3, <2>4, <3>1, <3>2
  <2>8. ASSUME NEW p \in Pods, Exit(p)
        PROVE  /\ \A q \in Pods : phase'[q] # "down" => cache'[q] = now
               /\ \A q \in Pods : phase'[q] \in {"listed", "swapped"} => listed'[q] = now
               /\ UNCHANGED <<writes, db>>
    BY <2>3, <2>4, <2>8 DEF Exit
  <2>9. ASSUME NEW w \in writes, Execute(w) \/ Lose(w)
        PROVE  /\ UNCHANGED <<phase, cache, listed>> /\ writes' \subseteq writes
               /\ db'.rev = Current
    BY <2>1, <2>3, <2>9 DEF Execute, Lose
  <2>10. CASE ClusterMoves
    <3>1. history' # history
      <4>1. PICK e : history' = Append(history, e)
        BY <2>10 DEF ClusterMoves
      <4>2. Current' = Current + 1
        BY <1>1, <2>10, <4>1 DEF ClusterMoves, Current, IInv, TypeOK
      <4>3. QED
        BY <2>1, <4>2
    <3>2. QED
      BY <1>1, <3>1
  <2>11. CASE UNCHANGED vars
    BY <2>1, <2>3, <2>11 DEF vars
  <2> HIDE DEF now
  <2>12. QED
    BY <1>1, <2>1, <2>3, <2>5, <2>6, <2>7, <2>8, <2>9, <2>10, <2>11 DEF Next, Poll
<1>2. IInv /\ [Next]_vars => [Settled /\ UNCHANGED history => Settled']_vars
  BY <1>1
<1>3. QED
  BY <1>2, Invariance, PTL DEF Spec, SettledStays
=============================================================================
