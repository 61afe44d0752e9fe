---------------------------- MODULE CatalogSync ----------------------------
(***************************************************************************)
(* The catalog source of crossplane-xrd-catalog-source-poc: several API    *)
(* server pods, each with an in-memory cache and a poller goroutine that   *)
(* LISTs the XRDs of a remote cluster, swaps the derived items into the    *)
(* cache and upserts them into the one row of the platform database; and   *)
(* the warm start of a pod from that row.                                  *)
(*                                                                         *)
(* A LIST, an upsert and their answers are separate steps, so other pods,  *)
(* the cluster and a process exit can come between any two of them.        *)
(***************************************************************************)
EXTENDS Naturals, Sequences

CONSTANTS
  Pods,        \* the API server replicas
  XRDs,        \* the CompositeResourceDefinitions that can be labelled enabled
  Identified,  \* those whose service-id annotation is present and not empty
  MaxChanges,  \* bound: how often the set of enabled XRDs changes
  MaxExits     \* bound: how often a pod crashes or is stopped

ASSUME IdentifiedAssumption == Identified \subseteq XRDs
ASSUME BoundsAssumption == MaxChanges \in Nat /\ MaxExits \in Nat

VARIABLES
  history,     \* history[r]: the enabled XRDs at revision r; the last is current
  phase,       \* phase[p]: where pod p's process is (see Phases)
  cache,       \* cache[p]: the snapshot in Cache.items
  listed,      \* listed[p]: the result of the poll under way
  db,          \* the row of catalog_snapshot, NoSnapshot when there is none
  writes,      \* the upserts sent and not yet executed, of live and dead pods
  exits        \* how many pods have exited so far

vars == <<history, phase, cache, listed, db, writes, exits>>

(***************************************************************************)
(* down: no process.  idle: the poller waits for its ticker.  listing: a   *)
(* LIST is out.  listed: items derived, not yet swapped in.  swapped: in   *)
(* the cache, not yet sent to the database.  saving: the upsert is out.    *)
(***************************************************************************)
Phases == {"down", "idle", "listing", "listed", "swapped", "saving"}

-----------------------------------------------------------------------------
(***************************************************************************)
(* Snapshots. "rev" is a history tag of the model: the program stores the  *)
(* items alone.                                                            *)
(***************************************************************************)
Snapshot == [rev : Nat, items : SUBSET Identified]

NoSnapshot == [rev |-> 0, items |-> {}]

\* As if an XRD without a service id were listed as well.
ItemsOfUnchecked(enabled) == enabled

\* The items of a set of enabled XRDs: one without a service id is skipped.
ItemsOf(enabled) == enabled \cap Identified

Current == Len(history)

Write == [pod : Pods, snap : Snapshot]

-----------------------------------------------------------------------------
Init ==
  /\ history \in {<<enabled>> : enabled \in SUBSET XRDs}
  /\ phase = [p \in Pods |-> "down"]
  /\ cache = [p \in Pods |-> NoSnapshot]
  /\ listed = [p \in Pods |-> NoSnapshot]
  /\ db = NoSnapshot
  /\ writes = {}
  /\ exits = 0

\* The remote cluster: someone labels, unlabels, adds or deletes an XRD.
ClusterMoves ==
  /\ Current <= MaxChanges
  /\ \E enabled \in SUBSET XRDs :
       /\ enabled # history[Current]
       /\ history' = Append(history, enabled)
  /\ UNCHANGED <<phase, cache, listed, db, writes, exits>>

\* As if main started the poller before it read the row and seeded the cache.
WarmStartLate(p) ==
  /\ phase[p] \in {"down", "listed"}
  /\ cache' = [cache EXCEPT ![p] = db]
  /\ phase' = [phase EXCEPT ![p] = IF @ = "down" THEN "idle" ELSE @]
  /\ UNCHANGED <<history, listed, db, writes, exits>>

\* main: connect, read the row (a missing row is an empty snapshot), Seed, and
\* only then start the poller and the listener. A read that fails is fatal: the
\* process ends and the pod is down as before.
WarmStart(p) ==
  /\ phase[p] = "down"
  /\ cache' = [cache EXCEPT ![p] = db]
  /\ phase' = [phase EXCEPT ![p] = "idle"]
  /\ UNCHANGED <<history, listed, db, writes, exits>>

\* The first poll runs at once, each later one on a tick.
Tick(p) ==
  /\ phase[p] = "idle"
  /\ phase' = [phase EXCEPT ![p] = "listing"]
  /\ UNCHANGED <<history, cache, listed, db, writes, exits>>

\* The cluster answers the LIST; the items are derived from its answer.
ListOk(p) ==
  /\ phase[p] = "listing"
  /\ listed' = [listed EXCEPT
       ![p] = [rev |-> Current, items |-> ItemsOf(history[Current])]]
  /\ phase' = [phase EXCEPT ![p] = "listed"]
  /\ UNCHANGED <<history, cache, db, writes, exits>>

\* As if a failed poll emptied the cache.
ListFailClears(p) ==
  /\ phase[p] = "listing"
  /\ phase' = [phase EXCEPT ![p] = "idle"]
  /\ cache' = [cache EXCEPT ![p] = NoSnapshot]
  /\ UNCHANGED <<history, listed, db, writes, exits>>

\* As if a failed poll ended the poller goroutine.
ListFailStops(p) ==
  /\ phase[p] = "listing"
  /\ phase' = [phase EXCEPT ![p] = "stopped"]
  /\ UNCHANGED <<history, cache, listed, db, writes, exits>>

\* A failed LIST is logged; the cache keeps the last good snapshot.
ListFail(p) ==
  /\ phase[p] = "listing"
  /\ phase' = [phase EXCEPT ![p] = "idle"]
  /\ UNCHANGED <<history, cache, listed, db, writes, exits>>

\* As if the new items were merged into the old slice.
SwapMerges(p) ==
  /\ phase[p] = "listed"
  /\ cache' = [cache EXCEPT
       ![p] = [rev |-> listed[p].rev, items |-> @.items \cup listed[p].items]]
  /\ phase' = [phase EXCEPT ![p] = "swapped"]
  /\ UNCHANGED <<history, listed, db, writes, exits>>

\* Cache.Swap: the whole slice is replaced under the write lock.
Swap(p) ==
  /\ phase[p] = "listed"
  /\ cache' = [cache EXCEPT ![p] = listed[p]]
  /\ phase' = [phase EXCEPT ![p] = "swapped"]
  /\ UNCHANGED <<history, listed, db, writes, exits>>

\* Store.Upsert sends the statement; the poll has no more use for the items.
SendUpsert(p) ==
  /\ phase[p] = "swapped"
  /\ writes' = writes \cup {[pod |-> p, snap |-> listed[p]]}
  /\ listed' = [listed EXCEPT ![p] = NoSnapshot]
  /\ phase' = [phase EXCEPT ![p] = "saving"]
  /\ UNCHANGED <<history, cache, db, exits>>

\* As if the statement were INSERT ... ON CONFLICT DO NOTHING.
ExecuteInsertOnly(w) ==
  /\ w \in writes
  /\ db' = IF db = NoSnapshot THEN w.snap ELSE db
  /\ writes' = writes \ {w}
  /\ UNCHANGED <<history, phase, cache, listed, exits>>

\* The database executes a statement: insert, or update on conflict. It may do
\* so after the pod that sent it has given up or exited.
Execute(w) ==
  /\ w \in writes
  /\ db' = w.snap
  /\ writes' = writes \ {w}
  /\ UNCHANGED <<history, phase, cache, listed, exits>>

\* A statement whose connection breaks before the database has read it.
Lose(w) ==
  /\ w \in writes
  /\ writes' = writes \ {w}
  /\ UNCHANGED <<history, phase, cache, listed, db, exits>>

\* Upsert returns, with an error or without one: an error is logged and the
\* poll ends all the same. On an error the statement may still be executed.
UpsertReturns(p) ==
  /\ phase[p] = "saving"
  /\ phase' = [phase EXCEPT ![p] = "idle"]
  /\ UNCHANGED <<history, cache, listed, db, writes, exits>>

\* The process crashes or is stopped, at any point of a poll. Its memory is
\* gone; what it sent to the database is not.
Exit(p) ==
  /\ phase[p] # "down"
  /\ exits < MaxExits
  /\ phase' = [phase EXCEPT ![p] = "down"]
  /\ cache' = [cache EXCEPT ![p] = NoSnapshot]
  /\ listed' = [listed EXCEPT ![p] = NoSnapshot]
  /\ exits' = exits + 1
  /\ UNCHANGED <<history, db, writes>>

Poll(p) ==
  \/ Tick(p) \/ ListOk(p) \/ ListFail(p)
  \/ Swap(p) \/ SendUpsert(p) \/ UpsertReturns(p)

Next ==
  \/ ClusterMoves
  \/ \E p \in Pods : WarmStart(p) \/ Poll(p) \/ Exit(p)
  \/ \E w \in writes : Execute(w) \/ Lose(w)

(***************************************************************************)
(* A pod's own steps are run by the Go scheduler: weak fairness. The       *)
(* remote cluster and the database are assumed to answer again and again   *)
(* when asked again and again: strong fairness of a LIST that succeeds and *)
(* of the execution of a statement. Nothing makes the cluster move or a    *)
(* pod exit.                                                               *)
(***************************************************************************)
ExecuteOf(p, r) == \E w \in writes : w.pod = p /\ w.snap.rev = r /\ Execute(w)

Fairness ==
  \A p \in Pods :
    /\ WF_vars(WarmStart(p) \/ Poll(p))
    /\ SF_vars(ListOk(p))
    /\ \A r \in 1 .. MaxChanges + 1 : SF_vars(ExecuteOf(p, r))

Spec == Init /\ [][Next]_vars

FairSpec == Spec /\ Fairness

-----------------------------------------------------------------------------
(***************************************************************************)
(* Properties                                                              *)
(***************************************************************************)

\* Every item served or stored comes from an XRD with a service id, in every
\* phase of a poll (deriveItem skips the others).
TypeOK ==
  /\ history \in Seq(SUBSET XRDs)
  /\ Current >= 1
  /\ phase \in [Pods -> Phases]
  /\ cache \in [Pods -> Snapshot]
  /\ listed \in [Pods -> Snapshot]
  /\ db \in Snapshot
  /\ writes \subseteq Write
  /\ exits \in 0 .. MaxExits

\* A snapshot is whole: nothing yet, or exactly the items of one revision.
Authentic(s) ==
  \/ s = NoSnapshot
  \/ /\ s.rev \in 1 .. Current
     /\ s.items = ItemsOf(history[s.rev])

\* No cache, poll result, statement in flight or database row ever mixes two
\* revisions of the cluster, whichever pods poll, fail, exit and restart: "no
\* reader ever observes a partial update" (catalog.go), extended to the row the
\* next warm start reads.
SnapshotsAuthentic ==
  /\ \A p \in Pods : Authentic(cache[p]) /\ Authentic(listed[p])
  /\ Authentic(db)
  /\ \A w \in writes : Authentic(w.snap)

\* What a poll is about to swap in is never older than what is being served,
\* the warm-start snapshot of another pod included.
PollsGoForward ==
  \A p \in Pods : phase[p] = "listed" => cache[p].rev <= listed[p].rev

\* The answers of GET /catalog (Cache.List) and of GET /health/ready
\* (Cache.Ready: the cache is seeded before the listener starts).
Served ==
  [p \in Pods |->
     [rev |-> cache[p].rev, items |-> cache[p].items, up |-> phase[p] # "down"]]

View == INSTANCE CatalogView WITH served <- Served

\* Each pod implements the reader's view: whole snapshots only, and within one
\* life of the pod never an older one after a newer one, through failed polls,
\* a warm start from another pod's row and late statements.
ImplementsView == View!Spec

\* Once the cluster stops changing and pods stop exiting, every pod ends up
\* serving the cluster's items and keeps serving them.
ServesCurrentInTheEnd ==
  <>[](\A p \in Pods : phase[p] # "down" /\ cache[p].rev = Current)

\* The row heals: an older snapshot that a slow pod or a late statement wrote
\* over a newer one does not stay in the database.
RowCurrentInTheEnd == <>[](db.rev = Current)

\* "safe to call concurrently from multiple pods, since it's an idempotent
\* write of the same source data" (db.go): concurrent upserts never put an
\* older snapshot in the place of a newer one.
RowNeverGoesBack == [][db'.rev >= db.rev]_db
=============================================================================
