------------------------------ MODULE CustomKind ------------------------------
(***************************************************************************)
(* setupCustomKind and teardownCustomKind of the approval gate: a custom   *)
(* user group kind, and the secret and the config entry it refers to by    *)
(* name, are stored in the tenant, or removed from it.  They outlive the   *)
(* run, so a run finds whatever earlier ones have left, those that broke   *)
(* off in the middle included.                                             *)
(*                                                                         *)
(* The tenant API is external: POST refuses a key or id that exists with   *)
(* 409; a value cannot be read back.  Any call may fail, before or after   *)
(* it took effect.  One run at a time works on a tenant.                   *)
(***************************************************************************)
EXTENDS Naturals

VARIABLES
  entry,     \* what the tenant holds
  at,        \* the entry the run is at, or how it ended
  call,      \* the request it is to send for it
  warnings   \* the entries whose removal was warned of

tenant == <<entry, at, call, warnings>>

Entries == {"secret", "config", "kind"}

\* old: stored by an earlier run. own: what this run stores.
Stored == {"absent", "old", "own"}

Own == [e \in Entries |-> "own"]

Calls == {"POST", "DELETE", "POST again", "PUT"}

TypeOKTenant ==
  /\ entry \in [Entries -> Stored]
  /\ at \in Entries \cup {"ready", "broken", "removed"}
  /\ call \in Calls
  /\ warnings \in SUBSET Entries

-----------------------------------------------------------------------------
\* The order of setupCustomKind.
SetUpOrder == [secret |-> "config", config |-> "kind", kind |-> "ready"]

\* As if the kind were removed last.
RemovalOrderKindLast ==
  [start |-> "secret", secret |-> "config", config |-> "kind", kind |-> "removed"]

\* The order of teardownCustomKind.
RemovalOrder ==
  [start |-> "kind", kind |-> "secret", secret |-> "config", config |-> "removed"]

InitTenant(cleanup) ==
  /\ entry \in [Entries -> {"absent", "old"}]
  /\ at = IF cleanup THEN RemovalOrder.start ELSE "secret"
  /\ call = IF cleanup THEN "DELETE" ELSE "POST"
  /\ warnings = {}

\* The run goes on to the next entry.
Onward(e) == at' = SetUpOrder[e] /\ call' = "POST"

\* An error ends the set-up. It may come after the request took effect.
BreakOff == at' = "broken" /\ UNCHANGED call

\* A request that stores the run's value of e.
Store(e) ==
  /\ entry' = [entry EXCEPT ![e] = "own"]
  /\ Onward(e) \/ BreakOff

\* As if a conflict counted as success, as it does in createWorkflowKind.
ConflictIsFine(e) ==
  /\ call = "POST" /\ entry[e] # "absent"
  /\ Onward(e)
  /\ UNCHANGED entry

\* 409: the key exists. A kind is then replaced, an entry deleted first.
Conflict(e) ==
  /\ call = "POST" /\ entry[e] # "absent"
  /\ call' = IF e = "kind" THEN "PUT" ELSE "DELETE"
  /\ UNCHANGED <<entry, at>>

Delete(e) ==
  /\ call = "DELETE"
  /\ entry' = [entry EXCEPT ![e] = "absent"]
  /\ (call' = "POST again" /\ UNCHANGED at) \/ BreakOff

\* upsertTenantEntry and upsertUserGroupKind, one request of e at a time.
Upsert(e) ==
  /\ at = e
  /\ \/ call = "POST" /\ entry[e] = "absent" /\ Store(e)
     \/ Conflict(e)
     \/ Delete(e)
     \/ call \in {"POST again", "PUT"} /\ Store(e)
     \/ BreakOff /\ UNCHANGED entry
  /\ UNCHANGED warnings

\* As if teardownCustomKind dropped the errors.
RemoveSilently(e) ==
  /\ at = e
  /\ entry' \in {entry, [entry EXCEPT ![e] = "absent"]}
  /\ at' = RemovalOrder[e]
  /\ UNCHANGED <<call, warnings>>

\* One deletion of teardownCustomKind, which goes on after an error. To delete
\* what is not there may be an error too.
Remove(e) ==
  /\ at = e
  /\ \/ /\ entry' = [entry EXCEPT ![e] = "absent"]
        /\ warnings' \in {warnings, warnings \cup {e}}
     \/ /\ warnings' = warnings \cup {e}
        /\ UNCHANGED entry
  /\ at' = RemovalOrder[e]
  /\ UNCHANGED call
=============================================================================
