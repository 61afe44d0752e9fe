-------------------------- MODULE InstanceRegistry --------------------------
(***************************************************************************)
(* What the compute API promises its clients: each call takes effect at    *)
(* one instant. A name is created once and deleted once, whoever asks; a   *)
(* later attempt is told so, and an instance is never forgotten.           *)
(*                                                                         *)
(* ComputeStore implements this module.                                    *)
(***************************************************************************)
EXTENDS Naturals

CONSTANTS
  Calls,       \* the calls that clients make
  Names,       \* names of instances
  Tenants

VARIABLES
  stage,       \* stage[n]: "absent", "provisioning" or "deleting"
  owner,       \* owner[n]: the tenant n was created for, "none" when absent
  verdict      \* verdict[c]: the status code of call c and the name it is about

vars == <<stage, owner, verdict>>

Undecided == [code |-> 0, name |-> "none"]

Init ==
  /\ stage = [n \in Names |-> "absent"]
  /\ owner = [n \in Names |-> "none"]
  /\ verdict = [c \in Calls |-> Undecided]

Decide(c, code, n) ==
  /\ verdict[c] = Undecided
  /\ verdict' = [verdict EXCEPT ![c] = [code |-> code, name |-> n]]

Created(c, n) ==
  /\ stage[n] = "absent"
  /\ stage' = [stage EXCEPT ![n] = "provisioning"]
  /\ \E t \in Tenants : owner' = [owner EXCEPT ![n] = t]
  /\ Decide(c, 202, n)

Deleted(c, n) ==
  /\ stage[n] = "provisioning"
  /\ stage' = [stage EXCEPT ![n] = "deleting"]
  /\ Decide(c, 204, n)
  /\ UNCHANGED owner

\* Found, or in the way of a creation or of a second deletion.
Present(c, n) ==
  /\ stage[n] # "absent"
  /\ Decide(c, 200, n) \/ Decide(c, 409, n)
  /\ UNCHANGED <<stage, owner>>

Absent(c, n) ==
  /\ stage[n] = "absent"
  /\ Decide(c, 404, n)
  /\ UNCHANGED <<stage, owner>>

\* A page of instances, and a call that is refused, are about no name.
Other(c) ==
  /\ Decide(c, 200, "none") \/ Decide(c, 400, "none")
  /\ UNCHANGED <<stage, owner>>

Next ==
  \E c \in Calls :
    \/ Other(c)
    \/ \E n \in Names : Created(c, n) \/ Deleted(c, n) \/ Present(c, n) \/ Absent(c, n)

Spec == Init /\ [][Next]_vars

-----------------------------------------------------------------------------
\* The promise in two sentences: of all calls, one creates a name and one deletes
\* it, and what is deleted had been created.
WonOnce ==
  \A c, d \in Calls :
    verdict[c].code \in {202, 204} /\ verdict[d] = verdict[c] => c = d

DeletedWasCreated ==
  \A d \in Calls : verdict[d].code = 204 =>
    \E c \in Calls : verdict[c] = [code |-> 202, name |-> verdict[d].name]
=============================================================================
