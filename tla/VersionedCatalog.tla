-------------------------- MODULE VersionedCatalog --------------------------
(***************************************************************************)
(* The API server of crossplane-xrd-versioned-schema-provisioning-poc: a   *)
(* poller that keeps the entry schema of an XRD in a cache, and handlers   *)
(* that render a template from the cache and provision a composite         *)
(* resource (XR) after validating it against the cached schema.            *)
(*                                                                         *)
(* One catalog entry is modelled. An XRD that is not listed, or from which *)
(* deriveEntrySchema can derive nothing, is one that is not offered. The   *)
(* cluster is external: what it serves changes while requests are under    *)
(* way, and it has the last word on every XR.                              *)
(***************************************************************************)
EXTENDS Naturals, Sequences

CONSTANTS
  Versions,    \* names that spec.versions[] entries can have
  Described,   \* the versions whose schema describes spec.parameters
  Payloads,    \* parameters a user may fill in
  Accepts,     \* Accepts[v]: the parameters the schema of version v validates
  Users,       \* clients with one request under way each
  Names,       \* names of XRs
  MaxChanges,  \* bound: how often the XRD changes
  MaxRestarts, \* bound: how often the server restarts
  MaxSends     \* bound: how often a user sends its request

ASSUME DescribedAssumption == Described \subseteq Versions
ASSUME AcceptsAssumption == Accepts \in [Versions -> SUBSET Payloads]
ASSUME NoneAssumption == "none" \notin Versions
ASSUME BoundsAssumption ==
  MaxChanges \in Nat /\ MaxRestarts \in Nat /\ MaxSends \in Nat

VARIABLES
  history,   \* history[r]: the XRD at its revision r; the last is current
  cached,    \* the revision the cache holds the entry of, 0 when empty
  ready,     \* Cache.ready
  polling,   \* the poller: "idle", "listing" or "listed"
  listed,    \* the revision the poll under way has listed
  restarts,
  request,   \* request[u]: see Request
  late,      \* XRs whose Create was given up while the cluster may still run it
  objects    \* objects[n]: the XR named n in the cluster

poller == <<cached, ready, polling, listed>>
vars == <<history, poller, restarts, request, late, objects>>

(***************************************************************************)
(* An XRD that is offered has at least one served version, one of them the *)
(* referenceable one (Crossplane wants exactly one, and served), whether   *)
(* its schema describes parameters or not. The schema of a version is      *)
(* never edited in place (RUNBOOK 2.8).                                    *)
(***************************************************************************)
XRD ==
  {x \in [offered : BOOLEAN, served : SUBSET Versions, storage : Versions] :
     x.storage \in x.served}

Current == Len(history)

\* As if only the storage version were taken over from the XRD.
ServedAtStorageOnly(r) ==
  IF r > 0 /\ history[r].offered THEN {history[r].storage} ELSE {}

\* The versions in the entry derived from revision r: the served ones whose
\* schema describes parameters. An entry without any is not derived at all, and
\* its storage version need not be one of them.
ServedAt(r) ==
  IF r > 0 /\ history[r].offered THEN history[r].served \cap Described ELSE {}

\* GetEntrySchema finds the entry.
HasEntry == ServedAt(cached) # {}

NoObject == [version |-> "none", payload |-> "none"]
Object == [version : Versions, payload : Payloads] \cup {NoObject}

(***************************************************************************)
(* idle: no request.  filled: a template with a version, or a version the  *)
(* user knows.  sent: on its way.  applying: validated, Create is called.  *)
(* applied, refused: the cluster has decided.  answered: the user has the  *)
(* status code, 0 when the connection broke.                               *)
(***************************************************************************)
Phases == {"idle", "filled", "sent", "applying", "applied", "refused", "answered"}

NoRequest ==
  [phase |-> "idle", name |-> "none", version |-> "none", payload |-> "none",
   since |-> 0, code |-> 0, sends |-> 0]

-----------------------------------------------------------------------------
Init ==
  /\ history \in {<<x>> : x \in XRD}
  /\ cached = 0 /\ ready = FALSE
  /\ polling = "idle" /\ listed = 0
  /\ restarts = 0
  /\ request = [u \in Users |-> NoRequest]
  /\ late = {}
  /\ objects = [n \in Names |-> NoObject]

\* Somebody applies another version of the XRD, or takes its label away.
ClusterMoves ==
  /\ Current <= MaxChanges
  /\ \E x \in XRD \ {history[Current]} : history' = Append(history, x)
  /\ UNCHANGED <<poller, restarts, request, late, objects>>

-----------------------------------------------------------------------------
(***************************************************************************)
(* The poller                                                              *)
(***************************************************************************)

\* The first poll runs at once, each later one on a tick.
StartPoll ==
  /\ polling = "idle"
  /\ polling' = "listing"
  /\ UNCHANGED <<history, cached, ready, listed, restarts, request, late, objects>>

ListOk ==
  /\ polling = "listing"
  /\ polling' = "listed" /\ listed' = Current
  /\ UNCHANGED <<history, cached, ready, restarts, request, late, objects>>

\* As if the poller goroutine ended with its first failed poll.
ListFailStops ==
  /\ polling = "listing"
  /\ polling' = "stopped"
  /\ UNCHANGED <<history, cached, ready, listed, restarts, request, late, objects>>

\* As if the server were ready after its first poll, whatever its outcome.
ListFailReady ==
  /\ polling = "listing"
  /\ polling' = "idle" /\ ready' = TRUE
  /\ UNCHANGED <<history, cached, listed, restarts, request, late, objects>>

\* A failed poll is logged and leaves the cache, ready included, as it is.
ListFail ==
  /\ polling = "listing"
  /\ polling' = "idle"
  /\ UNCHANGED <<history, cached, ready, listed, restarts, request, late, objects>>

\* Cache.Swap (Seed): entry and ready change under one lock.
Swap ==
  /\ polling = "listed"
  /\ cached' = listed /\ ready' = TRUE
  /\ polling' = "idle" /\ listed' = 0
  /\ UNCHANGED <<history, restarts, request, late, objects>>

-----------------------------------------------------------------------------
(***************************************************************************)
(* Users and handlers                                                      *)
(***************************************************************************)
Set(u, r) == request' = [request EXCEPT ![u] = r]
Answer(u, code) == Set(u, [request[u] EXCEPT !.phase = "answered", !.code = code])

\* The user fills in a name and parameters for version v. "since" is a history
\* tag: the revision the version comes from.
Fill(u, v, since) ==
  \E n \in Names, p \in Payloads :
    Set(u, [NoRequest EXCEPT !.phase = "filled", !.name = n, !.payload = p,
              !.version = v, !.since = since])

\* handleTemplate answers with the storage version of the cached entry, be it
\* one of the entry's versions or not.
Template(u) ==
  /\ request[u].phase = "idle" /\ HasEntry
  /\ Fill(u, history[cached].storage, cached)
  /\ UNCHANGED <<history, poller, restarts, late, objects>>

\* A user who did not ask this server for a template.
OwnTemplate(u) ==
  /\ request[u].phase = "idle"
  /\ \E v \in Versions : Fill(u, v, 0)
  /\ UNCHANGED <<history, poller, restarts, late, objects>>

\* POST provision, for the first time, or again after an error.
Send(u) ==
  /\ \/ request[u].phase = "filled"
     \/ request[u].phase = "answered" /\ request[u].code # 201
  /\ request[u].sends < MaxSends
  /\ Set(u, [request[u] EXCEPT !.phase = "sent", !.code = 0, !.sends = @ + 1])
  /\ UNCHANGED <<history, poller, restarts, late, objects>>

\* As if the parameters were handed to the cluster unchecked.
CheckUnvalidated(u) ==
  /\ request[u].phase = "sent"
  /\ IF ~HasEntry \/ request[u].version \notin ServedAt(cached) THEN Answer(u, 404)
     ELSE Set(u, [request[u] EXCEPT !.phase = "applying"])
  /\ UNCHANGED <<history, poller, restarts, late, objects>>

\* handleProvision up to the call of Create: the entry is read once, a missing
\* entry or version is a 404, parameters the schema refuses are a 400. A body
\* that is no JSON, a 400 too, holds no request and changes nothing: left out.
Check(u) ==
  /\ request[u].phase = "sent"
  /\ IF ~HasEntry \/ request[u].version \notin ServedAt(cached) THEN Answer(u, 404)
     ELSE IF request[u].payload \notin Accepts[request[u].version] THEN Answer(u, 400)
     ELSE Set(u, [request[u] EXCEPT !.phase = "applying"])
  /\ UNCHANGED <<history, poller, restarts, late, objects>>

\* As if the XR were made in the entry's storage version.
WantedAtStorage(u) ==
  [name |-> request[u].name, payload |-> request[u].payload,
   version |-> IF HasEntry THEN history[cached].storage ELSE request[u].version]

\* The XR a handler hands to Create, in the version the request names.
Wanted(u) ==
  [name |-> request[u].name, version |-> request[u].version, payload |-> request[u].payload]

\* The cluster creates an XR: the version is served, and the name is free.
Created(x) ==
  /\ x.version \in history[Current].served
  /\ objects[x.name] = NoObject
  /\ objects' = [objects EXCEPT ![x.name] = [version |-> x.version, payload |-> x.payload]]

Create(u) ==
  /\ request[u].phase = "applying"
  /\ Created(Wanted(u))
  /\ Set(u, [request[u] EXCEPT !.phase = "applied"])
  /\ UNCHANGED <<history, poller, restarts, late>>

\* A Create nobody waits for any more is executed all the same, or lost.
CreateLate(x) ==
  /\ x \in late
  /\ Created(x) \/ UNCHANGED objects
  /\ late' = late \ {x}
  /\ UNCHANGED <<history, poller, restarts, request>>

\* The calls of Create that the handlers of the users us leave behind.
Abandoned(us) == {Wanted(u) : u \in {v \in us : request[v].phase = "applying"}}

\* Create returns an error: the name is taken, the version gone, or anything
\* else, such as a broken connection, after which it may still be executed.
CreateFails(u) ==
  /\ request[u].phase \in {"applying", "applied"}
  /\ Set(u, [request[u] EXCEPT !.phase = "refused"])
  /\ late' = late \cup Abandoned({u})
  /\ UNCHANGED <<history, poller, restarts, objects>>

Respond(u) ==
  /\ \/ request[u].phase = "applied" /\ Answer(u, 201)
     \/ request[u].phase = "refused" /\ Answer(u, 500)
  /\ UNCHANGED <<history, poller, restarts, late, objects>>

\* The connection breaks; the user cannot know how far the request got.
Disconnect(u) ==
  /\ request[u].phase \in {"sent", "applying", "applied", "refused"}
  /\ Answer(u, 0)
  /\ late' = late \cup Abandoned({u})
  /\ UNCHANGED <<history, poller, restarts, objects>>

\* The process ends and a new one starts, with an empty cache. The requests
\* under way are cut off, here or when the old process shuts down.
Restart ==
  /\ restarts < MaxRestarts
  /\ restarts' = restarts + 1
  /\ cached' = 0 /\ ready' = FALSE
  /\ polling' = "idle" /\ listed' = 0
  /\ request' = [u \in Users |->
       IF request[u].phase \in {"sent", "applying", "applied", "refused"}
         THEN [request[u] EXCEPT !.phase = "answered", !.code = 0]
         ELSE request[u]]
  /\ late' = late \cup Abandoned(Users)
  /\ UNCHANGED <<history, objects>>

-----------------------------------------------------------------------------
Poll == StartPoll \/ ListOk \/ ListFail \/ Swap

Serve(u) == Check(u) \/ Create(u) \/ CreateFails(u) \/ Respond(u)

Next ==
  \/ ClusterMoves \/ Poll \/ Restart
  \/ \E u \in Users :
       Template(u) \/ OwnTemplate(u) \/ Send(u) \/ Serve(u) \/ Disconnect(u)
  \/ \E x \in late : CreateLate(x)

Spec == Init /\ [][Next]_vars

\* The poller goroutine and the handlers run on; the cluster answers a LIST
\* that is sent again and again.
FairSpec ==
  /\ Spec
  /\ WF_vars(Poll) /\ SF_vars(ListOk)
  /\ \A u \in Users : WF_vars(Serve(u))

-----------------------------------------------------------------------------
(***************************************************************************)
(* Properties                                                              *)
(***************************************************************************)
Codes == {0, 201, 400, 404, 500}
Revisions == 0 .. MaxChanges + 1
Sends == 0 .. MaxSends

Request ==
  [phase : Phases, name : Names \cup {"none"}, version : Versions \cup {"none"},
   payload : Payloads \cup {"none"}, since : Revisions, code : Codes, sends : Sends]

TypeOK ==
  /\ history \in Seq(XRD) /\ Current \in 1 .. MaxChanges + 1
  /\ cached \in 0 .. Current /\ listed \in 0 .. Current
  /\ ready \in BOOLEAN /\ (ready <=> cached > 0)
  /\ polling \in {"idle", "listing", "listed"}
  /\ restarts \in 0 .. MaxRestarts
  /\ request \in [Users -> Request]
  /\ late \subseteq [name : Names, version : Versions, payload : Payloads]
  /\ objects \in [Names -> Object]

\* No XR gets into the cluster that its version's schema would refuse, and the
\* answers 201 and 400 tell the truth for good: the XR the user asked for is
\* there, or none such ever was, also after retries, lost answers and restarts.
AnswersTrue ==
  /\ \A n \in Names :
       objects[n] # NoObject => objects[n].payload \in Accepts[objects[n].version]
  /\ \A u \in Users :
       LET mine == [version |-> request[u].version, payload |-> request[u].payload]
       IN  /\ request[u].code = 201 => objects[request[u].name] = mine
           /\ request[u].code = 400 => \A n \in Names : objects[n] # mine

\* No XR is made that nobody asked for: whatever is repeated, left behind or
\* executed late, an XR has the name, the version and the parameters of a request
\* that its user has sent.
OnlyWhatWasAsked ==
  \A n \in Names : objects[n] # NoObject =>
    \E u \in Users :
      /\ request[u].sends > 0
      /\ Wanted(u) = [name |-> n, version |-> objects[n].version,
                       payload |-> objects[n].payload]

\* A template stays good: a server that is ready answers a request with the
\* version of a template it gave out (before a restart, too) with 404 only if
\* the XRD at some time in between was not offered, did not serve the version, or
\* served it without a schema of its parameters: deriveEntrySchema passes over
\* such a version, and handleTemplate stamps it all the same.
TemplateStaysGood ==
  [][\A u \in Users :
       /\ request[u].phase = "sent" /\ request[u].since > 0
       /\ request'[u].phase = "answered" /\ request'[u].code = 404
       /\ ready
       => \E r \in request[u].since .. Current :
            \/ ~history[r].offered
            \/ request[u].version \notin history[r].served
            \/ request[u].version \notin Described]_vars

\* "schemaVersion can be any currently served: true version, not just the current
\* storage version", and 404 is for one that "this XRD currently" does not serve
\* (RUNBOOK 2.6): a ready server refuses the version of a template with 404 only if
\* the XRD stopped serving it after the template was made.
ServedMeansAccepted ==
  [][\A u \in Users :
       /\ request[u].phase = "sent" /\ request[u].since > 0
       /\ request'[u].phase = "answered" /\ request'[u].code = 404
       /\ ready
       => \E r \in request[u].since .. Current :
            ~(history[r].offered /\ request[u].version \in history[r].served)]_vars

\* Once the XRD stops changing and the server stops restarting, the server is
\* ready and serves the current entry for good.
CurrentInTheEnd == <>[](ready /\ cached = Current)
=============================================================================
