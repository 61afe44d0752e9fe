---------------------------- MODULE ComputeStore ----------------------------
(***************************************************************************)
(* The in-memory store of compute instances (go-http-framework-comparison, *)
(* shared/domain.go) under the concurrent handlers of its six HTTP front   *)
(* ends. Every call is a goroutine that takes the store's RWMutex, looks   *)
(* at the map and changes it, and releases the lock.                       *)
(*                                                                         *)
(* Get and List return pointers into the map. Handlers read the status of  *)
(* what they point to after the lock is released, while Delete may be      *)
(* writing it: a data race. A Go string is two machine words, the address  *)
(* of its text and its length, written and read one after the other, in an *)
(* order the compiler chooses; that is how the model has them.             *)
(***************************************************************************)
EXTENDS Integers, FiniteSets

CONSTANTS
  Calls,         \* the calls that clients make, one goroutine each
  Names,         \* names of instances
  Tenants,
  Limits,        \* page sizes a client may ask for
  DefaultLimit,  \* the page size when it does not ask
  MaxLimit,      \* the largest page size that openapi.yaml allows
  Wanted         \* bound: Wanted[c], the requests that call c may be

ASSUME LimitsAssumption ==
  Limits \subseteq Int /\ MaxLimit \in Nat /\ DefaultLimit \in Limits \cap (1 .. MaxLimit)
ASSUME NamesAssumption == "none" \notin Names \cup Tenants /\ IsFiniteSet(Names)

VARIABLES
  frontEnd,    \* the front end this process is built with (fixed)
  items,       \* items[n]: the instance named n, NoInstance when there is none
  writers,     \* the calls that hold the lock for writing
  readers,     \* the calls that hold the lock for reading
  call,        \* call[c]: see Call
  earlier      \* earlier[c]: the calls answered before c was sent

vars == <<frontEnd, items, writers, readers, call, earlier>>

-----------------------------------------------------------------------------
(***************************************************************************)
(* The front ends, by what matters to the store: the flaws of a request    *)
(* they refuse, and whether a page has the size the client asked for or    *)
(* always the default. A request is unusable without a name, a tenant to   *)
(* list or a body that can be read, and odd with an unknown provider or an *)
(* empty tenant, which the generated code of the strict variants lets      *)
(* through (README, FINDING-1).                                            *)
(***************************************************************************)
EchoStandard == [refuses |-> {"unusable", "odd"}, pages |-> "default"]
EchoStrict == [refuses |-> {"unusable"}, pages |-> "asked"]
ChiStandard == [refuses |-> {"unusable", "odd"}, pages |-> "default"]
ChiStrict == [refuses |-> {"unusable"}, pages |-> "asked"]
GinStandard == [refuses |-> {"unusable", "odd"}, pages |-> "default"]
GinStrict == [refuses |-> {"unusable"}, pages |-> "asked"]

FrontEnds == {EchoStandard, EchoStrict, ChiStandard, ChiStrict, GinStandard, GinStrict}

Flaws == {"none", "odd", "unusable"}

\* The status of an instance as two words. "provisioning" is also the address
\* and the length of that text, "deleting" those of the other.
Word == {"provisioning", "deleting"}
Instance == [tenant : Tenants, text : Word, length : Word]
Deleting == {i \in Instance : i.text = "deleting" /\ i.length = "deleting"}
NoInstance == [tenant |-> "none", text |-> "none", length |-> "none"]

Requests ==
  [op : {"create"}, name : Names, tenant : Tenants, flaw : Flaws] \cup
  [op : {"get", "delete"}, name : Names, flaw : {"none"}] \cup
  [op : {"list"}, tenant : Tenants, limit : Limits, flaw : {"none", "unusable"}]

ASSUME WantedAssumption == Wanted \in [Calls -> SUBSET Requests]

NoRequest == [op |-> "none"]

(***************************************************************************)
(* unsent: the client has not asked yet.  sent: no lock yet.  locked: in   *)
(* the store's method.  inserting, marking: past its checks.  encoding:    *)
(* the lock is released, the pointers are being read.                      *)
(***************************************************************************)
Phases ==
  {"unsent", "sent", "locked", "inserting", "marking", "encoding", "answered"}

\* left: the instances still to be encoded.  half: the words read so far of the
\* one being encoded.  body: what has been encoded.
Unread == [name |-> "none", text |-> "none", length |-> "none"]
NoCall ==
  [request |-> NoRequest, phase |-> "unsent", code |-> 0, left |-> {},
   half |-> Unread, body |-> {}]

-----------------------------------------------------------------------------
Init ==
  /\ frontEnd \in FrontEnds
  /\ items = [n \in Names |-> NoInstance]
  /\ writers = {} /\ readers = {}
  /\ call = [c \in Calls |-> NoCall]
  /\ earlier = [c \in Calls |-> {}]

Request(c) == call[c].request
Name(c) == Request(c).name
Exists(n) == items[n] # NoInstance
Writes(c) == Request(c).op \in {"create", "delete"}
At(c, phase) == call[c].phase = phase
In(c, op) == At(c, "locked") /\ Request(c).op = op

Goto(c, phase) == call' = [call EXCEPT ![c].phase = phase]
Answer(c, code) == call' = [call EXCEPT ![c].phase = "answered", ![c].code = code]

\* The deferred Unlock or RUnlock of the store's methods.
Unlock(c) == writers' = writers \ {c} /\ readers' = readers \ {c}
KeepLock == UNCHANGED <<writers, readers>>

-----------------------------------------------------------------------------
\* A client sends its request; a goroutine begins to serve it.
Send(c) ==
  /\ At(c, "unsent")
  /\ \E r \in Wanted[c] : call' = [call EXCEPT ![c].phase = "sent", ![c].request = r]
  /\ earlier' = [earlier EXCEPT ![c] = {d \in Calls : At(d, "answered")}]
  /\ UNCHANGED <<frontEnd, items, writers, readers>>

Refused(c) == Request(c).flaw \in frontEnd.refuses

\* The front end checks the request before it calls the store.
Refuse(c) ==
  /\ At(c, "sent") /\ Refused(c)
  /\ Answer(c, 400)
  /\ UNCHANGED <<frontEnd, items, writers, readers, earlier>>

\* As if Create took the lock for reading only.
LockShared(c) ==
  /\ At(c, "sent") /\ ~Refused(c) /\ writers = {}
  /\ IF Request(c).op = "delete"
       THEN readers = {} /\ writers' = {c} /\ UNCHANGED readers
       ELSE readers' = readers \cup {c} /\ UNCHANGED writers
  /\ Goto(c, "locked")
  /\ UNCHANGED <<frontEnd, items, earlier>>

\* Create and Delete take the lock for themselves, Get and List share it.
Lock(c) ==
  /\ At(c, "sent") /\ ~Refused(c) /\ writers = {}
  /\ IF Writes(c)
       THEN readers = {} /\ writers' = {c} /\ UNCHANGED readers
       ELSE readers' = readers \cup {c} /\ UNCHANGED writers
  /\ Goto(c, "locked")
  /\ UNCHANGED <<frontEnd, items, earlier>>

\* As if Create left out the status.
NewInstanceBare(c) ==
  [tenant |-> Request(c).tenant, text |-> "", length |-> ""]

NewInstance(c) ==
  [tenant |-> Request(c).tenant, text |-> "provisioning", length |-> "provisioning"]

\* As if the early return of Create came before its deferred Unlock.
CreateTakenLocked(c) ==
  /\ In(c, "create") /\ Exists(Name(c))
  /\ Answer(c, 409)
  /\ UNCHANGED <<frontEnd, items, writers, readers, earlier>>

CreateTaken(c) ==
  /\ In(c, "create") /\ Exists(Name(c))
  /\ Answer(c, 409) /\ Unlock(c)
  /\ UNCHANGED <<frontEnd, items, earlier>>

\* Nothing by that name: the instance is built, then put into the map.
CreateFree(c) ==
  /\ In(c, "create") /\ ~Exists(Name(c))
  /\ Goto(c, "inserting")
  /\ KeepLock
  /\ UNCHANGED <<frontEnd, items, earlier>>

Insert(c) ==
  /\ At(c, "inserting")
  /\ items' = [items EXCEPT ![Name(c)] = NewInstance(c)]
  /\ Answer(c, 202) /\ Unlock(c)
  /\ UNCHANGED <<frontEnd, earlier>>

\* Get and Delete of a name there is nothing by.
Missing(c) ==
  /\ In(c, "get") \/ In(c, "delete")
  /\ ~Exists(Name(c))
  /\ Answer(c, 404) /\ Unlock(c)
  /\ UNCHANGED <<frontEnd, items, earlier>>

DeleteTwice(c) ==
  /\ In(c, "delete") /\ items[Name(c)].text = "deleting"
  /\ Answer(c, 409) /\ Unlock(c)
  /\ UNCHANGED <<frontEnd, items, earlier>>

DeleteFound(c) ==
  /\ In(c, "delete") /\ items[Name(c)].text = "provisioning"
  /\ Goto(c, "marking")
  /\ KeepLock
  /\ UNCHANGED <<frontEnd, items, earlier>>

\* As if Delete took the instance out of the map.
MarkRemoves(c) ==
  /\ At(c, "marking")
  /\ items' = [items EXCEPT ![Name(c)] = NoInstance]
  /\ Answer(c, 204) /\ Unlock(c)
  /\ UNCHANGED <<frontEnd, earlier>>

\* As if Delete returned with half of the status written.
MarkHalf(c) ==
  /\ At(c, "marking")
  /\ \E w \in {"text", "length"} :
       /\ items[Name(c)][w] # "deleting"
       /\ items' = [items EXCEPT ![Name(c)][w] = "deleting"]
  /\ Answer(c, 204) /\ Unlock(c)
  /\ UNCHANGED <<frontEnd, earlier>>

\* inst.Status = "deleting", one word after the other; then Delete returns.
Mark(c) ==
  /\ At(c, "marking")
  /\ \E w \in {"text", "length"} :
       /\ items[Name(c)][w] # "deleting"
       /\ items' = [items EXCEPT ![Name(c)][w] = "deleting"]
  /\ IF items'[Name(c)] \in Deleting THEN Answer(c, 204) /\ Unlock(c)
                                    ELSE KeepLock /\ UNCHANGED call
  /\ UNCHANGED <<frontEnd, earlier>>

\* Pointers leave the store, and the lock is released.
Point(c, names) ==
  /\ call' = [call EXCEPT ![c].phase = "encoding", ![c].left = names]
  /\ Unlock(c)
  /\ UNCHANGED <<frontEnd, items, earlier>>

GetFound(c) == In(c, "get") /\ Exists(Name(c)) /\ Point(c, {Name(c)})

Owned(t) == {n \in Names : items[n].tenant = t}

Limit(c) == IF frontEnd.pages = "asked" THEN Request(c).limit ELSE DefaultLimit

\* As if the limit were compared with > in the place of >=.
FullAfterOneMore(c, names) == Cardinality(names) > Limit(c) /\ names # {}

\* Is the loop of List over after it has appended the last of names?
Full(c, names) == Cardinality(names) >= Limit(c) /\ names # {}

\* List walks the map in any order, until the page is full or the map is done.
List(c) ==
  /\ In(c, "list")
  /\ \E names \in SUBSET Owned(Request(c).tenant) :
       /\ names = Owned(Request(c).tenant) \/ Full(c, names)
       /\ \A n \in names : ~Full(c, names \ {n})
       /\ Point(c, names)

Encoded(c, read) ==
  IF "none" \in {read.text, read.length}
    THEN [call EXCEPT ![c].half = read]
    ELSE [call EXCEPT ![c].half = Unread, ![c].left = @ \ {read.name}, ![c].body = @ \cup {read}]

\* The handler reads the status of an instance it points to, in two steps and
\* without the lock, and has it in the body when it has both words.
Encode(c) ==
  /\ At(c, "encoding")
  /\ \E n \in call[c].left, w \in {"text", "length"} :
       /\ call[c].half.name \in {"none", n} /\ call[c].half[w] = "none"
       /\ call' = Encoded(c, [call[c].half EXCEPT !.name = n, ![w] = items[n][w]])
  /\ KeepLock
  /\ UNCHANGED <<frontEnd, items, earlier>>

Respond(c) ==
  /\ At(c, "encoding") /\ call[c].left = {}
  /\ Answer(c, 200)
  /\ UNCHANGED <<frontEnd, items, writers, readers, earlier>>

Serve(c) ==
  \/ Refuse(c) \/ Lock(c)
  \/ CreateTaken(c) \/ CreateFree(c) \/ Insert(c)
  \/ Missing(c) \/ DeleteTwice(c) \/ DeleteFound(c) \/ Mark(c)
  \/ GetFound(c) \/ List(c) \/ Encode(c) \/ Respond(c)

Next == \E c \in Calls : Send(c) \/ Serve(c)

Spec == Init /\ [][Next]_vars

\* Goroutines run on, and a sync.RWMutex starves nobody: a waiting writer keeps
\* new readers out, and a mutex is handed to who has waited long.
FairSpec == Spec /\ \A c \in Calls : WF_vars(Serve(c)) /\ SF_vars(Lock(c))

-----------------------------------------------------------------------------
(***************************************************************************)
(* Properties                                                              *)
(***************************************************************************)
Read ==
  [name : Names \cup {"none"}, text : Word \cup {"none"}, length : Word \cup {"none"}]

Codes == {0, 200, 202, 204, 400, 404, 409}

Call ==
  [request : Requests \cup {NoRequest}, phase : Phases, code : Codes,
   left : SUBSET Names, half : Read, body : SUBSET Read]

TypeOK ==
  /\ frontEnd \in FrontEnds
  /\ items \in [Names -> Instance \cup {NoInstance}]
  /\ writers \subseteq Calls /\ readers \subseteq Calls
  /\ call \in [Calls -> Call]
  /\ earlier \in [Calls -> SUBSET Calls]

\* A call has its verdict when the store has decided on it.
Verdict(c) ==
  IF ~At(c, "encoding") /\ ~At(c, "answered") THEN [code |-> 0, name |-> "none"]
  ELSE [code |-> IF At(c, "encoding") THEN 200 ELSE call[c].code,
        name |-> IF Request(c).op = "list" \/ call[c].code = 400 THEN "none" ELSE Name(c)]

Stage(n) ==
  IF ~Exists(n) THEN "absent" ELSE IF items[n] \in Deleting THEN "deleting" ELSE "provisioning"

Registry == INSTANCE InstanceRegistry WITH
  stage <- [n \in Names |-> Stage(n)],
  owner <- [n \in Names |-> items[n].tenant],
  verdict <- [c \in Calls |-> Verdict(c)]

\* Every call of the store takes effect at one instant, however the goroutines
\* interleave: of several creations or deletions of a name one succeeds, the
\* others are told 409, and no instance changes its tenant or is forgotten.
ImplementsRegistry == Registry!Spec

\* The answers d and c got to calls about the same name.
Answered(c) == At(c, "answered") /\ call[c].code # 400
About(d, n) == Answered(d) /\ Request(d).op # "list" /\ Name(d) = n

\* A client that was told of an instance finds it in every later call, and finds
\* it wholly deleting when it was told of its deletion: what races is only what
\* overlaps.
AnswersInOrder ==
  \A c \in Calls, n \in Names : \A d \in earlier[c] :
    About(c, n) /\ About(d, n) /\ call[d].code # 404 =>
      /\ call[c].code \in [create |-> {409}, get |-> {200}, delete |-> {204, 409}][Request(c).op]
      /\ Request(d).op = "delete" =>
           /\ call[c].code # 204
           /\ \A r \in call[c].body : r.text = "deleting" /\ r.length = "deleting"

Listed(c) == Answered(c) /\ Request(c).op = "list"
Page(c) == {r.name : r \in call[c].body}

\* openapi.yaml: limit has minimum 1 and maximum 100 (MaxLimit here).
Allowed(limit) == limit \in 1 .. MaxLimit

\* The limit the client sent is allowed, and is the one List is called with.
Honoured(c) == Allowed(Request(c).limit) /\ Limit(c) = Request(c).limit

\* A page holds instances of the tenant only. Where the client's limit is one that
\* openapi.yaml allows and reaches the store, the page has no more than that many,
\* and misses nothing that was created before, unless it is full.
PagesExact ==
  \A c \in Calls : Listed(c) =>
    /\ Page(c) \subseteq Owned(Request(c).tenant)
    /\ Honoured(c) =>
         /\ Cardinality(Page(c)) <= Request(c).limit
         /\ \A d \in earlier[c] :
              /\ Request(d).op = "create" /\ call[d].code = 202
              /\ Request(d).tenant = Request(c).tenant
              => Name(d) \in Page(c) \/ Cardinality(Page(c)) = Request(c).limit

\* d writes, or has written, the status of the instance named n.
Deletes(d, n) ==
  /\ Request(d).op = "delete" /\ Name(d) = n
  /\ At(d, "marking") \/ (At(d, "answered") /\ call[d].code = 204)

\* What the race can do: a status that is none of the texts is read only by a call
\* that overlaps the deletion, neither being answered before the other was sent.
TornOnlyByOverlap ==
  \A c \in Calls : \A r \in call[c].body : r.text # r.length =>
    \E d \in Calls : Deletes(d, r.name) /\ d \notin earlier[c] /\ c \notin earlier[d]

\* No call waits for the lock for ever, whatever the others are answered.
EveryCallAnswered ==
  \A c \in Calls : At(c, "sent") ~> At(c, "answered")

\* "status: enum: [provisioning, running, deleting, deleted]" (openapi.yaml): a
\* status in an answer is one of the texts, with its own length.
StatusAsDocumented ==
  \A c \in Calls : \A r \in call[c].body : r.text = r.length

\* "limit: minimum: 1, maximum: 100" and "400: Invalid query parameters"
\* (openapi.yaml): a page is answered to an allowed limit only, and has no more
\* instances than the client asked for.
LimitAsDocumented ==
  \A c \in Calls : Listed(c) =>
    Allowed(Request(c).limit) /\ Cardinality(Page(c)) <= Request(c).limit
=============================================================================
