----------------------- MODULE VersionedCatalogProofs -----------------------
(***************************************************************************)
(* The safety of VersionedCatalog for any number of users, versions,       *)
(* payloads, changes of the XRD, restarts and retries.                     *)
(***************************************************************************)
EXTENDS VersionedCatalog, TLAPS

\* What a user asks for once it has filled in a request.
XR == [name : Names, version : Versions, payload : Payloads]

\* The object a user's request is to create.
Mine(u) == [version |-> request[u].version, payload |-> request[u].payload]

\* No poll goes back behind a template that was given out: the revision a
\* template comes from is never ahead of what a ready server, or the poll that
\* is about to be swapped in, has seen.
Forward ==
  /\ \A u \in Users : request[u].since <= Current
  /\ ready => \A u \in Users : request[u].since <= cached
  /\ polling = "listed" =>
       listed > 0 /\ cached <= listed /\ \A u \in Users : request[u].since <= listed

\* Everything on its way to the cluster has been validated, and an answer is
\* given out only with its reason, which lasts.
Honest ==
  /\ \A n \in Names :
       objects[n] # NoObject => objects[n].payload \in Accepts[objects[n].version]
  /\ \A x \in late : x.payload \in Accepts[x.version]
  /\ \A u \in Users :
       /\ request[u].phase # "idle" => Wanted(u) \in XR
       /\ request[u].phase = "applying" =>
            request[u].payload \in Accepts[request[u].version]
       /\ request[u].phase = "applied" \/ request[u].code = 201 =>
            request[u].name \in Names /\ objects[request[u].name] = Mine(u)
       /\ request[u].code = 400 =>
            request[u].payload \notin Accepts[request[u].version]
       /\ request[u].code # 0 => request[u].phase = "answered"

IInv == TypeOK /\ Forward /\ Honest

-----------------------------------------------------------------------------
\* The initial states satisfy the inductive invariant.
LEMMA InitIInv == Init => IInv
<1> SUFFICES ASSUME Init PROVE IInv
  OBVIOUS
<1> USE BoundsAssumption
<1>1. PICK x \in XRD : history = <<x>>
  BY DEF Init
<1>2. history \in Seq(XRD) /\ Current = 1
  BY <1>1 DEF Current
<1>3. NoRequest \in Request
  BY DEF NoRequest, Request, Phases, Codes, Revisions, Sends
<1>4. request \in [Users -> Request]
  BY <1>3 DEF Init
<1>5. objects \in [Names -> Object]
  BY DEF Init, Object
<1>6. TypeOK
  <2>1. Current \in 1 .. MaxChanges + 1 /\ cached \in 0 .. Current /\ listed \in 0 .. Current
    BY <1>2 DEF Init
  <2>2. restarts \in 0 .. MaxRestarts
    BY DEF Init
  <2>4. ready \in BOOLEAN /\ (ready <=> cached > 0)
    <3>1. ready = FALSE /\ cached = 0
      BY DEF Init
    <3>2. ~(0 > 0)
      OBVIOUS
    <3>3. QED
      BY <3>1, <3>2, Zenon
  <2>3. late \subseteq [name : Names, version : Versions, payload : Payloads]
    BY DEF Init
  <2>5. QED
    BY <1>2, <1>4, <1>5, <2>1, <2>2, <2>3, <2>4 DEF Init, TypeOK
<1>7. Forward /\ Honest
  BY <1>2 DEF Init, Forward, Honest, NoRequest
<1>8. QED
  BY <1>6, <1>7 DEF IInv

\* Replacing one user's request leaves the others alone.
LEMMA SetOne ==
  ASSUME request \in [Users -> Request], NEW u \in Users, NEW r \in Request, Set(u, r)
  PROVE  /\ request' \in [Users -> Request]
         /\ request'[u] = r
         /\ \A v \in Users : v # u => request'[v] = request[v]
BY DEF Set

\* An answer changes the phase and the code only.
LEMMA AnswerOne ==
  ASSUME request \in [Users -> Request], NEW u \in Users,
         NEW c \in Codes, Answer(u, c)
  PROVE  /\ request' \in [Users -> Request]
         /\ request'[u] = [request[u] EXCEPT !.phase = "answered", !.code = c]
         /\ \A v \in Users : v # u => request'[v] = request[v]
<1>1. [request[u] EXCEPT !.phase = "answered", !.code = c] \in Request
  <2>1. request[u] \in Request
    OBVIOUS
  <2>2. QED
    BY <2>1 DEF Request, Phases
<1>2. QED
  BY <1>1, SetOne DEF Answer

\* What is left behind by handlers that have validated is well-formed.
LEMMA AbandonedXR ==
  ASSUME IInv, NEW us \in SUBSET Users
  PROVE  /\ Abandoned(us) \subseteq XR
         /\ \A x \in Abandoned(us) : x.payload \in Accepts[x.version]
BY DEF IInv, Honest, Abandoned, Wanted

\* The cluster only adds objects, and only well-formed ones.
LEMMA CreatedGrows ==
  ASSUME IInv, NEW x \in XR, x.payload \in Accepts[x.version], Created(x)
  PROVE  /\ objects' \in [Names -> Object]
         /\ objects'[x.name] = [version |-> x.version, payload |-> x.payload]
         /\ \A n \in Names : objects[n] # NoObject => objects'[n] = objects[n]
         /\ \A n \in Names : objects'[n] # NoObject =>
              objects'[n].payload \in Accepts[objects'[n].version]
<1>1. objects \in [Names -> Object]
  BY DEF IInv, TypeOK
<1>2. [version |-> x.version, payload |-> x.payload] \in Object
  BY DEF XR, Object
<1>3. x.name \in Names
  BY DEF XR
<1>4. /\ objects[x.name] = NoObject
      /\ objects' = [objects EXCEPT ![x.name] = [version |-> x.version, payload |-> x.payload]]
  BY DEF Created
<1>5. \A n \in Names : n # x.name => objects'[n] = objects[n]
  BY <1>1, <1>4
<1>6. objects'[x.name] = [version |-> x.version, payload |-> x.payload]
  BY <1>1, <1>3, <1>4
<1>7. \A n \in Names : objects'[n] # NoObject =>
        objects'[n].payload \in Accepts[objects'[n].version]
  BY <1>5, <1>6 DEF IInv, Honest
<1>8. QED
  BY <1>1, <1>2, <1>4, <1>5, <1>6, <1>7

\* A step that leaves the requests, or only empties codes, keeps what the
\* answers rest on as long as no object is lost.
LEMMA HonestOne ==
  ASSUME IInv, NEW u \in Users,
         request' \in [Users -> Request],
         \A v \in Users : v # u => request'[v] = request[v],
         \A n \in Names : objects[n] # NoObject => objects'[n] = objects[n],
         \A n \in Names :
           objects'[n] # NoObject => objects'[n].payload \in Accepts[objects'[n].version],
         \A x \in late' : x.payload \in Accepts[x.version],
         /\ request'[u].phase # "idle" => Wanted(u)' \in XR
         /\ request'[u].phase = "applying" =>
              request'[u].payload \in Accepts[request'[u].version]
         /\ request'[u].phase = "applied" \/ request'[u].code = 201 =>
              request'[u].name \in Names /\ objects'[request'[u].name] = Mine(u)'
         /\ request'[u].code = 400 =>
              request'[u].payload \notin Accepts[request'[u].version]
         /\ request'[u].code # 0 => request'[u].phase = "answered"
  PROVE  Honest'
<1>1. \A v \in Users : v # u => Wanted(v)' = Wanted(v) /\ Mine(v)' = Mine(v)
  BY DEF Wanted, Mine
<1>2. \A v \in Users :
        request[v].phase = "applied" \/ request[v].code = 201 => Mine(v) # NoObject
  <2> SUFFICES ASSUME NEW v \in Users,
                      request[v].phase = "applied" \/ request[v].code = 201
               PROVE  Mine(v) # NoObject
    OBVIOUS
  <2>1. request[v].phase # "idle"
    BY DEF IInv, Honest
  <2>2. request[v].version \in Versions
    BY <2>1 DEF IInv, Honest, Wanted, XR
  <2>3. QED
    BY <2>2, NoneAssumption DEF Mine, NoObject
<1>3. \A v \in Users :
        /\ request'[v].phase # "idle" => Wanted(v)' \in XR
        /\ request'[v].phase = "applying" =>
             request'[v].payload \in Accepts[request'[v].version]
        /\ request'[v].phase = "applied" \/ request'[v].code = 201 =>
             request'[v].name \in Names /\ objects'[request'[v].name] = Mine(v)'
        /\ request'[v].code = 400 =>
             request'[v].payload \notin Accepts[request'[v].version]
        /\ request'[v].code # 0 => request'[v].phase = "answered"
  <2> SUFFICES ASSUME NEW v \in Users, v # u
               PROVE  /\ request'[v].phase # "idle" => Wanted(v)' \in XR
                      /\ request'[v].phase = "applying" =>
                           request'[v].payload \in Accepts[request'[v].version]
                      /\ request'[v].phase = "applied" \/ request'[v].code = 201 =>
                           request'[v].name \in Names /\ objects'[request'[v].name] = Mine(v)'
                      /\ request'[v].code = 400 =>
                           request'[v].payload \notin Accepts[request'[v].version]
                      /\ request'[v].code # 0 => request'[v].phase = "answered"
    OBVIOUS
  <2>1. request'[v] = request[v] /\ Wanted(v)' = Wanted(v) /\ Mine(v)' = Mine(v)
    BY <1>1
  <2>2. QED
    BY <1>2, <2>1 DEF IInv, Honest
<1>4. QED
  BY <1>3 DEF Honest

\* The types do not depend on the request under way as such.
LEMMA TypeOfRequests ==
  ASSUME IInv, request' \in [Users -> Request],
         objects' \in [Names -> Object], late' \subseteq XR,
         UNCHANGED <<history, poller, restarts>>
  PROVE  TypeOK'
BY DEF IInv, TypeOK, Current, poller, XR

\* Nor does the order of the revisions, when the requests keep theirs.
LEMMA ForwardOfRequests ==
  ASSUME IInv, UNCHANGED <<history, poller>>,
         \A u \in Users : request'[u].since = request[u].since
  PROVE  Forward'
BY DEF IInv, Forward, Current, poller

-----------------------------------------------------------------------------
\* The poller and the operators of the cluster: no request and no object changes.
LEMMA PollIInv ==
  ASSUME IInv, ClusterMoves \/ Poll
  PROVE  IInv'
<1> USE DEF IInv
<1>1. UNCHANGED <<restarts, request, late, objects>>
  BY DEF ClusterMoves, Poll, StartPoll, ListOk, ListFail, Swap
<1>2. Honest'
  BY <1>1 DEF Honest, Wanted, Mine
<1>3. CASE ClusterMoves
  <2>1. PICK x \in XRD : history' = Append(history, x)
    BY <1>3 DEF ClusterMoves
  <2>2. history' \in Seq(XRD) /\ Current' = Current + 1 /\ Current <= MaxChanges
    BY <1>3, <2>1 DEF ClusterMoves, TypeOK, Current
  <2>3. Current' \in 1 .. MaxChanges + 1 /\ cached \in 0 .. Current' /\ listed \in 0 .. Current'
    BY <2>2, BoundsAssumption DEF TypeOK
  <2>4. UNCHANGED poller
    BY <1>3 DEF ClusterMoves
  <2>5. TypeOK'
    BY <1>1, <2>2, <2>3, <2>4 DEF TypeOK, poller
  <2>6. \A u \in Users : request[u].since \in Nat
    BY BoundsAssumption DEF TypeOK, Request, Revisions
  <2>7. Forward'
    BY <1>1, <2>2, <2>4, <2>6 DEF Forward, TypeOK, poller
  <2>8. QED
    BY <1>2, <2>5, <2>7
<1>4. CASE StartPoll \/ ListFail
  <2>1. /\ UNCHANGED <<history, cached, ready, listed>>
        /\ polling' \in {"listing", "idle"}
    BY <1>4 DEF StartPoll, ListFail
  <2>2. TypeOK'
    BY <1>1, <2>1 DEF TypeOK, Current
  <2>3. Forward'
    BY <1>1, <2>1 DEF Forward, Current
  <2>4. QED
    BY <1>2, <2>2, <2>3
<1>5. CASE ListOk
  <2>1. /\ UNCHANGED <<history, cached, ready>>
        /\ polling' = "listed" /\ listed' = Current
    BY <1>5 DEF ListOk
  <2>2. TypeOK'
    BY <1>1, <2>1, BoundsAssumption DEF TypeOK, Current
  <2>3. Forward'
    BY <1>1, <2>1 DEF Forward, Current, TypeOK
  <2>4. QED
    BY <1>2, <2>2, <2>3
<1>6. CASE Swap
  <2>1. /\ polling = "listed" /\ UNCHANGED history
        /\ cached' = listed /\ ready' = TRUE
        /\ polling' = "idle" /\ listed' = 0
    BY <1>6 DEF Swap
  <2>2. listed > 0
    BY <2>1 DEF Forward
  <2>3. TypeOK'
    BY <1>1, <2>1, <2>2 DEF TypeOK, Current
  <2>4. Forward'
    BY <1>1, <2>1 DEF Forward, Current
  <2>5. QED
    BY <1>2, <2>3, <2>4
<1>7. QED
  BY <1>3, <1>4, <1>5, <1>6 DEF Poll

-----------------------------------------------------------------------------
\* A template, or a version the user knows of, becomes a request.
LEMMA FillIInv ==
  ASSUME IInv, NEW u \in Users, Template(u) \/ OwnTemplate(u)
  PROVE  IInv'
<1> USE DEF IInv
<1>1. /\ UNCHANGED <<history, poller, restarts, late, objects>>
      /\ request[u].phase = "idle"
  BY DEF Template, OwnTemplate
<1>2. PICK v \in Versions, s \in {0, cached} : Fill(u, v, s)
  <2>1. CASE OwnTemplate(u)
    BY <2>1 DEF OwnTemplate
  <2>2. CASE Template(u)
    <3>1. HasEntry /\ Fill(u, history[cached].storage, cached)
      BY <2>2 DEF Template
    <3>2. cached \in 1 .. Len(history) /\ history \in Seq(XRD)
      BY <3>1 DEF HasEntry, ServedAt, TypeOK, Current
    <3>3. history[cached].storage \in Versions
      BY <3>2 DEF XRD
    <3>4. QED
      BY <3>1, <3>3
  <2>3. QED
    BY <2>1, <2>2
<1>2a. PICK n \in Names, p \in Payloads :
         Set(u, [NoRequest EXCEPT !.phase = "filled", !.name = n, !.payload = p,
                   !.version = v, !.since = s])
  BY <1>2 DEF Fill
<1> DEFINE r == [NoRequest EXCEPT !.phase = "filled", !.name = n, !.payload = p,
                                  !.version = v, !.since = s]
<1>3. /\ r.phase = "filled" /\ r.name = n /\ r.version = v /\ r.payload = p
      /\ r.since = s /\ r.code = 0
  BY DEF NoRequest
<1>4. r \in Request
  <2>1. s \in Revisions
    BY BoundsAssumption DEF TypeOK, Revisions
  <2>2. 0 \in Sends /\ 0 \in Codes /\ "filled" \in Phases
    BY BoundsAssumption DEF Sends, Codes, Phases
  <2>3. QED
    BY <2>1, <2>2 DEF NoRequest, Request
<1> HIDE DEF r
<1>5. /\ request' \in [Users -> Request] /\ request'[u] = r
      /\ \A w \in Users : w # u => request'[w] = request[w]
  BY <1>4, <1>2a, SetOne DEF TypeOK, r
<1>6. TypeOK'
  BY <1>1, <1>5, TypeOfRequests DEF TypeOK, XR
<1>7. Forward'
  <2>1. s <= Current /\ (ready => s <= cached) /\ (polling = "listed" => s <= listed)
    BY DEF Forward, TypeOK
  <2>2. QED
    BY <1>1, <1>3, <1>5, <2>1 DEF Forward, Current, poller
<1>8. Honest'
  <2>1. Wanted(u)' \in XR
    BY <1>3, <1>5 DEF Wanted, XR
  <2>2. QED
    BY <1>1, <1>3, <1>5, <2>1, HonestOne DEF Honest
<1>9. QED
  BY <1>6, <1>7, <1>8

\* The request is sent, or sent again.
LEMMA SendIInv ==
  ASSUME IInv, NEW u \in Users, Send(u)
  PROVE  IInv'
<1> USE DEF IInv
<1> DEFINE r == [request[u] EXCEPT !.phase = "sent", !.code = 0, !.sends = @ + 1]
<1>1. /\ UNCHANGED <<history, poller, restarts, late, objects>>
      /\ request[u].phase # "idle" /\ request[u].sends < MaxSends /\ Set(u, r)
  BY DEF Send
<1>2. request[u] \in Request
  BY DEF TypeOK
<1>3. /\ r.phase = "sent" /\ r.code = 0 /\ r.since = request[u].since
      /\ r.name = request[u].name /\ r.version = request[u].version
      /\ r.payload = request[u].payload
  BY <1>2 DEF Request
<1>4. r \in Request
  <2>1. request[u].sends + 1 \in Sends
    BY <1>1, <1>2, BoundsAssumption DEF Request, Sends
  <2>2. 0 \in Codes /\ "sent" \in Phases
    BY DEF Codes, Phases
  <2>3. QED
    BY <1>2, <2>1, <2>2 DEF Request
<1> HIDE DEF r
<1>5. /\ request' \in [Users -> Request] /\ request'[u] = r
      /\ \A w \in Users : w # u => request'[w] = request[w]
  BY <1>1, <1>4, SetOne DEF TypeOK
<1>6. TypeOK'
  BY <1>1, <1>5, TypeOfRequests DEF TypeOK, XR
<1>7. Forward'
  BY <1>1, <1>3, <1>5, ForwardOfRequests
<1>8. Honest'
  <2>1. Wanted(u)' \in XR
    BY <1>1, <1>3, <1>5 DEF Honest, Wanted
  <2>2. QED
    BY <1>1, <1>3, <1>5, <2>1, HonestOne DEF Honest
<1>9. QED
  BY <1>6, <1>7, <1>8

\* A request that is answered, for a reason that is given.
LEMMA AnswerIInv ==
  ASSUME IInv, NEW u \in Users, NEW c \in Codes, Answer(u, c),
         UNCHANGED <<history, poller, restarts, objects>>,
         late' \subseteq XR, \A x \in late' : x.payload \in Accepts[x.version],
         request[u].phase # "idle",
         c = 201 => request[u].phase = "applied",
         c = 400 => request[u].payload \notin Accepts[request[u].version]
  PROVE  IInv'
<1> USE DEF IInv
<1>1. /\ request' \in [Users -> Request]
      /\ request'[u] = [request[u] EXCEPT !.phase = "answered", !.code = c]
      /\ \A v \in Users : v # u => request'[v] = request[v]
  BY AnswerOne DEF TypeOK
<1>2. request[u] \in Request
  BY DEF TypeOK
<1>3. /\ request'[u].phase = "answered" /\ request'[u].code = c
      /\ request'[u].since = request[u].since
      /\ request'[u].name = request[u].name /\ request'[u].version = request[u].version
      /\ request'[u].payload = request[u].payload
  BY <1>1, <1>2 DEF Request
<1>4. TypeOK'
  BY <1>1, TypeOfRequests DEF TypeOK
<1>5. Forward'
  BY <1>1, <1>3, ForwardOfRequests
<1>6. Honest'
  <2>1. Wanted(u)' \in XR /\ Mine(u)' = Mine(u)
    BY <1>3 DEF Honest, Wanted, Mine
  <2>2. c = 201 => request[u].name \in Names /\ objects[request[u].name] = Mine(u)
    BY DEF Honest
  <2>3. /\ objects' = objects
        /\ \A n \in Names :
             objects[n] # NoObject => objects[n].payload \in Accepts[objects[n].version]
    BY DEF Honest
  <2>4. c = 400 => request'[u].payload \notin Accepts[request'[u].version]
    BY <1>3
  <2>5. c = 201 => request'[u].name \in Names /\ objects'[request'[u].name] = Mine(u)'
    BY <1>3, <2>1, <2>2
  <2>6. request'[u].phase = "answered" /\ request'[u].code = c
    BY <1>3
  <2>7. \A n \in Names : objects[n] # NoObject => objects'[n] = objects[n]
    BY <2>3
  <2>8. \A n \in Names :
          objects'[n] # NoObject => objects'[n].payload \in Accepts[objects'[n].version]
    BY <2>3
  <2>9. /\ request'[u].phase # "idle" => Wanted(u)' \in XR
        /\ request'[u].phase = "applying" =>
             request'[u].payload \in Accepts[request'[u].version]
        /\ request'[u].phase = "applied" \/ request'[u].code = 201 =>
             request'[u].name \in Names /\ objects'[request'[u].name] = Mine(u)'
        /\ request'[u].code = 400 =>
             request'[u].payload \notin Accepts[request'[u].version]
        /\ request'[u].code # 0 => request'[u].phase = "answered"
    BY <2>1, <2>4, <2>5, <2>6
  <2>10. QED
    BY <1>1, <2>7, <2>8, <2>9, HonestOne
<1>7. QED
  BY <1>4, <1>5, <1>6

\* A request that goes on within its handler: validated, decided by the cluster,
\* or refused by it.
LEMMA AdvanceIInv ==
  ASSUME IInv, NEW u \in Users, NEW phase \in {"applying", "applied", "refused"},
         Set(u, [request[u] EXCEPT !.phase = phase]),
         UNCHANGED <<history, poller, restarts>>,
         objects' \in [Names -> Object],
         \A n \in Names : objects[n] # NoObject => objects'[n] = objects[n],
         \A n \in Names :
           objects'[n] # NoObject => objects'[n].payload \in Accepts[objects'[n].version],
         late' \subseteq XR, \A x \in late' : x.payload \in Accepts[x.version],
         request[u].phase \in {"sent", "applying", "applied"},
         phase = "applying" => request[u].payload \in Accepts[request[u].version],
         phase = "applied" =>
           request[u].name \in Names /\ objects'[request[u].name] = Mine(u)
  PROVE  IInv'
<1> USE DEF IInv
<1> DEFINE r == [request[u] EXCEPT !.phase = phase]
<1>1. request[u] \in Request /\ request[u].code = 0
  BY DEF TypeOK, Honest
<1>2. /\ r.phase = phase /\ r.code = 0 /\ r.since = request[u].since
      /\ r.name = request[u].name /\ r.version = request[u].version
      /\ r.payload = request[u].payload
  BY <1>1 DEF Request
<1>3. r \in Request
  <2>1. phase \in Phases
    BY DEF Phases
  <2>2. QED
    BY <1>1, <2>1 DEF Request
<1> HIDE DEF r
<1>4. /\ request' \in [Users -> Request] /\ request'[u] = r
      /\ \A w \in Users : w # u => request'[w] = request[w]
  BY <1>3, SetOne DEF TypeOK, r
<1>5. TypeOK'
  BY <1>4, TypeOfRequests
<1>6. Forward'
  BY <1>2, <1>4, ForwardOfRequests
<1>7. Honest'
  <2>1. Wanted(u)' \in XR /\ Mine(u)' = Mine(u)
    BY <1>2, <1>4 DEF Honest, Wanted, Mine
  <2>2. QED
    BY <1>2, <1>4, <2>1, HonestOne DEF Honest
<1>8. QED
  BY <1>5, <1>6, <1>7

\* The handler of a provision request, from the check to the answer.
LEMMA ServeIInv ==
  ASSUME IInv, NEW u \in Users, Serve(u)
  PROVE  IInv'
<1>1. /\ late \subseteq XR /\ \A x \in late : x.payload \in Accepts[x.version]
      /\ objects \in [Names -> Object]
      /\ \A n \in Names :
           objects[n] # NoObject => objects[n].payload \in Accepts[objects[n].version]
  BY DEF IInv, TypeOK, Honest, XR
<1>2. {0, 201, 400, 404, 500} = Codes
  BY DEF Codes
<1>3. CASE Check(u)
  <2>1. /\ request[u].phase = "sent"
        /\ UNCHANGED <<history, poller, restarts, late, objects>>
    BY <1>3 DEF Check
  <2>2. \/ Answer(u, 404)
        \/ Answer(u, 400) /\ request[u].payload \notin Accepts[request[u].version]
        \/ /\ Set(u, [request[u] EXCEPT !.phase = "applying"])
           /\ request[u].payload \in Accepts[request[u].version]
    BY <1>3 DEF Check
  <2>3. CASE Answer(u, 404)
    BY <1>1, <1>2, <2>1, <2>3, AnswerIInv
  <2>4. CASE Answer(u, 400) /\ request[u].payload \notin Accepts[request[u].version]
    BY <1>1, <1>2, <2>1, <2>4, AnswerIInv
  <2>5. CASE /\ Set(u, [request[u] EXCEPT !.phase = "applying"])
             /\ request[u].payload \in Accepts[request[u].version]
    BY <1>1, <2>1, <2>5, AdvanceIInv
  <2>6. QED
    BY <2>2, <2>3, <2>4, <2>5
<1>4. CASE Create(u)
  <2>1. /\ request[u].phase = "applying" /\ Created(Wanted(u))
        /\ Set(u, [request[u] EXCEPT !.phase = "applied"])
        /\ UNCHANGED <<history, poller, restarts, late>>
    BY <1>4 DEF Create
  <2>2. /\ Wanted(u) \in XR
        /\ request[u].payload \in Accepts[request[u].version]
    BY <2>1 DEF IInv, Honest
  <2>3. /\ Wanted(u).name = request[u].name /\ Wanted(u).version = request[u].version
        /\ Wanted(u).payload = request[u].payload
    BY DEF Wanted
  <2>4. /\ objects' \in [Names -> Object]
        /\ objects'[request[u].name] = Mine(u)
        /\ \A n \in Names : objects[n] # NoObject => objects'[n] = objects[n]
        /\ \A n \in Names : objects'[n] # NoObject =>
             objects'[n].payload \in Accepts[objects'[n].version]
    BY <2>1, <2>2, <2>3, CreatedGrows DEF Mine
  <2>5. request[u].name \in Names
    BY <2>2, <2>3 DEF XR
  <2>6. QED
    BY <1>1, <2>1, <2>4, <2>5, AdvanceIInv
<1>5. CASE CreateFails(u)
  <2>1. /\ request[u].phase \in {"applying", "applied"}
        /\ Set(u, [request[u] EXCEPT !.phase = "refused"])
        /\ late' = late \cup Abandoned({u})
        /\ UNCHANGED <<history, poller, restarts, objects>>
    BY <1>5 DEF CreateFails
  <2>2. late' \subseteq XR /\ \A x \in late' : x.payload \in Accepts[x.version]
    BY <1>1, <2>1, AbandonedXR
  <2>3. QED
    BY <1>1, <2>1, <2>2, AdvanceIInv
<1>6. CASE Respond(u)
  <2>1. /\ UNCHANGED <<history, poller, restarts, late, objects>>
        /\ \/ request[u].phase = "applied" /\ Answer(u, 201)
           \/ request[u].phase = "refused" /\ Answer(u, 500)
    BY <1>6 DEF Respond
  <2>2. QED
    BY <1>1, <1>2, <2>1, AnswerIInv
<1>7. QED
  BY <1>3, <1>4, <1>5, <1>6 DEF Serve

\* A Create that nobody waits for any more.
LEMMA CreateLateIInv ==
  ASSUME IInv, NEW x \in late, CreateLate(x)
  PROVE  IInv'
<1> USE DEF IInv
<1>1. /\ UNCHANGED <<history, poller, restarts, request>>
      /\ late' = late \ {x} /\ x \in XR /\ x.payload \in Accepts[x.version]
      /\ Created(x) \/ objects' = objects
  BY DEF CreateLate, TypeOK, Honest, XR
<1>2. /\ objects' \in [Names -> Object]
      /\ \A n \in Names : objects[n] # NoObject => objects'[n] = objects[n]
      /\ \A n \in Names : objects'[n] # NoObject =>
           objects'[n].payload \in Accepts[objects'[n].version]
  <2>1. CASE Created(x)
    BY <1>1, <2>1, CreatedGrows
  <2>2. CASE objects' = objects
    BY <2>2 DEF TypeOK, Honest
  <2>3. QED
    BY <1>1, <2>1, <2>2
<1>3. TypeOK'
  BY <1>1, <1>2, TypeOfRequests DEF TypeOK, XR
<1>4. Forward'
  BY <1>1, ForwardOfRequests
<1>5. Honest'
  <2>1. \A v \in Users : Wanted(v)' = Wanted(v) /\ Mine(v)' = Mine(v)
    BY <1>1 DEF Wanted, Mine
  <2>2. ASSUME NEW v \in Users, request[v].phase = "applied" \/ request[v].code = 201
        PROVE  objects'[request[v].name] = Mine(v)
    <3>1. /\ request[v].phase # "idle" /\ Wanted(v) \in XR
          /\ request[v].name \in Names /\ objects[request[v].name] = Mine(v)
      BY <2>2 DEF Honest
    <3>2. Mine(v) # NoObject
      BY <3>1, NoneAssumption DEF Wanted, XR, Mine, NoObject
    <3>3. QED
      BY <1>2, <3>1, <3>2
  <2>3. QED
    BY <1>1, <1>2, <2>1, <2>2 DEF Honest
<1>6. QED
  BY <1>3, <1>4, <1>5

\* The user's connection breaks.
LEMMA DisconnectIInv ==
  ASSUME IInv, NEW u \in Users, Disconnect(u)
  PROVE  IInv'
<1>1. /\ request[u].phase # "idle" /\ Answer(u, 0)
      /\ late' = late \cup Abandoned({u})
      /\ UNCHANGED <<history, poller, restarts, objects>>
  BY DEF Disconnect
<1>2. late' \subseteq XR /\ \A x \in late' : x.payload \in Accepts[x.version]
  BY <1>1, AbandonedXR DEF IInv, TypeOK, Honest, XR
<1>3. 0 \in Codes /\ 0 # 201 /\ 0 # 400
  BY DEF Codes
<1>4. QED
  BY <1>1, <1>2, <1>3, AnswerIInv

\* A restart forgets the cache and answers nobody, and takes nothing back.
LEMMA RestartIInv ==
  ASSUME IInv, Restart
  PROVE  IInv'
<1> USE DEF IInv
<1> DEFINE cut(u) == request[u].phase \in {"sent", "applying", "applied", "refused"}
           new(u) == IF cut(u)
                       THEN [request[u] EXCEPT !.phase = "answered", !.code = 0]
                       ELSE request[u]
<1>1. /\ restarts < MaxRestarts /\ restarts' = restarts + 1
      /\ cached' = 0 /\ ready' = FALSE /\ polling' = "idle" /\ listed' = 0
      /\ UNCHANGED <<history, objects>>
      /\ late' = late \cup Abandoned(Users)
      /\ request' = [u \in Users |-> new(u)]
  BY DEF Restart
<1>2. \A u \in Users : request[u] \in Request
  BY DEF TypeOK
<1>3. ASSUME NEW u \in Users
      PROVE  /\ new(u) \in Request
             /\ new(u).since = request[u].since /\ new(u).name = request[u].name
             /\ new(u).version = request[u].version
             /\ new(u).payload = request[u].payload
             /\ cut(u) => new(u).phase = "answered" /\ new(u).code = 0
             /\ ~cut(u) => new(u) = request[u]
  <2>1. CASE cut(u)
    <3>1. request[u] \in Request /\ "answered" \in Phases /\ 0 \in Codes
      BY <1>2 DEF Phases, Codes
    <3>2. [request[u] EXCEPT !.phase = "answered", !.code = 0] \in Request
      BY <3>1 DEF Request
    <3>3. QED
      BY <2>1, <3>1, <3>2 DEF Request
  <2>2. CASE ~cut(u)
    BY <1>2, <2>2
  <2>3. QED
    BY <2>1, <2>2
<1>4. \A u \in Users : request'[u] = new(u)
  BY <1>1
<1> HIDE DEF new
<1>5. TypeOK'
  <2>1. request' \in [Users -> Request]
    BY <1>1, <1>3
  <2>2. late' \subseteq [name : Names, version : Versions, payload : Payloads]
    BY <1>1, AbandonedXR DEF TypeOK, XR
  <2>3. restarts' \in 0 .. MaxRestarts
    BY <1>1, BoundsAssumption DEF TypeOK
  <2>4. ready' \in BOOLEAN /\ (ready' <=> cached' > 0)
    <3>1. ~(0 > 0)
      OBVIOUS
    <3>2. QED
      BY <1>1, <3>1, Zenon
  <2>5. cached' \in 0 .. Current' /\ listed' \in 0 .. Current' /\ Current' = Current
    BY <1>1 DEF TypeOK, Current
  <2>6. QED
    BY <1>1, <2>1, <2>2, <2>3, <2>4, <2>5 DEF TypeOK
<1>6. Forward'
  BY <1>1, <1>3, <1>4 DEF Forward, Current
<1>7. Honest'
  <2>1. \A u \in Users : Wanted(u)' = Wanted(u) /\ Mine(u)' = Mine(u)
    BY <1>3, <1>4 DEF Wanted, Mine
  <2>2. \A x \in late' : x.payload \in Accepts[x.version]
    BY <1>1, AbandonedXR DEF Honest
  <2>3. ASSUME NEW u \in Users
        PROVE  /\ request'[u].phase # "idle" => Wanted(u)' \in XR
               /\ request'[u].phase = "applying" =>
                    request'[u].payload \in Accepts[request'[u].version]
               /\ request'[u].phase = "applied" \/ request'[u].code = 201 =>
                    request'[u].name \in Names /\ objects'[request'[u].name] = Mine(u)'
               /\ request'[u].code = 400 =>
                    request'[u].payload \notin Accepts[request'[u].version]
               /\ request'[u].code # 0 => request'[u].phase = "answered"
    <3>1. CASE cut(u)
      BY <1>3, <1>4, <2>1, <3>1 DEF Honest
    <3>2. CASE ~cut(u)
      BY <1>1, <1>3, <1>4, <2>1, <3>2 DEF Honest
    <3>3. QED
      BY <3>1, <3>2
  <2>4. QED
    BY <1>1, <2>2, <2>3 DEF Honest
<1>8. QED
  BY <1>5, <1>6, <1>7

\* Every step keeps the inductive invariant.
LEMMA NextIInv == IInv /\ [Next]_vars => IInv'
<1> SUFFICES ASSUME IInv, [Next]_vars PROVE IInv'
  OBVIOUS
<1>1. CASE ClusterMoves \/ Poll
  BY <1>1, PollIInv
<1>2. CASE Restart
  BY <1>2, RestartIInv
<1>3. CASE \E u \in Users :
             Template(u) \/ OwnTemplate(u) \/ Send(u) \/ Serve(u) \/ Disconnect(u)
  BY <1>3, FillIInv, SendIInv, ServeIInv, DisconnectIInv
<1>4. CASE \E x \in late : CreateLate(x)
  BY <1>4, CreateLateIInv
<1>5. CASE UNCHANGED vars
  <2>1. UNCHANGED <<history, poller, restarts, request, late, objects>>
    BY <1>5 DEF vars
  <2>2. TypeOK'
    BY <2>1, TypeOfRequests DEF IInv, TypeOK, XR
  <2>3. Forward'
    BY <2>1, ForwardOfRequests DEF IInv
  <2>4. Honest'
    BY <2>1 DEF IInv, Honest, Wanted, Mine
  <2>5. QED
    BY <2>2, <2>3, <2>4 DEF IInv
<1>6. QED
  BY <1>1, <1>2, <1>3, <1>4, <1>5 DEF Next

\* The inductive invariant holds throughout every run.
LEMMA Invariance == Spec => []IInv
BY InitIInv, NextIInv, PTL DEF Spec

-----------------------------------------------------------------------------
\* Every variable keeps its type, and the server is ready exactly when it has an
\* entry to serve.
THEOREM TypeCorrect == Spec => []TypeOK
<1>1. IInv => TypeOK
  BY DEF IInv
<1>2. QED
  BY <1>1, Invariance, PTL

\* No XR ever gets past its schema, and 201 and 400 stay true, through retries,
\* lost answers, late Creates and restarts.
THEOREM AnswersStayTrue == Spec => []AnswersTrue
<1>1. IInv => AnswersTrue
  <2> SUFFICES ASSUME IInv PROVE AnswersTrue
    OBVIOUS
  <2>1. \A n \in Names :
          objects[n] # NoObject => objects[n].payload \in Accepts[objects[n].version]
    BY DEF IInv, Honest
  <2>2. ASSUME NEW u \in Users
        PROVE  /\ request[u].code = 201 => objects[request[u].name] = Mine(u)
               /\ request[u].code = 400 => \A n \in Names : objects[n] # Mine(u)
    <3>1. request[u].code = 201 => objects[request[u].name] = Mine(u)
      BY DEF IInv, Honest
    <3>2. ASSUME request[u].code = 400, NEW n \in Names, objects[n] = Mine(u)
          PROVE  FALSE
      <4>1. Wanted(u) \in XR /\ request[u].payload \notin Accepts[request[u].version]
        BY <3>2 DEF IInv, Honest
      <4>2. /\ Mine(u) # NoObject /\ Mine(u).payload = request[u].payload
            /\ Mine(u).version = request[u].version
        BY <4>1, NoneAssumption DEF Wanted, XR, Mine, NoObject
      <4>3. QED
        BY <2>1, <3>2, <4>1, <4>2
    <3>3. QED
      BY <3>1, <3>2
  <2>3. QED
    BY <2>1, <2>2 DEF AnswersTrue, Mine
<1>2. QED
  BY <1>1, Invariance, PTL

\* A ready server refuses the version of a template it gave out only if the XRD
\* in between, before a restart or after, was not offered, did not serve it or had
\* no schema of its parameters, which is what the handler's refusal rests on.
THEOREM TemplateGood == Spec => TemplateStaysGood
<1> DEFINE Good ==
      \A u \in Users :
        /\ request[u].phase = "sent" /\ request[u].since > 0
        /\ request'[u].phase = "answered" /\ request'[u].code = 404
        /\ ready
        => \E r \in request[u].since .. Current :
             \/ ~history[r].offered
             \/ request[u].version \notin history[r].served
             \/ request[u].version \notin Described
<1>1. IInv /\ [Next]_vars => [Good]_vars
  <2> SUFFICES ASSUME IInv, Next, NEW u \in Users,
                      request[u].phase = "sent", request[u].since > 0,
                      request'[u].phase = "answered", request'[u].code = 404, ready
               PROVE  \E r \in request[u].since .. Current :
                        \/ ~history[r].offered
                        \/ request[u].version \notin history[r].served
                        \/ request[u].version \notin Described
    OBVIOUS
  <2>1. /\ cached \in 1 .. Len(history) /\ history \in Seq(XRD)
        /\ request[u].since <= cached /\ request[u].since \in Nat
        /\ request \in [Users -> Request]
    BY BoundsAssumption DEF IInv, TypeOK, Forward, Current, Request, Revisions
  <2>2. CASE Restart
    <3>1. request'[u] = [request[u] EXCEPT !.phase = "answered", !.code = 0]
      BY <2>2 DEF Restart
    <3>2. request[u] \in Request
      BY <2>1
    <3>3. request'[u].code = 0
      BY <3>1, <3>2 DEF Request
    <3>4. QED
      BY <3>3
  <2>3. CASE ClusterMoves \/ Poll \/ \E x \in late : CreateLate(x)
    BY <2>3 DEF ClusterMoves, Poll, StartPoll, ListOk, ListFail, Swap, CreateLate
  <2>4. ASSUME NEW v \in Users, v # u,
               Template(v) \/ OwnTemplate(v) \/ Send(v) \/ Serve(v) \/ Disconnect(v)
        PROVE  request'[u] = request[u]
    <3>1. \E r : Set(v, r)
      <4>1. CASE Template(v) \/ OwnTemplate(v) \/ Send(v)
        BY <4>1, Zenon DEF Template, OwnTemplate, Fill, Send
      <4>2. CASE Disconnect(v) \/ Respond(v)
        BY <4>2, Zenon DEF Disconnect, Respond, Answer
      <4>3. CASE Create(v) \/ CreateFails(v)
        BY <4>3, Zenon DEF Create, CreateFails
      <4>4. CASE Check(v)
        <5>1. \/ Answer(v, 404) \/ Answer(v, 400)
              \/ Set(v, [request[v] EXCEPT !.phase = "applying"])
          BY <4>4 DEF Check
        <5>2. QED
          BY <5>1, Zenon DEF Answer
      <4>5. QED
        BY <2>4, <4>1, <4>2, <4>3, <4>4 DEF Serve
    <3>2. QED
      BY <2>1, <2>4, <3>1 DEF Set
  <2>5. CASE Template(u) \/ OwnTemplate(u) \/ Send(u) \/ Create(u) \/ CreateFails(u)
             \/ Respond(u)
    BY <2>1, <2>5 DEF Template, OwnTemplate, Send, Create, CreateFails, Respond, Set
  <2>6. CASE Disconnect(u)
    <3>1. request'[u].code = 0
      BY <2>1, <2>6 DEF Disconnect, Answer, Set, Request
    <3>2. QED
      BY <3>1
  <2>7. CASE Check(u)
    <3>1. ~HasEntry \/ request[u].version \notin ServedAt(cached)
      <4>1. CASE Answer(u, 400)
        <5>1. request'[u].code = 400
          BY <2>1, <4>1 DEF Answer, Set, Request
        <5>2. QED
          BY <5>1
      <4>2. CASE Set(u, [request[u] EXCEPT !.phase = "applying"])
        <5>1. request'[u].phase = "applying"
          BY <2>1, <4>2 DEF Set, Request
        <5>2. QED
          BY <5>1
      <4>3. QED
        BY <2>7, <4>1, <4>2 DEF Check
    <3>2. history[cached] \in XRD
      BY <2>1
    <3>3. \/ ~history[cached].offered
          \/ request[u].version \notin history[cached].served
          \/ request[u].version \notin Described
      BY <2>1, <3>1, <3>2 DEF HasEntry, ServedAt, XRD
    <3>4. cached \in request[u].since .. Current
      BY <2>1 DEF Current
    <3>5. QED
      BY <3>3, <3>4
  <2>8. QED
    BY <2>2, <2>3, <2>4, <2>5, <2>6, <2>7 DEF Next, Serve
<1>2. QED
  BY <1>1, Invariance, PTL DEF Spec, TemplateStaysGood

-----------------------------------------------------------------------------
(***************************************************************************)
(* Nothing is made that nobody asked for: what a user has sent is never    *)
(* changed, and everything on its way to the cluster comes from it.        *)
(***************************************************************************)
IsSent(u) == request[u].phase \notin {"idle", "filled"}

\* A user has sent the request for the XR x.
SentBy(x) == \E u \in Users : IsSent(u) /\ Wanted(u) = x

Asked ==
  /\ \A u \in Users : IsSent(u) <=> request[u].sends > 0
  /\ \A x \in late : SentBy(x)
  /\ \A n \in Names : objects[n] # NoObject =>
       SentBy([name |-> n, version |-> objects[n].version, payload |-> objects[n].payload])

\* The user's part of a step on u's request: it is filled in, or it is or has been
\* sent and asks for the same as before.
Moves(u) ==
  \/ request'[u] = request[u]
  \/ request'[u].phase = "filled" /\ request'[u].sends = 0 /\ ~IsSent(u)
  \/ /\ IsSent(u)' /\ request[u].phase # "idle" /\ Wanted(u)' = Wanted(u)
     /\ \/ request'[u].sends = request[u].sends + 1
        \/ IsSent(u) /\ request'[u].sends = request[u].sends

\* A step that changes the phase and the code only, of a request that was sent.
LEMMA PhaseMoves ==
  ASSUME request \in [Users -> Request], NEW u \in Users, IsSent(u),
         NEW phase \in Phases \ {"idle", "filled"}, NEW code,
         Set(u, [request[u] EXCEPT !.phase = phase])
           \/ Set(u, [request[u] EXCEPT !.phase = phase, !.code = code])
  PROVE  Moves(u)
<1>1. request[u] \in Request
  OBVIOUS
<1>2. /\ request'[u].phase = phase /\ request'[u].sends = request[u].sends
      /\ request'[u].name = request[u].name /\ request'[u].version = request[u].version
      /\ request'[u].payload = request[u].payload
  BY <1>1 DEF Set, Request
<1>3. Wanted(u)' = Wanted(u)
  BY <1>2 DEF Wanted
<1>4. QED
  BY <1>2, <1>3 DEF Moves, IsSent

\* Every step does one of these to every user's request.
LEMMA EveryMoves ==
  ASSUME IInv, Next, NEW u \in Users
  PROVE  Moves(u)
<1>1. request \in [Users -> Request] /\ request[u] \in Request
  BY DEF IInv, TypeOK
<1>2. CASE ClusterMoves \/ Poll \/ \E x \in late : CreateLate(x)
  BY <1>2 DEF ClusterMoves, Poll, StartPoll, ListOk, ListFail, Swap, CreateLate, Moves
<1>3. CASE Restart
  <2>1. CASE request[u].phase \in {"sent", "applying", "applied", "refused"}
    <3>1. request'[u] = [request[u] EXCEPT !.phase = "answered", !.code = 0]
      BY <1>3, <2>1 DEF Restart
    <3>2. request'[u].phase = "answered" /\ request'[u].sends = request[u].sends
      BY <1>1, <3>1 DEF Request
    <3>3. Wanted(u)' = Wanted(u)
      BY <1>1, <3>1 DEF Request, Wanted
    <3>4. QED
      BY <2>1, <3>2, <3>3 DEF Moves, IsSent
  <2>2. CASE request[u].phase \notin {"sent", "applying", "applied", "refused"}
    BY <1>3, <2>2 DEF Restart, Moves
  <2>3. QED
    BY <2>1, <2>2
<1>4. ASSUME NEW v \in Users, v # u, \E r : Set(v, r)
      PROVE  Moves(u)
  BY <1>1, <1>4 DEF Set, Moves
<1>5. ASSUME NEW v \in Users, Template(v) \/ OwnTemplate(v)
      PROVE  Moves(u)
  <2>1. \E w \in Versions \cup {"none"} : \E since : Fill(v, w, since)
    <3>1. CASE Template(v)
      <4>1. cached > 0 /\ history[cached] \in XRD
        BY <1>5, <3>1 DEF Template, HasEntry, ServedAt, IInv, TypeOK, Current
      <4>2. QED
        BY <3>1, <4>1 DEF Template, XRD
    <3>2. CASE OwnTemplate(v)
      BY <3>2 DEF OwnTemplate
    <3>3. QED
      BY <1>5, <3>1, <3>2
  <2>2. \E r : Set(v, r)
    BY <2>1, Zenon DEF Fill
  <2>3. CASE v = u
    <3>1. request'[u].phase = "filled" /\ request'[u].sends = 0
      BY <1>1, <2>1, <2>3 DEF Fill, Set, NoRequest
    <3>2. QED
      BY <1>5, <2>3, <3>1 DEF Template, OwnTemplate, Moves, IsSent
  <2>4. QED
    BY <1>4, <2>2, <2>3
<1>6. ASSUME NEW v \in Users, Send(v)
      PROVE  Moves(u)
  <2>1. Set(v, [request[v] EXCEPT !.phase = "sent", !.code = 0, !.sends = @ + 1])
    BY <1>6 DEF Send
  <2>2. \E r : Set(v, r)
    BY <2>1, Zenon
  <2>3. CASE v = u
    <3>1. /\ request'[u].phase = "sent" /\ request'[u].sends = request[u].sends + 1
          /\ request'[u].name = request[u].name /\ request'[u].version = request[u].version
          /\ request'[u].payload = request[u].payload
      BY <1>1, <2>1, <2>3 DEF Set, Request
    <3>2. request[u].phase # "idle"
      BY <1>6, <2>3 DEF Send
    <3>3. Wanted(u)' = Wanted(u)
      BY <3>1 DEF Wanted
    <3>4. QED
      BY <3>1, <3>2, <3>3 DEF Moves, IsSent
  <2>4. QED
    BY <1>4, <2>2, <2>3
<1>7. ASSUME NEW v \in Users, IsSent(v), NEW phase \in Phases \ {"idle", "filled"}, NEW code,
             Set(v, [request[v] EXCEPT !.phase = phase])
               \/ Set(v, [request[v] EXCEPT !.phase = phase, !.code = code])
      PROVE  Moves(u)
  <2>1. \E r : Set(v, r)
    BY <1>7, Zenon
  <2>2. QED
    BY <1>1, <1>4, <1>7, <2>1, PhaseMoves
<1>8. ASSUME NEW v \in Users, Serve(v) \/ Disconnect(v)
      PROVE  Moves(u)
  <2>1. IsSent(v)
    BY <1>8 DEF Serve, Disconnect, Check, Create, CreateFails, Respond, IsSent
  <2>2. "answered" \in Phases /\ "applying" \in Phases /\ "applied" \in Phases /\ "refused" \in Phases
    BY DEF Phases
  <2>3. \/ \E code : Answer(v, code)
        \/ \E phase \in {"applying", "applied", "refused"} :
             Set(v, [request[v] EXCEPT !.phase = phase])
    BY <1>8, Zenon DEF Serve, Disconnect, Check, Create, CreateFails, Respond
  <2>4. QED
    BY <1>7, <2>1, <2>2, <2>3 DEF Answer
<1>9. QED
  BY <1>2, <1>3, <1>5, <1>6, <1>8 DEF Next

\* What has been sent has been sent for good.
LEMMA SentStays ==
  ASSUME IInv, Next, NEW x, SentBy(x)
  PROVE  SentBy(x)'
<1>1. PICK u \in Users : IsSent(u) /\ Wanted(u) = x
  BY DEF SentBy
<1>2. IsSent(u)' /\ Wanted(u)' = x
  BY <1>1, EveryMoves DEF Moves, IsSent, Wanted
<1>3. QED
  BY <1>2 DEF SentBy

\* An object that a step adds is one that was on its way.
LEMMA MadeOf ==
  ASSUME IInv, NEW x \in XR, Created(x), SentBy(x), NEW n \in Names, objects'[n] # NoObject,
         objects'[n] # objects[n]
  PROVE  SentBy([name |-> n, version |-> objects'[n].version, payload |-> objects'[n].payload])
<1>1. objects \in [Names -> Object] /\ x.name \in Names
  BY DEF IInv, TypeOK, XR
<1>2. n = x.name /\ objects'[n] = [version |-> x.version, payload |-> x.payload]
  BY <1>1 DEF Created
<1>3. x = [name |-> n, version |-> objects'[n].version, payload |-> objects'[n].payload]
  BY <1>2 DEF XR
<1>4. QED
  BY <1>3

\* Whatever is made or left behind has been asked for.
LEMMA AskedKept ==
  ASSUME IInv, Asked, Next
  PROVE  Asked'
<1>1. ASSUME NEW u \in Users
      PROVE  IsSent(u)' <=> request'[u].sends > 0
  <2>1. request[u].sends \in Nat /\ (IsSent(u) <=> request[u].sends > 0)
    BY BoundsAssumption DEF IInv, TypeOK, Request, Sends, Asked
  <2>2. QED
    BY <2>1, EveryMoves DEF Moves, IsSent
<1>2. ASSUME NEW us \in SUBSET Users, NEW x \in Abandoned(us)
      PROVE  SentBy(x)
  BY DEF Abandoned, SentBy, IsSent
<1>3. ASSUME NEW x \in late' PROVE SentBy(x)'
  <2>1. x \in late \/ \E us \in SUBSET Users : x \in Abandoned(us)
    <3>1. CASE Restart
      BY <3>1 DEF Restart
    <3>2. CASE \E u \in Users : CreateFails(u) \/ Disconnect(u)
      BY <3>2 DEF CreateFails, Disconnect
    <3>3. CASE late' \subseteq late
      BY <3>3
    <3>4. QED
      BY <3>1, <3>2, <3>3 DEF Next, ClusterMoves, Poll, StartPoll, ListOk, ListFail, Swap, Template,
         OwnTemplate, Send, Serve, Check, Create, Respond, CreateLate
  <2>2. SentBy(x)
    BY <1>2, <2>1 DEF Asked
  <2>3. QED
    BY <2>2, SentStays
<1>4. ASSUME NEW n \in Names, objects'[n] # NoObject
      PROVE  SentBy([name |-> n, version |-> objects[n].version, payload |-> objects[n].payload])'
  <2> DEFINE x == [name |-> n, version |-> objects'[n].version, payload |-> objects'[n].payload]
  <2>1. SentBy(x)
    <3>1. CASE objects'[n] = objects[n]
      BY <1>4, <3>1 DEF Asked
    <3>2. ASSUME NEW y \in XR, Created(y), SentBy(y), objects'[n] # objects[n]
          PROVE  SentBy(x)
      BY <1>4, <3>2, MadeOf
    <3>3. CASE \E y \in late : CreateLate(y)
      BY <3>1, <3>2, <3>3 DEF CreateLate, Asked, IInv, TypeOK, XR
    <3>4. CASE \E u \in Users : Create(u)
      <4>1. PICK u \in Users : Create(u)
        BY <3>4
      <4>2. Wanted(u) \in XR /\ IsSent(u) /\ Created(Wanted(u))
        BY <4>1 DEF Create, IInv, Honest, IsSent
      <4>3. SentBy(Wanted(u))
        BY <4>2 DEF SentBy
      <4>4. QED
        BY <3>1, <3>2, <4>2, <4>3
    <3>5. CASE objects' = objects
      BY <3>1, <3>5
    <3>6. QED
      BY <3>3, <3>4, <3>5 DEF Next, ClusterMoves, Poll, StartPoll, ListOk, ListFail, Swap, Template,
         OwnTemplate, Send, Serve, Check, CreateFails, Respond, Disconnect, Restart
  <2> HIDE DEF x
  <2>2. \E u \in Users : IsSent(u)' /\ Wanted(u)' = x
    BY <2>1, SentStays DEF SentBy
  <2>3. QED
    BY <2>2 DEF x, SentBy
<1>5. QED
  BY <1>1, <1>3, <1>4 DEF Asked

\* No XR is made that nobody asked for, however often requests are repeated, left
\* behind by handlers or executed late.
THEOREM NothingUnasked == Spec => []OnlyWhatWasAsked
<1>1. Init => Asked
  BY DEF Init, Asked, IsSent, NoRequest
<1>2. IInv /\ Asked /\ [Next]_vars => Asked'
  <2>1. CASE UNCHANGED vars
    BY <2>1 DEF vars, Asked, SentBy, IsSent, Wanted
  <2>2. QED
    BY <2>1, AskedKept
<1>3. Asked => OnlyWhatWasAsked
  BY DEF Asked, OnlyWhatWasAsked, SentBy
<1>4. QED
  BY <1>1, <1>2, <1>3, Invariance, PTL DEF Spec

-----------------------------------------------------------------------------
\* The user's XR has been created for it, and it has been told or is about to be.
Has(u) == request[u].phase = "applied" \/ request[u].code = 201

OneCreator ==
  \A u, v \in Users : Has(u) /\ Has(v) /\ request[u].name = request[v].name => u = v

\* Only a Create that succeeds gives a user an XR, of a name that nobody has.
LEMMA HasMoves ==
  ASSUME IInv, Next, NEW u \in Users, Has(u)'
  PROVE  \/ Has(u) /\ request'[u].name = request[u].name
         \/ /\ Create(u) /\ request'[u].name = request[u].name
            /\ request[u].name \in Names /\ objects[request[u].name] = NoObject
            /\ \A v \in Users : v # u => request'[v] = request[v]
<1>1. request \in [Users -> Request] /\ request[u] \in Request
  BY DEF IInv, TypeOK
<1>2. CASE request'[u] = request[u]
  BY <1>2 DEF Has
<1>3. ASSUME NEW v \in Users, v # u, \E r : Set(v, r)
      PROVE  request'[u] = request[u]
  BY <1>1, <1>3 DEF Set
<1>4. CASE ClusterMoves \/ Poll \/ \E x \in late : CreateLate(x)
  BY <1>2, <1>4 DEF ClusterMoves, Poll, StartPoll, ListOk, ListFail, Swap, CreateLate
<1>5. CASE Restart
  <2>1. CASE request[u].phase \in {"sent", "applying", "applied", "refused"}
    <3>1. request'[u] = [request[u] EXCEPT !.phase = "answered", !.code = 0]
      BY <1>5, <2>1 DEF Restart
    <3>2. request'[u].phase = "answered" /\ request'[u].code = 0
      BY <1>1, <3>1 DEF Request
    <3>3. QED
      BY <3>2 DEF Has
  <2>2. QED
    BY <1>2, <1>5, <2>1 DEF Restart
<1>6. ASSUME NEW v \in Users,
             Template(v) \/ OwnTemplate(v) \/ Send(v) \/ Serve(v) \/ Disconnect(v)
      PROVE  \E r : Set(v, r)
  <2>1. CASE Template(v) \/ OwnTemplate(v) \/ Send(v)
    BY <2>1, Zenon DEF Template, OwnTemplate, Fill, Send
  <2>2. CASE Disconnect(v) \/ Respond(v)
    BY <2>2, Zenon DEF Disconnect, Respond, Answer
  <2>3. CASE Create(v) \/ CreateFails(v)
    BY <2>3, Zenon DEF Create, CreateFails
  <2>4. CASE Check(v)
    <3>1. \/ Answer(v, 404) \/ Answer(v, 400)
          \/ Set(v, [request[v] EXCEPT !.phase = "applying"])
      BY <2>4 DEF Check
    <3>2. QED
      BY <3>1, Zenon DEF Answer
  <2>5. QED
    BY <1>6, <2>1, <2>2, <2>3, <2>4 DEF Serve
<1>7. CASE Template(u) \/ OwnTemplate(u)
  <2>1. PICK w, since : Fill(u, w, since)
    BY <1>7, Zenon DEF Template, OwnTemplate
  <2>2. request'[u].phase = "filled" /\ request'[u].code = 0
    BY <1>1, <2>1 DEF Fill, Set, NoRequest
  <2>3. QED
    BY <2>2 DEF Has
<1>8. ASSUME NEW code \in Codes \ {201}, Answer(u, code)
      PROVE  FALSE
  <2>1. request'[u] = [request[u] EXCEPT !.phase = "answered", !.code = code]
    BY <1>1, <1>8, AnswerOne
  <2>2. request'[u].phase = "answered" /\ request'[u].code = code
    BY <1>1, <2>1 DEF Request
  <2>3. QED
    BY <1>8, <2>2 DEF Has
<1>9. CASE Send(u)
  <2>1. request'[u].phase = "sent" /\ request'[u].code = 0
    BY <1>1, <1>9 DEF Send, Set, Request
  <2>2. QED
    BY <2>1 DEF Has
<1>10. CASE Create(u)
  <2>1. /\ Set(u, [request[u] EXCEPT !.phase = "applied"])
        /\ objects[Wanted(u).name] = NoObject /\ Wanted(u) \in XR
    BY <1>10 DEF Create, Created, IInv, Honest
  <2>2. request'[u].name = request[u].name /\ \A v \in Users : v # u => request'[v] = request[v]
    BY <1>1, <2>1 DEF Set, Request
  <2>3. QED
    BY <1>10, <2>1, <2>2 DEF Wanted, XR
<1>11. CASE Check(u) \/ CreateFails(u) \/ Disconnect(u)
  <2>1. request[u].code = 0
    BY <1>11 DEF Check, CreateFails, Disconnect, IInv, Honest
  <2>2. \/ Answer(u, 404) \/ Answer(u, 400) \/ Answer(u, 0)
        \/ \E phase \in {"applying", "refused"} : Set(u, [request[u] EXCEPT !.phase = phase])
    BY <1>11, Zenon DEF Check, CreateFails, Disconnect
  <2>3. ~Answer(u, 404) /\ ~Answer(u, 400) /\ ~Answer(u, 0)
    BY <1>8 DEF Codes
  <2>4. ASSUME NEW phase \in {"applying", "refused"}, Set(u, [request[u] EXCEPT !.phase = phase])
        PROVE  FALSE
    <3>1. request'[u].phase = phase /\ request'[u].code = 0
      BY <1>1, <2>1, <2>4 DEF Set, Request
    <3>2. QED
      BY <2>4, <3>1 DEF Has
  <2>5. QED
    BY <2>2, <2>3, <2>4
<1>12. CASE Respond(u)
  <2>1. CASE request[u].phase = "applied" /\ Answer(u, 201)
    <3>1. request'[u].name = request[u].name
      BY <1>1, <2>1 DEF Answer, Set, Request
    <3>2. QED
      BY <2>1, <3>1 DEF Has
  <2>2. CASE Answer(u, 500)
    BY <1>8, <2>2 DEF Codes
  <2>3. QED
    BY <1>12, <2>1, <2>2 DEF Respond
<1>13. QED
  BY <1>2, <1>3, <1>4, <1>5, <1>6, <1>7, <1>9, <1>10, <1>11, <1>12 DEF Next, Serve

\* At most one user is ever told 201 of a name, however many ask for it at once and
\* however often they repeat what they asked.
THEOREM OneToldCreated == Spec => []OneCreator
<1>1. Init => OneCreator
  BY DEF Init, OneCreator, Has, NoRequest
<1>2. IInv /\ OneCreator /\ [Next]_vars => OneCreator'
  <2> SUFFICES ASSUME IInv, OneCreator, [Next]_vars, NEW u \in Users, NEW v \in Users,
                      Has(u)', Has(v)', request'[u].name = request'[v].name, u # v
               PROVE  FALSE
    BY DEF OneCreator
  <2>1. CASE UNCHANGED vars
    BY <2>1 DEF vars, OneCreator, Has
  <2>2. CASE Next
    <3>1. ASSUME NEW w \in Users, Has(w)
          PROVE  request[w].name \in Names /\ objects[request[w].name] # NoObject
      <4>1. /\ request[w].name \in Names /\ objects[request[w].name] = Mine(w)
            /\ Wanted(w) \in XR
        BY <3>1 DEF Has, IInv, Honest
      <4>2. Mine(w) # NoObject
        BY <4>1, NoneAssumption DEF Wanted, XR, Mine, NoObject
      <4>3. QED
        BY <4>1, <4>2
    <3>2. ASSUME NEW w \in Users, NEW z \in Users, w # z, Create(w),
                 request'[w].name = request[w].name, objects[request[w].name] = NoObject,
                 \A y \in Users : y # w => request'[y] = request[y],
                 Has(z)', request'[w].name = request'[z].name
          PROVE  FALSE
      <4>1. request'[z] = request[z]
        BY <3>2
      <4>2. Has(z) /\ request[z].name = request[w].name
        BY <3>2, <4>1 DEF Has
      <4>3. QED
        BY <3>1, <3>2, <4>2
    <3>3. CASE Has(u) /\ Has(v) /\ request'[u].name = request[u].name /\ request'[v].name = request[v].name
      BY <3>3 DEF OneCreator
    <3>4. QED
      BY <2>2, <3>2, <3>3, HasMoves
  <2>3. QED
    BY <2>1, <2>2
<1>3. QED
  BY <1>1, <1>2, Invariance, PTL DEF Spec

-----------------------------------------------------------------------------
\* The server is ready and serves what the cluster has now.
UpToDate == ready /\ cached = Current

UpToDateStays ==
  [][UpToDate /\ UNCHANGED <<history, restarts>> => UpToDate']_vars

\* A server that is up to date stays so until the XRD changes or the process ends:
\* no failed poll empties its cache, and no poll under way brings back what it had
\* before. It is what remains of CurrentInTheEnd without the fairness.
THEOREM UpToDateForGood == Spec => UpToDateStays
<1>1. ASSUME IInv, [Next]_vars, UpToDate, UNCHANGED <<history, restarts>>
      PROVE  UpToDate'
  <2>1. /\ Current' = Current /\ Current \in Nat
        /\ cached = Current /\ ready /\ listed \in 0 .. Current
        /\ restarts \in Nat
    BY <1>1, BoundsAssumption DEF UpToDate, Current, IInv, TypeOK
  <2>2. polling = "listed" => listed = Current
    BY <1>1, <2>1 DEF IInv, Forward
  <2>3. CASE Swap
    BY <2>1, <2>2, <2>3 DEF Swap, UpToDate
  <2>4. CASE StartPoll \/ ListOk \/ ListFail
    BY <2>1, <2>4 DEF StartPoll, ListOk, ListFail, UpToDate
  <2>5. CASE ClusterMoves
    BY <2>1, <2>5 DEF ClusterMoves, poller, UpToDate
  <2>6. CASE Restart
    <3>1. restarts' = restarts + 1 /\ restarts' = restarts
      BY <1>1, <2>6 DEF Restart
    <3>2. QED
      BY <2>1, <3>1
  <2>7. ASSUME NEW u \in Users, Template(u) \/ OwnTemplate(u) \/ Send(u) \/ Disconnect(u)
        PROVE  UNCHANGED poller
    BY <2>7 DEF Template, OwnTemplate, Send, Disconnect
  <2>8. ASSUME NEW u \in Users, Serve(u)
        PROVE  UNCHANGED poller
    BY <2>8 DEF Serve, Check, Create, CreateFails, Respond
  <2>9. ASSUME NEW x \in late, CreateLate(x)
        PROVE  UNCHANGED poller
    BY <2>9 DEF CreateLate
  <2>10. CASE UNCHANGED vars
    BY <2>1, <2>10 DEF vars, poller, UpToDate
  <2>11. CASE UNCHANGED poller
    BY <2>1, <2>11 DEF poller, UpToDate
  <2>12. QED
    BY <1>1, <2>3, <2>4, <2>5, <2>6, <2>7, <2>8, <2>9, <2>10, <2>11 DEF Next, Poll
<1>2. IInv /\ [Next]_vars =>
        [UpToDate /\ UNCHANGED <<history, restarts>> => UpToDate']_vars
  BY <1>1
<1>3. QED
  BY <1>2, Invariance, PTL DEF Spec, UpToDateStays
=============================================================================
