--------------------------- MODULE LifecycleProofs ---------------------------
(***************************************************************************)
(* The safety of Lifecycle for any number of requests: what a shutdown     *)
(* stops, in which order, and what it does to the requests under way.      *)
(***************************************************************************)
EXTENDS Lifecycle, TLAPS

\* What is stopped and what is left make up the order, when there is one.
Partition ==
  /\ main \in {"building", "starting", "serving"} => todo = <<>> /\ stopped = {} /\ ~draining
  /\ main = "starting" => server \in ApiServers
  /\ main \in {"stopping", "ended"} /\ server \in ApiServers =>
       \/ todo = <<"http", "temporal", "k8s">> /\ stopped = {}
       \/ todo = <<"temporal", "k8s">> /\ stopped = {"http"}
       \/ todo = <<"k8s">> /\ stopped = {"http", "temporal"}
       \/ todo = <<>> /\ stopped = Components
  /\ main = "stopping" /\ server \notin ApiServers =>
       \/ todo = <<"http">> /\ stopped = {}
       \/ todo = <<>> /\ stopped = {"http"}
  /\ draining /\ main = "stopping" => stopped = {}
  /\ draining /\ main = "stopping" => todo # <<>>

\* No request comes before the socket is open, or after its shutdown has begun.
SocketFirst ==
  /\ listener \in {"unopened", "taken"} => \A r \in Requests : request[r] = "none"
  /\ main = "building" => listener = "unopened"
  /\ main \in Gone => listener = "closed"
  /\ draining \/ stopped # {} => listener # "open"

\* The components are stopped after the HTTP server, which waits for every
\* request but those its time limit leaves.
Drained ==
  /\ main = "stopping" /\ stopped # {} /\ ~limit =>
       \A r \in Requests : request[r] \notin UnderWay
  /\ main \in Gone => \A r \in Requests : request[r] \notin UnderWay

IInv ==
  TypeOK /\ Partition /\ SocketFirst /\ Drained /\ NoCallAfterStop /\ NoRequestCut
         /\ EverythingStopped

-----------------------------------------------------------------------------
\* fx stops in the order the other variants write down.
LEMMA FxOrderIs == FxOrder = <<"http", "temporal", "k8s">>
BY DEF FxOrder, Reverse

\* Every API server stops in one order; the catalog servers have one thing to stop.
LEMMA OrderIs ==
  ASSUME NEW s \in Servers
  PROVE  StopOrder[s] = IF s \in ApiServers THEN <<"http", "temporal", "k8s">> ELSE <<"http">>
BY FxOrderIs DEF StopOrder, ManualOrder, WireOrder, Servers, ApiServers

\* How the order is worked off.
LEMMA Tails ==
  /\ Head(<<"http", "temporal", "k8s">>) = "http"
  /\ Tail(<<"http", "temporal", "k8s">>) = <<"temporal", "k8s">>
  /\ Head(<<"temporal", "k8s">>) = "temporal" /\ Tail(<<"temporal", "k8s">>) = <<"k8s">>
  /\ Head(<<"k8s">>) = "k8s" /\ Tail(<<"k8s">>) = <<>>
  /\ Head(<<"http">>) = "http" /\ Tail(<<"http">>) = <<>>
OBVIOUS

\* Shutdown, when it ends, had the HTTP server to stop, and nothing was stopped.
LEMMA HttpFirst ==
  ASSUME IInv, EndShutdown
  PROVE  /\ stopped = {} /\ stopped' = {"http"} /\ main = "stopping"
         /\ IF server \in ApiServers
              THEN todo = <<"http", "temporal", "k8s">> /\ todo' = <<"temporal", "k8s">>
              ELSE todo = <<"http">> /\ todo' = <<>>
<1>1. /\ main = "stopping" /\ draining /\ todo' = Tail(todo)
      /\ stopped' = stopped \cup {"http"}
  BY DEF EndShutdown
<1>2. stopped = {} /\ todo # <<>>
  BY <1>1 DEF IInv, Partition
<1>3. IF server \in ApiServers THEN todo = <<"http", "temporal", "k8s">> ELSE todo = <<"http">>
  BY <1>1, <1>2 DEF IInv, Partition, Components
<1>4. QED
  BY <1>1, <1>2, <1>3, Tails

\* A component is stopped after the HTTP server, the worker before the client.
LEMMA ComponentNext ==
  ASSUME IInv, NEW c \in {"temporal", "k8s"}, StopComponent(c)
  PROVE  /\ main = "stopping" /\ server \in ApiServers /\ stopped # {} /\ ~draining
         /\ \/ todo' = <<"k8s">> /\ stopped' = {"http", "temporal"}
            \/ todo' = <<>> /\ stopped' = Components
<1>1. /\ main = "stopping" /\ todo # <<>> /\ Head(todo) = c /\ todo' = Tail(todo)
      /\ stopped' = stopped \cup {c} /\ c # "http"
  BY DEF StopComponent, Due
<1>2. server \in ApiServers
  BY <1>1, Tails DEF IInv, Partition
<1>3. \/ todo = <<"temporal", "k8s">> /\ stopped = {"http"}
      \/ todo = <<"k8s">> /\ stopped = {"http", "temporal"}
  BY <1>1, <1>2, Tails DEF IInv, Partition
<1>4. stopped # {} /\ ~draining
  BY <1>1, <1>3 DEF IInv, Partition
<1>5. \/ c = "temporal" /\ todo' = <<"k8s">> /\ stopped = {"http"}
      \/ c = "k8s" /\ todo' = <<>> /\ stopped = {"http", "temporal"}
  BY <1>1, <1>3, Tails
<1>6. QED
  BY <1>1, <1>2, <1>4, <1>5 DEF Components

\* A process being built has nothing to stop and no socket.
LEMMA InitIInv == Init => IInv
<1> SUFFICES ASSUME Init PROVE IInv
  OBVIOUS
<1>1. TypeOK
  BY DEF Init, TypeOK, Places, Left, States
<1>2. Partition
  BY DEF Init, Partition
<1>3. SocketFirst /\ Drained
  BY DEF Init, SocketFirst, Drained, Gone, UnderWay
<1>4. NoCallAfterStop /\ NoRequestCut /\ EverythingStopped
  BY DEF Init, NoCallAfterStop, NoRequestCut, EverythingStopped
<1>5. QED
  BY <1>1, <1>2, <1>3, <1>4 DEF IInv

-----------------------------------------------------------------------------
\* The end of the process, wherever it comes, cuts what is under way.
LEMMA LeaveKeeps ==
  ASSUME IInv, NEW place \in Gone, Leave(place), UNCHANGED <<draining, stopped>>,
         signalled' \in BOOLEAN, main \notin Gone,
         place = "ended" =>
           main = "stopping" /\ (server \in ApiServers =>
                                   stopped = Components \/ (server = "fx" /\ limit)),
         (\E r \in Requests : request[r] \in UnderWay) =>
           limit \/ server = "catalog" \/ (place = "killed" /\ server \in ApiServers)
  PROVE  IInv'
<1>1. /\ main' = place /\ listener' = "closed" /\ server' = server /\ todo' = todo
      /\ limit' = limit /\ kind' = kind /\ late' = late
      /\ draining' = draining /\ stopped' = stopped
  BY DEF Leave
<1>2. request' \in [Requests -> States] /\ \A r \in Requests :
        request'[r] = IF request[r] \in UnderWay THEN "cut" ELSE request[r]
  BY DEF Leave, IInv, TypeOK, States
<1>3. main' \in {"ended", "failed", "killed"}
  BY <1>1 DEF Gone
<1>4. TypeOK'
  BY <1>1, <1>2, <1>3 DEF IInv, TypeOK, Places, Left
<1>5. Partition'
  BY <1>1, <1>3 DEF IInv, Partition
<1>6. SocketFirst'
  BY <1>1, <1>3 DEF SocketFirst
<1>7. Drained'
  BY <1>1, <1>2, <1>3 DEF Drained, UnderWay
<1>8. NoCallAfterStop'
  BY <1>1 DEF IInv, NoCallAfterStop
<1>9. NoRequestCut'
  BY <1>1, <1>2 DEF IInv, NoRequestCut, Gone
<1>10. EverythingStopped'
  BY <1>1 DEF EverythingStopped
<1>11. QED
  BY <1>4, <1>5, <1>6, <1>7, <1>8, <1>9, <1>10 DEF IInv

\* The socket is opened, or the server has been shut down.
LEMMA OpenKeeps ==
  ASSUME IInv, Open
  PROVE  IInv'
<1>1. TypeOK'
  BY OrderIs DEF IInv, TypeOK, Places, Gone, Left, Open
<1>2. Partition'
  BY OrderIs DEF IInv, TypeOK, Partition, Gone, Open
<1>3. SocketFirst'
  <2>1. main \notin Gone /\ main # "building" /\ request' = request /\ main' = main
        /\ listener = "unopened" /\ stopped' = stopped /\ draining' = draining
    BY DEF Open
  <2>2. stopped # {} => "http" \in stopped
    BY <2>1 DEF IInv, TypeOK, Places, Partition, Components, Gone
  <2>3. draining' \/ stopped' # {} => listener' # "open"
    BY <2>1, <2>2 DEF Open
  <2>4. QED
    BY <2>1, <2>3 DEF IInv, SocketFirst, Open
<1>4. Drained'
  BY DEF IInv, TypeOK, Drained, Partition, SocketFirst, Gone, UnderWay, Open
<1>5. NoCallAfterStop' /\ NoRequestCut' /\ EverythingStopped'
  BY DEF IInv, NoCallAfterStop, NoRequestCut, EverythingStopped, Gone, Open
<1>6. QED
  BY <1>1, <1>2, <1>3, <1>4, <1>5 DEF IInv

\* The order of the shutdown is laid down.
LEMMA NoticeKeeps ==
  ASSUME IInv, Notice
  PROVE  IInv'
<1>1. TypeOK'
  BY OrderIs DEF IInv, TypeOK, Places, Gone, Left, Notice
<1>2. Partition'
  BY OrderIs DEF IInv, TypeOK, Partition, Gone, Notice
<1>3. SocketFirst'
  BY DEF IInv, TypeOK, SocketFirst, Partition, Gone, Notice
<1>4. Drained'
  BY DEF IInv, TypeOK, Drained, Partition, SocketFirst, Gone, UnderWay, Notice
<1>5. NoCallAfterStop' /\ NoRequestCut' /\ EverythingStopped'
  BY DEF IInv, NoCallAfterStop, NoRequestCut, EverythingStopped, Gone, Notice
<1>6. QED
  BY <1>1, <1>2, <1>3, <1>4, <1>5 DEF IInv

\* The listener is closed.
LEMMA BeginKeeps ==
  ASSUME IInv, BeginShutdown
  PROVE  IInv'
<1>1. TypeOK'
  BY OrderIs DEF IInv, TypeOK, Places, Gone, Left, BeginShutdown, Due, Components, Servers, ApiServers
<1>2. Partition'
  BY OrderIs DEF IInv, TypeOK, Partition, Gone, BeginShutdown, Due, Components, Servers, ApiServers
<1>3. SocketFirst'
  BY DEF IInv, TypeOK, SocketFirst, Partition, Gone, BeginShutdown, Due, Components, Servers, ApiServers
<1>4. Drained'
  BY DEF IInv, TypeOK, Drained, Partition, SocketFirst, Gone, UnderWay, BeginShutdown, Due, Components, Servers, ApiServers
<1>5. NoCallAfterStop' /\ NoRequestCut' /\ EverythingStopped'
  BY DEF IInv, NoCallAfterStop, NoRequestCut, EverythingStopped, Gone, BeginShutdown, Due, Components, Servers, ApiServers
<1>6. QED
  BY <1>1, <1>2, <1>3, <1>4, <1>5 DEF IInv

\* The HTTP server is stopped, with no request under way or no time left.
LEMMA EndKeeps ==
  ASSUME IInv, EndShutdown
  PROVE  IInv'
<1>1. /\ UNCHANGED <<server, main, listener, signalled, limit, request, kind, late>>
      /\ draining' = FALSE
      /\ limit \/ \A r \in Requests : request[r] \notin UnderWay
      /\ draining
  BY DEF EndShutdown
<1>2. TypeOK'
  BY <1>1, HttpFirst DEF IInv, TypeOK, Left, Components
<1>3. Partition'
  BY <1>1, HttpFirst DEF IInv, Partition
<1>4. SocketFirst'
  BY <1>1 DEF IInv, SocketFirst
<1>5. Drained'
  BY <1>1 DEF IInv, Drained, UnderWay
<1>6. NoCallAfterStop' /\ NoRequestCut' /\ EverythingStopped'
  BY <1>1, HttpFirst DEF IInv, NoCallAfterStop, NoRequestCut, EverythingStopped
<1>7. QED
  BY <1>2, <1>3, <1>4, <1>5, <1>6 DEF IInv

\* The time limit runs out.
LEMMA LimitKeeps ==
  ASSUME IInv, LimitRunsOut
  PROVE  IInv'
<1>1. TypeOK'
  BY OrderIs DEF IInv, TypeOK, Places, Gone, Left, LimitRunsOut
<1>2. Partition'
  BY OrderIs DEF IInv, TypeOK, Partition, Gone, LimitRunsOut
<1>3. SocketFirst'
  BY DEF IInv, TypeOK, SocketFirst, Partition, Gone, LimitRunsOut
<1>4. Drained'
  BY DEF IInv, TypeOK, Drained, Partition, SocketFirst, Gone, UnderWay, LimitRunsOut
<1>5. NoCallAfterStop' /\ NoRequestCut' /\ EverythingStopped'
  BY DEF IInv, NoCallAfterStop, NoRequestCut, EverythingStopped, Gone, LimitRunsOut
<1>6. QED
  BY <1>1, <1>2, <1>3, <1>4, <1>5 DEF IInv

\* A component behind the HTTP server is stopped.
LEMMA StopKeeps ==
  ASSUME IInv, NEW c \in {"temporal", "k8s"}, StopComponent(c)
  PROVE  IInv'
<1>1. UNCHANGED <<server, main, listener, signalled, draining, limit, request, kind, late>>
  BY DEF StopComponent
<1>2. TypeOK'
  BY <1>1, ComponentNext DEF IInv, TypeOK, Left, Components
<1>3. Partition'
  BY <1>1, ComponentNext DEF IInv, Partition
<1>4. SocketFirst'
  BY <1>1, ComponentNext DEF IInv, SocketFirst
<1>5. Drained'
  BY <1>1, ComponentNext DEF IInv, Drained, UnderWay
<1>6. NoCallAfterStop' /\ NoRequestCut' /\ EverythingStopped'
  BY <1>1, ComponentNext DEF IInv, NoCallAfterStop, NoRequestCut, EverythingStopped
<1>7. QED
  BY <1>2, <1>3, <1>4, <1>5, <1>6 DEF IInv

\* Main begins to serve, or cannot.
LEMMA BuildKeeps ==
  ASSUME IInv, Build
  PROVE  IInv'
<1>1. CASE Leave("failed")
  <2>1. /\ main = "building" /\ UNCHANGED <<draining, stopped>> /\ signalled' \in BOOLEAN
        /\ main \notin Gone /\ "failed" \in Gone
    BY DEF Build, Gone, IInv, TypeOK
  <2>2. \A r \in Requests : request[r] \notin UnderWay
    BY <2>1 DEF IInv, SocketFirst, UnderWay
  <2>3. QED
    BY <1>1, <2>1, <2>2, LeaveKeeps
<1>2. CASE ~Leave("failed")
  <2>1. /\ UNCHANGED <<server, listener, todo, limit, request, kind, late, signalled, draining,
                       stopped>>
        /\ main = "building" /\ main' = IF server \in ApiServers THEN "starting" ELSE "serving"
    BY <1>2 DEF Build
  <2>2. TypeOK'
    BY <2>1 DEF IInv, TypeOK, Places, Left
  <2>3. Partition'
    BY <2>1 DEF IInv, Partition
  <2>4. SocketFirst' /\ Drained'
    BY <2>1 DEF IInv, SocketFirst, Drained, Gone, UnderWay
  <2>5. NoCallAfterStop' /\ NoRequestCut' /\ EverythingStopped'
    BY <2>1 DEF IInv, NoCallAfterStop, NoRequestCut, EverythingStopped
  <2>6. QED
    BY <2>2, <2>3, <2>4, <2>5 DEF IInv
<1>3. QED
  BY <1>1, <1>2 DEF Build

\* The signals are caught from now on.
LEMMA CatchKeeps ==
  ASSUME IInv, CatchSignals
  PROVE  IInv'
<1>1. /\ UNCHANGED <<server, listener, todo, limit, request, kind, late, signalled, draining,
                     stopped>>
      /\ main = "starting" /\ main' = "serving"
  BY DEF CatchSignals
<1>2. TypeOK'
  BY <1>1 DEF IInv, TypeOK, Places, Left
<1>3. Partition'
  BY <1>1 DEF IInv, Partition
<1>4. SocketFirst' /\ Drained'
  BY <1>1 DEF IInv, SocketFirst, Drained, Gone, UnderWay
<1>5. NoCallAfterStop' /\ NoRequestCut' /\ EverythingStopped'
  BY <1>1 DEF IInv, NoCallAfterStop, NoRequestCut, EverythingStopped
<1>6. QED
  BY <1>2, <1>3, <1>4, <1>5 DEF IInv

\* A signal is noted, or kills a process that does not catch it yet.
LEMMA SignalKeeps ==
  ASSUME IInv, Signal
  PROVE  IInv'
<1>1. UNCHANGED <<draining, stopped>> /\ signalled' \in BOOLEAN /\ main \notin Gone
  BY DEF Signal
<1>2. CASE Uncaught
  <2>1. Leave("killed") /\ "killed" \in Gone
    BY <1>2 DEF Signal, Gone
  <2>2. server \in ApiServers \/ \A r \in Requests : request[r] \notin UnderWay
    BY <1>2 DEF Uncaught, IInv, Partition, SocketFirst, UnderWay
  <2>3. QED
    BY <1>1, <2>1, <2>2, LeaveKeeps
<1>3. CASE ~Uncaught
  <2>1. UNCHANGED <<server, main, listener, todo, limit, request, kind, late, draining, stopped>>
    BY <1>3 DEF Signal
  <2>2. TypeOK'
    BY <1>1, <2>1 DEF IInv, TypeOK, Left
  <2>3. Partition' /\ SocketFirst' /\ Drained'
    BY <2>1 DEF IInv, Partition, SocketFirst, Drained
  <2>4. NoCallAfterStop' /\ NoRequestCut' /\ EverythingStopped'
    BY <2>1 DEF IInv, NoCallAfterStop, NoRequestCut, EverythingStopped
  <2>5. QED
    BY <2>2, <2>3, <2>4 DEF IInv
<1>4. QED
  BY <1>2, <1>3

\* Without a port most variants end, and fx goes on.
LEMMA PortTakenKeeps ==
  ASSUME IInv, PortTaken
  PROVE  IInv'
<1>1. /\ UNCHANGED <<draining, stopped, signalled>> /\ signalled' \in BOOLEAN
      /\ main \notin Gone /\ main # "building" /\ listener = "unopened"
  BY DEF PortTaken, IInv, TypeOK
<1>2. CASE server # "fx"
  <2>1. Leave("failed") /\ "failed" \in Gone
    BY <1>2 DEF PortTaken, Gone
  <2>2. \A r \in Requests : request[r] \notin UnderWay
    BY <1>1 DEF IInv, SocketFirst, UnderWay
  <2>3. QED
    BY <1>1, <2>1, <2>2, LeaveKeeps
<1>3. CASE server = "fx"
  <2>1. /\ UNCHANGED <<server, main, todo, limit, request, kind, late, draining, stopped>>
        /\ listener' = "taken"
    BY <1>3 DEF PortTaken
  <2>2. TypeOK'
    BY <1>1, <2>1 DEF IInv, TypeOK, Left
  <2>3. Partition' /\ Drained'
    BY <2>1 DEF IInv, Partition, Drained
  <2>4. SocketFirst'
    BY <1>1, <2>1 DEF IInv, SocketFirst
  <2>5. NoCallAfterStop' /\ NoRequestCut' /\ EverythingStopped'
    BY <2>1 DEF IInv, NoCallAfterStop, NoRequestCut, EverythingStopped
  <2>6. QED
    BY <2>2, <2>3, <2>4, <2>5 DEF IInv
<1>4. QED
  BY <1>2, <1>3

\* The process ends after a signal, with everything stopped or early.
LEMMA ReturnKeeps ==
  ASSUME IInv, Return \/ ReturnEarly
  PROVE  IInv'
<1>1. /\ Leave("ended") /\ "ended" \in Gone /\ UNCHANGED <<draining, stopped>>
      /\ signalled' \in BOOLEAN /\ main = "stopping" /\ main \notin Gone
  BY DEF Return, ReturnEarly, Gone, IInv, TypeOK
<1>2. CASE Return
  <2>1. ~draining /\ (todo = <<>> \/ (server = "fx" /\ limit))
    BY <1>2 DEF Return
  <2>2. todo = <<>> => stopped # {} /\ (server \in ApiServers => stopped = Components)
    BY <1>1 DEF IInv, Partition, Components
  <2>3. (\E r \in Requests : request[r] \in UnderWay) => limit
    BY <1>1, <2>1, <2>2 DEF IInv, Drained
  <2>4. server \in ApiServers => stopped = Components \/ (server = "fx" /\ limit)
    BY <2>1, <2>2
  <2>5. QED
    BY <1>1, <2>3, <2>4, LeaveKeeps
<1>3. CASE ReturnEarly
  <2>1. server = "catalog" /\ server \notin ApiServers
    BY <1>3 DEF ReturnEarly, ApiServers
  <2>2. QED
    BY <1>1, <2>1, LeaveKeeps
<1>4. QED
  BY <1>2, <1>3

\* A request changes its own state and, when it calls a client, is late at most
\* when the time limit has run out.
LEMMA RequestKeeps ==
  ASSUME IInv, NEW r \in Requests, NEW state \in States \ {"none", "cut"},
         request' = [request EXCEPT ![r] = state], main \notin Gone,
         UNCHANGED <<server, main, listener, signalled, todo, draining, limit, stopped, kind>>,
         listener \notin {"unopened", "taken"},
         state \in UnderWay => (main = "stopping" /\ stopped # {} => limit),
         late' \in SUBSET Requests, late' # late => limit
  PROVE  IInv'
<1>1. /\ request' \in [Requests -> States]
      /\ \A s \in Requests : request'[s] = IF s = r THEN state ELSE request[s]
  BY DEF IInv, TypeOK
<1>2. TypeOK'
  BY <1>1 DEF IInv, TypeOK, Left
<1>3. Partition'
  BY DEF IInv, Partition
<1>4. SocketFirst'
  BY DEF IInv, SocketFirst
<1>5. Drained'
  BY <1>1 DEF IInv, Drained
<1>6. NoCallAfterStop'
  BY DEF IInv, NoCallAfterStop
<1>7. NoRequestCut'
  BY <1>1 DEF IInv, NoRequestCut, Gone
<1>8. EverythingStopped'
  BY DEF IInv, EverythingStopped
<1>9. QED
  BY <1>2, <1>3, <1>4, <1>5, <1>6, <1>7, <1>8 DEF IInv

\* A call of a client is late only when the time limit has run out.
LEMMA CallKeeps ==
  ASSUME IInv, NEW r \in Requests, NEW c, Call(r, c)
  PROVE  IInv'
<1>1. /\ request' = [request EXCEPT ![r] = "called"] /\ main \notin Gone
      /\ UNCHANGED <<server, main, listener, signalled, todo, draining, limit, stopped, kind>>
      /\ request[r] = "accepted"
      /\ late' = IF c \in stopped THEN late \cup {r} ELSE late
  BY DEF Call
<1>2. listener \notin {"unopened", "taken"}
  BY <1>1 DEF IInv, SocketFirst
<1>3. "called" \in States \ {"none", "cut"} /\ request[r] \in UnderWay
  BY <1>1 DEF States, UnderWay
<1>4. main = "stopping" /\ stopped # {} => limit
  BY <1>3 DEF IInv, Drained
<1>5. c \in stopped => limit
  BY <1>1, <1>4 DEF IInv, Partition, TypeOK, Places, Gone
<1>6. late' \in SUBSET Requests /\ (late' # late => limit)
  BY <1>1, <1>5 DEF IInv, TypeOK
<1>7. QED
  BY <1>1, <1>2, <1>3, <1>4, <1>6, RequestKeeps

\* An open socket takes requests, and any of them may be answered.
LEMMA ServeKeeps ==
  ASSUME IInv, NEW r \in Requests, Accept(r) \/ Answer(r)
  PROVE  IInv'
<1>1. CASE Accept(r)
  <2>1. /\ request' = [request EXCEPT ![r] = "accepted"] /\ main \notin Gone
        /\ UNCHANGED <<server, main, listener, signalled, todo, draining, limit, stopped, kind>>
        /\ listener = "open" /\ late' = late
    BY <1>1 DEF Accept
  <2>2. "accepted" \in States \ {"none", "cut"} /\ late' \in SUBSET Requests
    BY <2>1 DEF States, IInv, TypeOK
  <2>3. stopped = {}
    BY <2>1 DEF IInv, SocketFirst
  <2>4. QED
    BY <2>1, <2>2, <2>3, RequestKeeps
<1>2. CASE Answer(r)
  <2>1. /\ request' = [request EXCEPT ![r] = "answered"] /\ main \notin Gone
        /\ UNCHANGED <<server, main, listener, signalled, todo, draining, limit, stopped, kind>>
        /\ request[r] \in UnderWay /\ late' = late
    BY <1>2 DEF Answer
  <2>2. "answered" \in States \ {"none", "cut"} /\ "answered" \notin UnderWay
        /\ late' \in SUBSET Requests
    BY <2>1 DEF States, UnderWay, IInv, TypeOK
  <2>3. listener \notin {"unopened", "taken"}
    BY <2>1 DEF IInv, SocketFirst, UnderWay
  <2>4. QED
    BY <2>1, <2>2, <2>3, RequestKeeps
<1>3. QED
  BY <1>1, <1>2

\* Every action keeps the invariant.
LEMMA NextIInv == IInv /\ [Next]_vars => IInv'
<1> SUFFICES ASSUME IInv, [Next]_vars PROVE IInv'
  OBVIOUS
<1>1. CASE UNCHANGED vars
  BY <1>1 DEF vars, IInv, TypeOK, Left, Partition, SocketFirst, Drained, NoCallAfterStop,
     NoRequestCut, EverythingStopped
<1>2. CASE Process
  BY <1>2, BuildKeeps, CatchKeeps, OpenKeeps, PortTakenKeeps, NoticeKeeps, BeginKeeps, EndKeeps,
     LimitKeeps, StopKeeps, ReturnKeeps DEF Process
<1>3. CASE Handlers
  <2>1. PICK r \in Requests : Provision(r) \/ Get(r) \/ ListReports(r) \/ Check(r) \/ Answer(r)
    BY <1>3 DEF Handlers
  <2>2. CASE Answer(r)
    BY <2>2, ServeKeeps
  <2>3. CASE \E c : Call(r, c)
    BY <2>3, CallKeeps
  <2>4. QED
    BY <2>1, <2>2, <2>3 DEF Provision, Get, ListReports, Check
<1>4. CASE Clients
  BY <1>4, SignalKeeps, ServeKeeps DEF Clients
<1>5. QED
  BY <1>1, <1>2, <1>3, <1>4 DEF Next

\* The invariant holds at all times.
LEMMA Invariance == Spec => []IInv
BY InitIInv, NextIInv, PTL DEF Spec

-----------------------------------------------------------------------------
\* Every variable keeps its type; what is left to be stopped is a tail of the
\* order.
THEOREM TypeCorrect == Spec => []TypeOK
<1>1. IInv => TypeOK
  BY DEF IInv
<1>2. QED
  BY <1>1, Invariance, PTL

\* No request calls a component that has been stopped, unless the time limit ran
\* out under it.
THEOREM CallsBeforeStop == Spec => []NoCallAfterStop
<1>1. IInv => NoCallAfterStop
  BY DEF IInv
<1>2. QED
  BY <1>1, Invariance, PTL

\* A request that was accepted is answered, unless the time limit ran out, the
\* server is the one that does not wait, or a signal it does not catch yet kills it.
THEOREM RequestsAnswered == Spec => []NoRequestCut
<1>1. IInv => NoRequestCut
  BY DEF IInv
<1>2. QED
  BY <1>1, Invariance, PTL

\* A process that returns has stopped everything, or is fx at its time limit.
THEOREM AllStopped == Spec => []EverythingStopped
<1>1. IInv => EverythingStopped
  BY DEF IInv
<1>2. QED
  BY <1>1, Invariance, PTL

-----------------------------------------------------------------------------
(***************************************************************************)
(* Why a signal ends the process: its own steps use up a finite amount of  *)
(* work, which no request and no client adds to, and it is never stuck.    *)
(***************************************************************************)

\* The steps that stopping what is left may take, Shutdown being two.
StopsLeft ==
  CASE todo = <<>> -> 0
    [] todo = <<"k8s">> -> 1
    [] todo = <<"temporal", "k8s">> -> 2
    [] OTHER -> IF draining THEN 3 ELSE 4

\* A bound on the steps the process may still take: to open its socket, to run out of
\* its time limit, to stop what is left, to return; and before that to see the signal,
\* to catch signals and to be built.
StepsLeft ==
  CASE main = "building" -> 11
    [] main = "starting" -> 9 + IF listener = "unopened" THEN 1 ELSE 0
    [] main = "serving" -> 8 + IF listener = "unopened" THEN 1 ELSE 0
    [] main = "stopping" -> 1 + StopsLeft + (IF listener = "unopened" THEN 1 ELSE 0)
                              + (IF limit THEN 0 ELSE 1)
    [] OTHER -> 0

\* The process gets nearer to its end with each of its steps, and nothing takes it back.
ShutdownAdvances ==
  [][StepsLeft' <= StepsLeft /\ (Process => StepsLeft' < StepsLeft)]_vars

\* The guards of the process's steps, those aside that only open the socket. While
\* Shutdown waits its time limit runs out, and then it waits no longer.
CanGoOn ==
  \/ main \in {"building", "starting"}
  \/ main = "serving" /\ signalled
  \/ Due("http") /\ ~draining
  \/ main = "stopping" /\ draining
  \/ \E c \in {"temporal", "k8s"} : Due(c) /\ ~(server = "fx" /\ limit)
  \/ main = "stopping" /\ ~draining /\ (todo = <<>> \/ (server = "fx" /\ limit))

\* A process that was signalled and is not over has a step to take.
NeverStuck == signalled /\ main \notin Gone => CanGoOn

\* The measure is a number.
LEMMA StepsLeftBound ==
  ASSUME IInv
  PROVE  StepsLeft \in 0 .. 11 /\ StopsLeft \in 0 .. 4 /\ (main \notin Gone <=> StepsLeft > 0)
<1>1. StopsLeft \in 0 .. 4
  BY DEF StopsLeft
<1>2. main \in Places
  BY DEF IInv, TypeOK
<1>3. QED
  BY <1>1, <1>2 DEF StepsLeft, Places, Gone

\* The process is over at once.
LEMMA LeaveAdvances ==
  ASSUME IInv, NEW place \in Gone, Leave(place), main \notin Gone
  PROVE  StepsLeft' < StepsLeft
<1>1. StepsLeft' = 0
  BY DEF Leave, StepsLeft, Gone
<1>2. QED
  BY <1>1, StepsLeftBound

\* What has been stopped need not be stopped again.
LEMMA StopAdvances ==
  ASSUME IInv, EndShutdown \/ StopComponent("temporal") \/ StopComponent("k8s")
  PROVE  StepsLeft' < StepsLeft
<1>1. UNCHANGED <<main, listener, limit>> /\ main = "stopping"
  BY DEF EndShutdown, StopComponent, Due
<1>2. StopsLeft' < StopsLeft
  <2>1. CASE EndShutdown
    <3>1. draining /\ (todo' = <<"temporal", "k8s">> \/ todo' = <<>>)
      BY <2>1, HttpFirst DEF EndShutdown
    <3>2. todo = <<"http", "temporal", "k8s">> \/ todo = <<"http">>
      BY <2>1, HttpFirst
    <3>3. QED
      BY <3>1, <3>2 DEF StopsLeft
  <2>2. ASSUME NEW c \in {"temporal", "k8s"}, StopComponent(c)
        PROVE  StopsLeft' < StopsLeft
    <3>1. todo # <<>> /\ Head(todo) = c /\ todo' = Tail(todo) /\ stopped # {}
      BY <2>2, ComponentNext DEF StopComponent, Due
    <3>2. todo = <<"temporal", "k8s">> \/ todo = <<"k8s">>
      BY <2>2, <3>1, ComponentNext, Tails DEF IInv, Partition
    <3>3. CASE todo = <<"temporal", "k8s">>
      <4>1. todo' = <<"k8s">>
        BY <3>1, <3>3, Tails
      <4>2. StopsLeft = 2
        BY <3>3 DEF StopsLeft
      <4>3. StopsLeft' = 1
        BY <4>1 DEF StopsLeft
      <4>4. QED
        BY <4>2, <4>3
    <3>4. CASE todo = <<"k8s">>
      <4>1. todo' = <<>>
        BY <3>1, <3>4, Tails
      <4>2. StopsLeft = 1 /\ StopsLeft' = 0
        BY <3>4, <4>1 DEF StopsLeft
      <4>3. QED
        BY <4>2
    <3>5. QED
      BY <3>2, <3>3, <3>4
  <2>3. QED
    BY <2>1, <2>2
<1>3. StopsLeft \in 0 .. 4 /\ StopsLeft' \in 0 .. 4
  BY DEF StopsLeft
<1>4. QED
  BY <1>1, <1>2, <1>3 DEF StepsLeft

\* Every step of the process leaves less to do.
LEMMA ProcessAdvances ==
  ASSUME IInv, Process
  PROVE  StepsLeft' < StepsLeft
<1>1. CASE Build
  BY <1>1, LeaveAdvances DEF Build, Gone, StepsLeft
<1>2. CASE PortTaken \/ Return \/ ReturnEarly
  <2>1. CASE \E place \in Gone : Leave(place) /\ main \notin Gone
    BY <2>1, LeaveAdvances
  <2>2. CASE PortTaken /\ ~\E place \in Gone : Leave(place)
    <3>1. /\ UNCHANGED <<main, todo, limit, draining>> /\ main \in {"starting", "serving", "stopping"}
          /\ listener = "unopened" /\ listener' = "taken"
      BY <2>2 DEF PortTaken, Gone, IInv, TypeOK, Places
    <3>2. StopsLeft' = StopsLeft /\ StopsLeft \in 0 .. 4
      BY <3>1 DEF StopsLeft
    <3>3. QED
      BY <3>1, <3>2 DEF StepsLeft
  <2>3. QED
    BY <1>2, <2>1, <2>2 DEF PortTaken, Return, ReturnEarly, Gone
<1>3. CASE Open
  <2>1. /\ UNCHANGED <<main, todo, limit, draining>> /\ main \in {"starting", "serving", "stopping"}
        /\ listener = "unopened" /\ listener' # "unopened"
    BY <1>3 DEF Open, Gone, IInv, TypeOK, Places
  <2>2. StopsLeft' = StopsLeft
    BY <2>1 DEF StopsLeft
  <2>3. QED
    BY <2>1, <2>2, StepsLeftBound DEF StepsLeft
<1>4. CASE Notice
  <2>1. StopsLeft' \in 0 .. 4 /\ listener' = listener /\ main = "serving" /\ main' = "stopping"
    BY <1>4 DEF Notice, StopsLeft
  <2>2. QED
    BY <2>1 DEF StepsLeft
<1>5. CASE BeginShutdown
  <2>1. /\ main = "stopping" /\ UNCHANGED <<main, todo, limit>> /\ todo # <<>> /\ Head(todo) = "http"
        /\ ~draining /\ draining' /\ (listener' = "unopened" <=> listener = "unopened")
    BY <1>5, Zenon DEF BeginShutdown, Due
  <2>2. todo # <<"k8s">> /\ todo # <<"temporal", "k8s">>
    BY <2>1, Tails
  <2>3. StopsLeft = 4 /\ StopsLeft' = 3
    BY <2>1, <2>2 DEF StopsLeft
  <2>4. QED
    BY <2>1, <2>3 DEF StepsLeft
<1>6. CASE LimitRunsOut
  <2>1. /\ main = "stopping" /\ ~limit /\ limit' = TRUE
        /\ UNCHANGED <<main, listener, todo, draining>>
    BY <1>6 DEF LimitRunsOut
  <2>2. StopsLeft' = StopsLeft
    BY <2>1 DEF StopsLeft
  <2>3. QED
    BY <2>1, <2>2, StepsLeftBound DEF StepsLeft
<1>7. CASE EndShutdown \/ StopComponent("temporal") \/ StopComponent("k8s")
  BY <1>7, StopAdvances
<1>8. CASE CatchSignals
  BY <1>8 DEF CatchSignals, StepsLeft
<1>9. QED
  BY <1>1, <1>2, <1>3, <1>4, <1>5, <1>6, <1>7, <1>8 DEF Process

\* Nobody else gives the process more to do.
LEMMA OthersHinderNot ==
  ASSUME IInv, [Next]_vars, ~Process
  PROVE  StepsLeft' <= StepsLeft
<1>1. CASE UNCHANGED <<main, listener, todo, draining, limit>>
  BY <1>1, StepsLeftBound DEF StepsLeft, StopsLeft
<1>2. CASE Signal /\ Leave("killed")
  BY <1>2, LeaveAdvances, StepsLeftBound DEF Signal, Gone, StepsLeft, Leave
<1>3. ASSUME NEW r \in Requests,
             Accept(r) \/ Answer(r) \/ Provision(r) \/ Get(r) \/ ListReports(r) \/ Check(r)
      PROVE  UNCHANGED <<main, listener, todo, draining, limit>>
  BY <1>3 DEF Accept, Answer, Provision, Get, ListReports, Check, Call
<1>4. QED
  BY <1>1, <1>2, <1>3 DEF Next, Handlers, Clients, Signal, vars

\* A shutdown takes at most eleven steps of the process, whatever clients and handlers
\* do meanwhile, and each of its steps is one of them: it never waits for a
\* handler longer than its time limit, and never stops anything twice.
THEOREM ShutdownBounded == Spec => [](StepsLeft \in 0 .. 11) /\ ShutdownAdvances
<1>1. IInv => StepsLeft \in 0 .. 11
  BY StepsLeftBound
<1>2. IInv /\ [Next]_vars
        => [StepsLeft' <= StepsLeft /\ (Process => StepsLeft' < StepsLeft)]_vars
  <2> SUFFICES ASSUME IInv, [Next]_vars
               PROVE  StepsLeft' <= StepsLeft /\ (Process => StepsLeft' < StepsLeft)
    OBVIOUS
  <2>1. StepsLeft \in 0 .. 11 /\ StepsLeft' \in 0 .. 11
    BY StepsLeftBound, NextIInv DEF StepsLeft, StopsLeft
  <2>2. QED
    BY <2>1, ProcessAdvances, OthersHinderNot
<1>3. QED
  BY <1>1, <1>2, Invariance, PTL DEF Spec, ShutdownAdvances

\* No state between the signal and the end leaves the process waiting for something
\* that need not come: not fx at its limit, not a Shutdown that a handler keeps.
THEOREM ShutdownNeverStuck == Spec => []NeverStuck
<1>1. IInv => NeverStuck
  <2> SUFFICES ASSUME IInv, signalled, main = "stopping", ~draining, todo # <<>>,
                      ~(server = "fx" /\ limit)
               PROVE  \E c \in Components : Head(todo) = c
    BY DEF IInv, TypeOK, Places, Gone, NeverStuck, CanGoOn, Due, Components
  <2>1. QED
    BY Tails DEF IInv, Partition, Components, TypeOK, Left
<1>2. QED
  BY <1>1, Invariance, PTL
=============================================================================
