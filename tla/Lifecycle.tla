------------------------------ MODULE Lifecycle ------------------------------
(***************************************************************************)
(* From start to end of a server process: the API server of                *)
(* go-di-comparison in its three variants (manual, fx, wire), and the two  *)
(* catalog servers.  A process builds its parts, listens, serves requests, *)
(* and on a signal shuts its HTTP server down, which closes the listener   *)
(* and waits for the requests under way until a time limit runs out.  Then *)
(* the API server stops its Temporal worker and closes its Kubernetes      *)
(* client; in the repository both are stubs for the ones they name.  The   *)
(* API server's three variants start to serve before they catch signals.   *)
(*                                                                         *)
(* net/http, echo and fx are external, as far as the code relies on them:  *)
(* a server that has been shut down does not listen any more; fx runs its  *)
(* OnStop hooks in reverse order under one time limit, and starts none     *)
(* after it has run out.                                                   *)
(***************************************************************************)
EXTENDS Naturals, SequencesExt

CONSTANT Requests   \* the requests clients may send (bound)

VARIABLES
  server,     \* the program (fixed)
  main,       \* where its main is
  listener,   \* its socket
  signalled,  \* SIGTERM or SIGINT has come
  todo,       \* what is left to be stopped
  draining,   \* Shutdown is under way
  limit,      \* the time limit of the shutdown has run out
  stopped,    \* the components that have been stopped
  request,    \* request[r]: the state of the request
  kind,       \* kind[r]: its operation
  late        \* requests that have called a stopped component

vars == <<server, main, listener, signalled, todo, draining, limit, stopped,
          request, kind, late>>

Servers == {"manual", "fx", "wire", "catalog", "schema"}
ApiServers == {"manual", "fx", "wire"}
Components == {"http", "temporal", "k8s"}

\* building: main has not started to serve. starting: it has, and does not catch
\* signals yet. failed: it gave up by itself. killed: by a signal it does not
\* handle. ended: it returned after a signal.
Places == {"building", "starting", "serving", "stopping", "ended", "failed", "killed"}
Gone == {"ended", "failed", "killed"}

States == {"none", "accepted", "called", "answered", "cut"}
UnderWay == {"accepted", "called"}

\* The operations of the API server, and a request to a catalog server.
ApiKinds == {"CreateCompute", "CreateDatabase", "GetCompute", "GetDatabase",
             "GetReport", "CheckQuota"}
Kinds == ApiKinds \cup {"catalog"}

-----------------------------------------------------------------------------
\* The statements of runWithOrderedShutdown, in the two variants that have it.
ManualOrder == <<"http", "temporal", "k8s">>
WireOrder == <<"http", "temporal", "k8s">>

\* As if fx ran the OnStop hooks in the order they are registered.
FxOrderRegistered == <<"k8s", "temporal", "http">>

\* startServer's hooks, the last one registered stopped first.
FxOrder == Reverse(<<"k8s", "temporal", "http">>)

StopOrder ==
  [manual |-> ManualOrder, fx |-> FxOrder, wire |-> WireOrder,
   catalog |-> <<"http">>, schema |-> <<"http">>]

Init ==
  /\ server \in Servers
  /\ main = "building" /\ listener = "unopened" /\ signalled = FALSE
  /\ todo = <<>> /\ draining = FALSE /\ limit = FALSE /\ stopped = {}
  /\ request = [r \in Requests |-> "none"]
  /\ kind \in [Requests -> Kinds]
  /\ \A r \in Requests : kind[r] = "catalog" <=> server \notin ApiServers
  /\ late = {}

\* The process is over, and with it every request under way.
Leave(place) ==
  /\ main' = place
  /\ listener' = "closed"
  /\ request' = [r \in Requests |->
                   IF request[r] \in UnderWay THEN "cut" ELSE request[r]]
  /\ UNCHANGED <<server, todo, limit, kind, late>>

-----------------------------------------------------------------------------
\* The parts are constructed and the goroutine that serves is started; a
\* constructor's error ends main.
Build ==
  /\ main = "building"
  /\ \/ /\ main' = IF server \in ApiServers THEN "starting" ELSE "serving"
        /\ UNCHANGED <<server, listener, todo, limit, request, kind, late>>
     \/ Leave("failed")
  /\ UNCHANGED <<signalled, draining, stopped>>

\* NotifyContext, and the Wait of fx's Run, come after that.
CatchSignals ==
  /\ main = "starting"
  /\ main' = "serving"
  /\ UNCHANGED <<server, listener, signalled, todo, draining, limit, stopped,
                 request, kind, late>>

\* The catalog source server catches signals first of all, the schema server when
\* it is built, the API server when it serves already. Until then a signal kills.
Uncaught ==
  main = "starting" \/ (main = "building" /\ server # "catalog")

Signal ==
  /\ main \notin Gone /\ ~signalled
  /\ signalled' = TRUE
  /\ IF Uncaught
       THEN Leave("killed")
       ELSE UNCHANGED <<server, main, listener, todo, limit, request, kind, late>>
  /\ UNCHANGED <<draining, stopped>>

\* The goroutine that serves opens the socket, or finds that the server has been
\* shut down meanwhile.
Open ==
  /\ main \notin Gone \cup {"building"} /\ listener = "unopened"
  /\ listener' = IF "http" \in stopped \/ draining THEN "closed" ELSE "open"
  /\ UNCHANGED <<server, main, signalled, todo, draining, limit, stopped,
                 request, kind, late>>

\* The port is taken. That ends the process, but not the fx variant, which drops
\* the error of Start and goes on without a socket.
PortTaken ==
  /\ main \notin Gone \cup {"building"} /\ listener = "unopened"
  /\ IF server = "fx"
       THEN listener' = "taken" /\ UNCHANGED <<server, main, todo, limit, request, kind, late>>
       ELSE Leave("failed")
  /\ UNCHANGED <<signalled, draining, stopped>>

\* main (in the catalog source server a goroutine of it) sees the signal.
Notice ==
  /\ main = "serving" /\ signalled
  /\ main' = "stopping"
  /\ todo' = StopOrder[server]
  /\ UNCHANGED <<server, listener, signalled, draining, limit, stopped,
                 request, kind, late>>

\* c is the next to be stopped.
Due(c) == main = "stopping" /\ todo # <<>> /\ Head(todo) = c

\* Shutdown closes the listener ...
BeginShutdown ==
  /\ Due("http") /\ ~draining
  /\ draining' = TRUE
  /\ listener' = IF listener = "open" THEN "closed" ELSE listener
  /\ UNCHANGED <<server, main, signalled, todo, limit, stopped, request, kind, late>>

\* As if Shutdown did not wait for the requests under way.
EndShutdownAtOnce ==
  /\ draining /\ main = "stopping"
  /\ draining' = FALSE /\ stopped' = stopped \cup {"http"} /\ todo' = Tail(todo)
  /\ UNCHANGED <<server, main, listener, signalled, limit, request, kind, late>>

\* ... and returns when no request is under way, or when its time is over. Its
\* error is logged, dropped, or noted by fx.
EndShutdown ==
  /\ draining /\ main = "stopping"
  /\ limit \/ \A r \in Requests : request[r] \notin UnderWay
  /\ draining' = FALSE /\ stopped' = stopped \cup {"http"} /\ todo' = Tail(todo)
  /\ UNCHANGED <<server, main, listener, signalled, limit, request, kind, late>>

\* As if Shutdown were called with a context that never ends.
NoLimit == FALSE /\ UNCHANGED vars

\* 30 s, 15 s (fx, for all its hooks) and 5 s.
LimitRunsOut ==
  /\ main = "stopping" /\ ~limit
  /\ draining \/ server = "fx"
  /\ limit' = TRUE
  /\ UNCHANGED <<server, main, listener, signalled, todo, draining, stopped,
                 request, kind, late>>

\* As if a hook were registered again by its own run.
StopAgain(c) ==
  /\ Due(c)
  /\ ~(server = "fx" /\ limit)
  /\ stopped' = stopped \cup {c}
  /\ todo' = Append(Tail(todo), c)
  /\ UNCHANGED <<server, main, listener, signalled, draining, limit, request, kind, late>>

\* temporal.Stop and k8s.Close. fx starts no hook after the time limit.
StopComponent(c) ==
  /\ Due(c)
  /\ ~(server = "fx" /\ limit)
  /\ stopped' = stopped \cup {c}
  /\ todo' = Tail(todo)
  /\ UNCHANGED <<server, main, listener, signalled, draining, limit, request, kind, late>>

\* As if the other variants gave up at the limit too.
ReturnAtLimit ==
  /\ main = "stopping" /\ ~draining
  /\ todo = <<>> \/ limit
  /\ Leave("ended")
  /\ UNCHANGED <<signalled, draining, stopped>>

\* Everything is stopped; or fx gives up at its limit.
Return ==
  /\ main = "stopping" /\ ~draining
  /\ todo = <<>> \/ (server = "fx" /\ limit)
  /\ Leave("ended")
  /\ UNCHANGED <<signalled, draining, stopped>>

\* ListenAndServe of the catalog source server returns when Shutdown begins, and
\* main with it.
ReturnEarly ==
  /\ server = "catalog" /\ draining
  /\ main = "stopping"
  /\ Leave("ended")
  /\ UNCHANGED <<signalled, draining, stopped>>

-----------------------------------------------------------------------------
\* The socket hands a request to its handler.
Accept(r) ==
  /\ listener = "open" /\ main \notin Gone
  /\ request[r] = "none"
  /\ request' = [request EXCEPT ![r] = "accepted"]
  /\ UNCHANGED <<server, main, listener, signalled, todo, draining, limit, stopped,
                 kind, late>>

\* A service's call of its client c; nothing keeps it from calling a client that
\* has been stopped.
Call(r, c) ==
  /\ main \notin Gone /\ request[r] = "accepted"
  /\ request' = [request EXCEPT ![r] = "called"]
  /\ late' = IF c \in stopped THEN late \cup {r} ELSE late
  /\ UNCHANGED <<server, main, listener, signalled, todo, draining, limit, stopped, kind>>

\* Both create operations start a workflow.
Provision(r) == kind[r] \in {"CreateCompute", "CreateDatabase"} /\ Call(r, "temporal")

\* Both get operations read a resource of the cluster.
Get(r) == kind[r] \in {"GetCompute", "GetDatabase"} /\ Call(r, "k8s")

\* The report reads the replica, which nothing closes.
ListReports(r) == kind[r] = "GetReport" /\ Call(r, "replica")

\* The checker of the request's provider.
Check(r) == kind[r] = "CheckQuota" /\ Call(r, "checker")

\* The result, or its error mapped to a status; an invalid request, and one to a
\* catalog server's cache, is answered without a call.
Answer(r) ==
  /\ main \notin Gone /\ request[r] \in UnderWay
  /\ request' = [request EXCEPT ![r] = "answered"]
  /\ UNCHANGED <<server, main, listener, signalled, todo, draining, limit, stopped,
                 kind, late>>

-----------------------------------------------------------------------------
Process ==
  \/ Build \/ CatchSignals \/ Open \/ PortTaken \/ Notice
  \/ BeginShutdown \/ EndShutdown \/ LimitRunsOut
  \/ StopComponent("temporal") \/ StopComponent("k8s")
  \/ Return \/ ReturnEarly

Handlers ==
  \E r \in Requests :
    Provision(r) \/ Get(r) \/ ListReports(r) \/ Check(r) \/ Answer(r)

Clients == Signal \/ \E r \in Requests : Accept(r)

\* A process that has ended does nothing more.
Next == Process \/ Handlers \/ Clients

\* The process runs on and its clock too. No handler has to end.
Spec == Init /\ [][Next]_vars /\ WF_vars(Process)

-----------------------------------------------------------------------------
\* What may be left to be stopped: the HTTP server is first in every order.
Left(s) ==
  IF s \in ApiServers
    THEN {<<>>, <<"k8s">>, <<"temporal", "k8s">>, <<"http", "temporal", "k8s">>}
    ELSE {<<>>, <<"http">>}

TypeOK ==
  /\ server \in Servers
  /\ main \in Places
  /\ listener \in {"unopened", "open", "taken", "closed"}
  /\ signalled \in BOOLEAN
  /\ todo \in Left(server)
  /\ draining \in BOOLEAN
  /\ limit \in BOOLEAN
  /\ stopped \in SUBSET Components
  /\ request \in [Requests -> States]
  /\ kind \in [Requests -> Kinds]
  /\ late \in SUBSET Requests

\* "1. HTTP first, 2. Temporal - drain in-flight workflow submissions, 3. K8s
\* last" (lifecycle.go): a component is called after it was stopped only if the
\* time limit ran out under the request.
NoCallAfterStop == late # {} => limit

\* A request that was accepted is answered before its server is gone, but for
\* three ways to be cut: the time limit ran out; the catalog source server does not
\* wait for it; or the signal came to an API server that served and did not catch
\* it yet.
NoRequestCut ==
  (\E r \in Requests : request[r] = "cut") =>
    \/ limit
    \/ server = "catalog"
    \/ main = "killed" /\ server \in ApiServers

\* A process that returns after a signal has stopped everything, also after a
\* shutdown that failed; only fx gives up at its time limit.
EverythingStopped ==
  main = "ended" /\ server \in ApiServers =>
    stopped = Components \/ (server = "fx" /\ limit)

\* A signal ends the process, however long a handler takes.
SignalEnds == signalled ~> main \in Gone
=============================================================================
