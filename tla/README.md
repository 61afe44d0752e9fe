# TLA+ models of kitchen-sink

The repository is a collection of independent proofs of concept, most of them
in Go, around one platform: catalog servers that read Crossplane XRDs, a driver
of an approval workflow, Keycloak, Temporal and Argo CD experiments, and
comparisons of libraries. Each of them is a program of its own; they share no
state. This directory models the ones with logic of their own, one module per
program, checks them with TLC on small instances and proves the most important
results with TLAPS for every instance.

    tlasany M.tla                        parse a module
    tlc -workers 2 -config X.cfg M       model-check module M
    tlapm MProofs.tla                    check the proofs

`PROJECT.json` lists components, runs, hazards, findings and theorems, and maps
every definition to the lines it models.

## 1. Inventory

| part (under `src/`) | state it keeps | operations | talks to | what is hard | what makes it correct | models |
|---|---|---|---|---|---|---|
| `crossplane-xrd-catalog-source-poc`: catalog source server | a cache per pod, one shared row `catalog_snapshot` | warm start from the row, poll (LIST, derive, swap, upsert), GET /catalog | remote cluster, PostgreSQL | pods interleave around one row; exits inside a poll; statements that outlive their pod | whole snapshots only, never backwards in a pod's life, current in the end | CatalogView, CatalogSync |
| `horizon-workflow-approval-gate-poc`, `main.go`, `definition.go`: approval gate | the workflow on the platform; main's place in its script | register kind, draft, publish, create, process, trigger, read until settled | workflow platform; other approvers | asynchronous platform, stale reads, others acting, errors after an effect | granted by both layers only, nothing left waiting, the program ends | TwoLayerGate, ApprovalDefinition, ApprovalGate |
| the same, `fingerprint.go`, `idempotency.go`: scripts | the ids created, attempts | create (also from goroutines), publish, cancelWhenReady | workflow platform | lost answers, refused and repeated cancellations, concurrent creations | every workflow created is cancelled or warned of | Fingerprint |
| the same, `custom_kind.go` | a secret, a config entry and a user group kind in the tenant, which outlive the run | set up, tear down | tenant API | an entry is replaced by DELETE and POST; runs that break off and are repeated | a workflow finds its kind complete; a clean-up tells what it leaves | CustomKind, ApprovalGate |
| the same, `auth.go` | none | a password grant with two prompts, one claim read | Keycloak | it may fail | - | ApprovalGate (`Login`) |
| `crossplane-xrd-versioned-schema-provisioning-poc`: schema server | a cache and `ready` | poll, template, provision | remote cluster | stale entry when Create runs; retries and late Creates; restarts; served versions without parameters | answers are true, a template is refused for a cause only, current in the end | VersionedCatalog |
| `go-http-framework-comparison`: compute store and six front ends | a map of instances under an RWMutex | create, get, list, delete | HTTP clients | live pointers leave the lock; paging limit | each call takes effect at one instant, pages are exact | InstanceRegistry, ComputeStore |
| `go-di-comparison`: life cycles of the API server, in three variants; those of the two catalog servers | socket, HTTP server, Temporal worker, Kubernetes client | build, listen, serve, ordered shutdown in 30, 15 or 5 s | Temporal, Kubernetes (stubs), clients | signals at any time, before they are caught too; taken ports; the time limit passes with requests under way | nothing is closed under its user, no request is cut, everything is stopped | Lifecycle |
| `keycloak-session-revoke`, `keycloak-audience-claim` | the loopback server and the two channels of a login | login, then one of seven flows | browser, Keycloak, Horizon | callbacks late, repeated, or meant for another run; time limit; a session shared by all runs | a login ends; a verdict has a cause | LoopbackLogin, KeycloakProbe |
| `temporal-multi-cluster-replication-poc`: worker | none: workflow history is the Temporal server's | one activity that sleeps, registered | Temporal | attempts in two clusters after a failover, decided by the server | - | no |
| `multi-cluster-provider-config-sync-poc`: scripts | none of its own: git repository, cluster secrets | bootstrap, register, onboard a tenant | git, Argo CD, GCP | a run that dies and is repeated | - | no |
| `go-metrics-library-comparison` | instruments of the libraries | record, scrape | Prometheus | none of its own | - | no |
| `lbaas-proxy-auth-poc` | none | a list of HTTP requests | proxies | none | - | no |
| log shipping, monitoring, game day, TLS patch | configuration files | set-up scripts | other programs | none of its own | - | no |

"No" means that there is nothing of the repository's own to check; section 7
has the reasons.

## 2. Modules and the code

### Catalog source: CatalogView, CatalogSync

`CatalogSync` has the remote cluster as a `history` of sets of enabled XRDs,
and for each pod a `phase`, its `cache` (`Cache.items`), the result `listed` of
the poll under way; `db` is the row, `writes` the upserts sent and not executed.

| action | code |
|---|---|
| `WarmStart` | `main`: Load, Seed, and only then the poller and the listener |
| `Tick`, `ListOk`, `ListFail` | `RunPoller`'s ticker; `ListEnabledXRDs` and `deriveItem` |
| `Swap` | `Cache.Swap`, the slice replaced under the lock |
| `SendUpsert`, `Execute`, `Lose`, `UpsertReturns` | `Store.Upsert`; the database executes it or not, and the pod learns of it or not |
| `Exit` | the process ends at any of these points |
| `ClusterMoves` | someone changes the XRDs (external) |

What makes the model interesting is that a LIST, the swap, the sending of the
statement, its execution and its answer are steps of their own. A revision
number `rev` is carried with each snapshot. The program stores the items alone;
`rev` is a history tag no guard reads.

`CatalogView` is the promise to a reader: a pod that is up serves one whole
snapshot the cluster really had, and moves only forward while it lives. It has
neither poller nor database. `ImplementsView` is `CatalogView!Spec` under the
mapping `served <- Served`.

### Approval gate: TwoLayerGate, ApprovalDefinition, ApprovalGate

`ApprovalDefinition` is what `buildDefinition` computes: nodes, triggers and
transitions for each choice of the three features that change its shape. It is
data, as it is in the program: the platform interprets it. `ApprovalGate` puts
the interpreter (external; modelled from the client, its comments and the
recorded `run-*.log`) and `main` side by side.

- Platform: `AutoMove`, `CheckSkip`, `Apply`, `Break`. A trigger is accepted
  only when the step waits (`Allowed`), is applied later, and until then a read
  may show either the old status or "processing".
- Other people: `OtherActs`, in production mode only.
- `main`: `Prepare`, `Create`, `Process`, `Settle` (one read of `settled`),
  `Act`, the custom kind's cancel, and an error at each call, before or after
  the platform has acted. `AfterSettle` is main's branching on the status read.

The variants of `VARIANT` may be combined. Where layer 1's groups are chosen, main
takes the first of service-role, user-groups and custom-kind (`TakesKind`), and
refuses the custom kind outside production mode; its cancel depends on custom-kind
alone. `other` stands for one of the first two.

`TwoLayerGate` is the promise about one request. The mapping reads a layer's
state off `reached` and `decided`. It lets a layer that may be skipped be skipped
by anybody, as `definition.go:170` does.

`CustomKind` is the part of a run that works on the tenant: `Upsert` is one
request of `setupCustomKind` for one of three entries, `Remove` one deletion of
`teardownCustomKind`. Any request may fail, before or after it took effect, and
a run starts from any state that earlier ones may have left. `ApprovalGate`
composes it with main: `SetUp` runs it before `RegisterKind`, `CreateDraft`,
`Publish` and the creation of the workflow, and `CleanUp` runs the teardown
instead of all that when `CLEANUP=1`.

### Fingerprint scripts: Fingerprint

The four variants are sequences of instructions (`Program`) over slots; a slot
is one call of create and the workflow it may yield. Goroutines started
together are one instruction whose creations are accepted, answered and
recorded in any order; the script waits for all of them (`wg.Wait`). Since
neither of the platform's delays (its duplicate index, and the entering of the
first step) has a bound, a creation or a cancellation may be accepted or
refused at any time; that is all the scripts can rely on. Waits are therefore
left out, and so are the duplicate probes, which change nothing.
`FailedAttempt` is the loop of `cancelWhenReady`. The workflows are production
workflows, so others may end them, too (`EndsElsewhere`: the platform gives one
up, or somebody acts in the portal); a cancellation is then refused, and what is
"over" is told from what the script has "ended". That the scripts are data has
a use: what makes a script a good one can be said of the data (section 5).

### Versioned schema server: VersionedCatalog

One catalog entry, one server process, and users. `cached`, `ready` and
`polling` are the poller and its cache; `Check` is `handleProvision` up to the
call of Create, `Create`/`CreateFails` the call, `Respond` the answer. The cluster
may change between `Check` and `Create`; a Create whose handler has gone (the
user's connection broke, or the server restarted) is in `late`, and is executed
later or never. `ServedAt` are the versions of the entry: the served ones that are
`Described`, which means that their schema has `spec.parameters`. The storage
version, which `Template` puts on a template, is taken without a look at them, as
`deriveEntrySchema` does. `Template` remembers in `since` which revision it was made
from: a history tag for `TemplateStaysGood`.

### Compute store: InstanceRegistry, ComputeStore

`ComputeStore` is `shared/domain.go` under concurrent handlers. A call is a
goroutine: `Lock` (for itself or shared), the method's checks, its change, and
the release of the lock on every return. `CreateFree`/`Insert` and
`DeleteFound`/`Mark` separate a check from the change that relies on it. Get and
List leave the store with pointers (`Point`); `Encode` then reads the status
without the lock. That is a data race, and a Go string is two words, so `Mark`
writes and `Encode` reads one word at a time, in either order. The six front
ends are data: the flaws they refuse and the size of their pages, the client's or
the default. They are two kinds, which is why `FrontEnds` has two elements.

`InstanceRegistry` is the promise to clients: every call takes effect at one
instant. The mapping reads an instance as deleting when both words say so, and
gives a call its verdict when it leaves the store.

### Life cycles: Lifecycle

One server process from `Build` to its end, for five programs. The API server of
`go-di-comparison` has three variants, which serve before they catch signals
(`Build` leaves them "starting" until `CatchSignals`; `Uncaught`), and which differ in the order and the time
limit of their shutdown and in what a taken port does to them (`StopOrder`,
`PortTaken`, `Return`). The two catalog servers have the HTTP server only, and
the catalog source server returns as soon as its shutdown has begun
(`ReturnEarly`). A request is accepted while the socket is open, calls the client
its operation uses (`Provision`, `Get`, `ListReports`, `Check`), and is answered;
nothing in the code keeps a handler from calling a client that is stopped, and
`late` remembers that one did. `BeginShutdown` and `EndShutdown` are the two
halves of `http.Server.Shutdown`, with `LimitRunsOut` between them.

### Keycloak programs: LoopbackLogin, KeycloakProbe

`LoopbackLogin` is the login both programs share. `Listen` takes the fixed port
or gives up; `Callback` starts a handler on whichever login listens, `Deliver` is
the handler's send on a channel of capacity one; `TakeCode`, `TakeError` and
`TimeOut` are the branches of login's select; `Shutdown` and `Drained` are the
deferred shutdown, which waits for handlers. Codes are told apart only by whose
login page they belong to.

`KeycloakProbe` adds the seven flows, each as the requests its verdict depends
on, and Keycloak's session. `EndSession` is a logout or a revocation, which may be
executed or not whatever its answer says; `TryRefresh` is the refresh after it and
`Replies` what Keycloak may answer; `Verify` is `printVerifyResult`, which reads
that answer and nothing else. `seen` is what a flow keeps between two such steps,
the groups `ReadGroups` finds in the token included. All runs use one browser: a
logout of one ends the session of all, a revocation may, and an offline token has a
session of its own (`DieWith`, `Kill`).

## 3. Runs

All bounds are in the `.cfg` files. "Violation" runs show a disagreement
between the code and its own documentation (section 6).

| run | what is checked | bounds, and why they are enough |
|---|---|---|
| `catalog_sync` | `TypeOK`, `SnapshotsAuthentic`, `PollsGoForward`, `ImplementsView`, `ServesCurrentInTheEnd`, `RowCurrentInTheEnd` | two pods, two XRDs of which one has no service id, one change, one exit: two pods and two revisions are what an upsert that goes backwards needs; the exit lets a statement outlive its pod and be read by the next process. Safety is proved for every bound. |
| `catalog_row` | `RowNeverGoesBack` (violation) | the same without an exit |
| `approval_gate` | `TypeOK`, `NoRequestLeftWaiting`, `HappyRunGrants`, `CleanupHonest`, `KindComplete`, `KindKeepsEntries`, `TriggerApplies`, `ImplementsGate`, `DriverEnds` | all modes, scenarios and features, with and without a clean-up, and every state of the tenant; two repeated reads instead of the program's number: one in which nothing happens and one in which something does. Safety is proved for every number. |
| `gate_claim` | `FinishedClaim` (violation) | the same |
| `fingerprint` | `TypeOK`, `EveryKeptCancelled`, `CasesAsLabelled`, `ScriptEnds` | all four scripts; two simultaneous creations of five, two attempts at a cancellation and one mishap: a lost answer, or a workflow that somebody else ends. Two creations are what a race of appends needs; slots beyond them are symmetric. Safety is proved for every bound. |
| `versioned_catalog` | `TypeOK`, `AnswersTrue`, `OnlyWhatWasAsked`, `TemplateStaysGood`, `CurrentInTheEnd` | three versions of which two have disjoint schemas and one describes no parameters, one change, one restart, two sends: the second send meets the late Create of the first. Two users with one send each have been checked as well; the run takes minutes and adds a second source of Creates for the same name. |
| `versioned_served` | `ServedMeansAccepted` (violation) | the same without a restart |
| `compute_store` | `TypeOK`, `AnswersInOrder`, `PagesExact`, `TornOnlyByOverlap`, `ImplementsRegistry`, `EveryCallAnswered` | three calls, two names, two tenants, pages of 0, 1 and 2, with 2 the default in the place of 20 and the largest one allowed in the place of 100; `MCWanted` picks requests around one name. Three calls are what the properties relate: a creation, a deletion and a third that meets both, or two instances and a page. The safety properties have been checked with a fourth call as well. |
| `compute_limit` | `LimitAsDocumented` (violation) | the same |
| `compute_status` | `StatusAsDocumented` (violation) | the same |
| `lifecycle` | `TypeOK`, `NoCallAfterStop`, `NoRequestCut`, `EverythingStopped`, `SignalEnds` | five servers, two requests of any operation: one that is answered and one that is still under way. Safety is proved for any number. |
| `keycloak_probe` | `TypeOK`, `LateCallbackHarmless`, `PassHasCause`, `SuccessNeedsTokens`, `ProbeEnds` | two runs, one with any flow and one that logs out; three callbacks: one more than the taken one and the buffered one is what it takes to hold a shutdown. Safety is proved for any number of runs and callbacks. |

Deadlock is checked except where the program ends: the approval gate, the
scripts, the servers of `Lifecycle` and the Keycloak programs stop, and the calls
of the compute store are finitely many, so their runs say `CHECK_DEADLOCK FALSE`.

What the properties are about:

- `SnapshotsAuthentic`: no cache, poll result, statement under way or row ever
  mixes two revisions, whichever pods poll, fail, exit and restart.
- `PollsGoForward`: what a poll is about to swap in is never older than what is
  served, the warm start from another pod's row included. It fails if the
  poller is started before the cache is seeded.
- `RowCurrentInTheEnd`: `RowNeverGoesBack` is violated, but the row heals.
- `ImplementsGate`: granted only through both layers, each decided once, a
  refusal at a layer ends the request.
- `TriggerApplies`: the triggers of a step and the transitions that wait for them
  are written apart in `definition.go`; no trigger is accepted that the workflow
  could not act on, or could act on in two ways.
- `NoRequestLeftWaiting`: a run that ends without error or warning leaves no
  request on an approver's desk, despite stale reads.
- `HappyRunGrants`: the happy scenario is granted unless others acted or the
  platform broke the workflow off.
- `KindComplete`: a workflow finds the custom kind, its secret and its config as
  its own run stored them, although each of the two is deleted first and earlier
  runs may have broken off anywhere.
- `CleanupHonest`, `KindKeepsEntries`: what a clean-up leaves it has warned of,
  and it takes neither entry from under a kind that stays without a warning: the
  order of the deletions matters.
- `EveryKeptCancelled`: what is still open when a script ends is a workflow
  whose id never reached the script or was dropped, or one it warned of.
  `EveryWorkflowCancelled` is the README's claim, without the dropped one.
- `CasesAsLabelled`: a case creates its workflow while the other one is in the
  state the case's label names, as far as it is the script's to bring about: it has
  been cancelled before D, and is not cancelled yet at G2. If the platform or
  somebody else has ended the workflow of G1 first, "while … is active" is false
  and the script does not notice.
- `AnswersTrue`: no XR that its version's schema refuses; 201 and 400 stay true
  through retries, lost answers and restarts.
- `OnlyWhatWasAsked`: also a Create that is executed long after its request makes
  what some user has sent, and nothing else.
- `TemplateStaysGood`: a ready server refuses the version of a template it gave
  out with 404 only if in between the XRD was not offered or did not serve that
  version, or if the version describes no parameters. `ServedMeansAccepted`, which
  fails, is what the runbook says: without the last of the three.
- `AnswersInOrder`: a client told of an instance finds it in every later call,
  and wholly deleting when it was told of the deletion: the race touches only
  calls that overlap.
- `TornOnlyByOverlap`: what the race can do at most: a status that is none of the
  texts is read only by a call that overlaps the deletion of its instance.
- `PagesExact`: no other tenant's instance; and where the client's limit is one the
  API allows and reaches the store, no more than it, and nothing missing from a page
  that is not full. `LimitAsDocumented`, which fails, says that no other limit is
  answered with a page, and that the client's is the one that counts.
- `NoCallAfterStop`: "1. HTTP first, 2. Temporal, 3. K8s last" (`lifecycle.go`)
  keeps requests from calling what is stopped, but for those the time limit
  leaves. The order of fx is that of its hooks, reversed.
- `NoRequestCut`: a request that was accepted is answered before its server is
  gone. It needs three exceptions: the time limit, the catalog source server, and a
  signal that comes to an API server before it is caught.
- `EverythingStopped`: also after a shutdown that failed, or a port that was
  taken; fx alone gives up at its limit.
- `LateCallbackHarmless`: a callback after login has made up its mind does not
  hold the shutdown, because the channels are buffered; one more does, and
  Shutdown is called without a time limit. `ProbeEnds` has that exception. A
  callback in the channel when the time limit decides counts as well.
- `PassHasCause`: the flows look at no status of the logout or revocation, so a PASS
  may be printed after one that failed. Then another run's, which was executed, has
  ended the session, and the token is no offline token.
- `SuccessNeedsTokens`: a login that returns neither tokens nor an error leads to no
  claims, no verdict on subscriptions, no STABLE and no PASS. FAIL, CHANGED and
  "absent from JWT groups" are printed all the same (section 6).
- `ServesCurrentInTheEnd`, `CurrentInTheEnd`, `DriverEnds`, `ScriptEnds`,
  `SignalEnds`: a failed poll does not end the polling; the programs end.

## 4. Fairness

- Weak fairness of a pod's, a server's or a script's own steps: goroutines that
  can run are run, and a call that is out returns, with an answer or an error.
  The second half is an assumption: neither the cluster client
  (`xrdclient.go:61`) nor `http.DefaultClient` (`workflow_client.go:33`) has a
  time limit, so a connection that hangs stops the poller or the driver. It is
  listed among the hazards. The Keycloak programs' `http.PostForm`
  (`keycloak-session-revoke/main.go:474`, `:492`, `:571`;
  `keycloak-audience-claim/main.go:196`) is taken to return in the
  same way, and has no time limit either: `ProbeEnds` rests on it.
- Strong fairness of `ListOk`, and of the execution of a pod's statement: a
  cluster or database that is asked again and again answers some time. Without it
  nothing could be said about being current in the end.
- Strong fairness of `Lock` in the compute store: `sync.RWMutex` keeps new
  readers out while a writer waits, and its mutex is handed to waiters.
- Weak fairness of each Keycloak program with its handlers (`Runs(l)`), and of a
  server process with its clock (`Process`). Nobody has to call back, and no
  handler of a server has to end: `SignalEnds` rests on the time limits alone.
- No fairness for changes of the cluster, exits, restarts, users, other
  approvers, or the workflow platform. `DriverEnds` and `ScriptEnds` hold
  although the platform may never process a workflow.

## 5. Proofs

`CatalogSyncProofs` (any set of pods, any XRDs, any bound; assumptions
`IdentifiedAssumption` and `BoundsAssumption`):

- `TypeCorrect`, `AlwaysAuthentic`, `ForwardOnly`, from the inductive invariant
  `IInv == TypeOK /\ SnapshotsAuthentic /\ PollsGoForward`. None of the three is
  inductive alone: the authenticity of the cache follows from that of the poll
  result and of the row; that polls go forward needs that the tag of a served
  snapshot is bounded by the current revision, which is part of authenticity.
  The lemma `AuthenticStable` (the cluster only appends to its history) carries
  it over a change.
- `Refinement`: `Spec => CatalogView!Spec`. A swap maps to `Refresh` and needs
  `PollsGoForward` for "never older" and `SnapshotsAuthentic` for "one whole
  snapshot"; a warm start maps to `PodUp`, an exit to `PodDown`, a change to
  `ClusterMoves`; everything else stutters.

`ApprovalGateProofs` (any number of settle attempts, all features, modes and
scenarios; assumption `SettleAttemptsAssumption`):

- `IInv` adds to `TypeOK` how the platform's variables hang together
  (`WorkflowShape`), what a workflow has been through by the node it is at
  (`Progress`), what main knows of the workflow by the place it is at
  (`DriverKnows`), and the state of an undisturbed happy run (`HappyPath`). The
  crux is `DriverKnows` at the second trigger: after a stale read the first
  trigger may still be pending, and then the platform refuses the second.
- `TypeCorrect`, `NothingLeftWaiting` and `HappyRun` follow from it.
- `Refinement`: `Spec => TwoLayerGate!Spec`. `AutoMove` maps to `Open1` or
  `BreakDown`, `Apply` to the decision of a layer by the transition it takes,
  `Break` to `BreakDown`, and every step of the driver stutters.

- `CleanupTells`, `KindThere` and `EntriesKept` rest on a second invariant,
  `TenantKnows`: what the entry a set-up or a clean-up is at says of the entries
  it has dealt with.

`FingerprintProofs` (any set of simultaneous creations, any number of attempts,
lost answers and workflows that others end; assumptions `ScriptsAssumption`, `CancelAttemptsAssumption`,
`RaceSlotsAssumption`):

- `GoodScript` says what a script has to be: what it creates it cancels later, the
  instructions a failed publication skips cancel nothing that was created before,
  and the early return has nothing to cancel. `GoodLabels` says where the cases
  stand. Both are proved of the four scripts (`ScriptsGood`); the rest of the proof
  uses nothing else of them.
- `IInv`: a creation is under way only at its instruction, and what the script
  knows of and is open is in the queue, ahead, or was given up
  (`CancellingSound`). `EveryKeptCancelled` is what is left of it at the end.
  `CasesAsLabelled` needs besides that nothing is cancelled before an instruction
  says so, and that the script has cancelled the first workflow or warned of it
  after its cancellation (`FirstOver`); both last, whatever others do.

`VersionedCatalogProofs` (any names, versions, schemas and bounds; assumptions
`BoundsAssumption`, `NoneAssumption`): `IInv == TypeOK /\ Forward /\ Honest`.
`Forward` orders the revisions a process has listed, cached and given out;
`Honest` says what a request or a late Create has been validated for, which is
what makes `AnswersTrue` survive a Create that is executed after its answer was
lost.

`ComputeStoreProofs` (any number of calls, names, tenants and page sizes;
assumptions `LimitsAssumption`, `NamesAssumption`, `WantedAssumption`):

- `LockHeld`: a writer is alone, and what a call has checked stays so until it
  acts. With it, `Refinement`: `Insert` maps to the creation, the second of the
  two words of `Mark` to the deletion, the answers found under the lock to the
  call's verdict, and every other step stutters.
- `InOrder` is about calls that do not overlap: an instance nobody is marking has
  the two words of one status (`Whole`), and what a client was told of lasts
  (`Lasting`, `Ordered`). That is why the race does not reach a later call.
- `PagesAreExact` counts: a page stops at its limit or has seen every instance of
  its tenant (`PageInv`). Here the names have to be finitely many.

`LifecycleProofs` (any number of requests; no assumptions): what is left to be
stopped and what is stopped make up the order (`Partition`), no request comes
outside the life of the socket (`SocketFirst`), and what is stopped after the HTTP
server finds no request under way unless the limit ran out (`Drained`).

`KeycloakProbeProofs` (any runs and callbacks; assumptions `LoginsAssumption`,
`FlowsAssumption`): the crux of `LateHarmless` is a count. A login's server has
received at least as many callbacks as it has handlers, values in its channels,
and values taken (`LoginSound`). `RunSound` says where a token, an answer and a verdict
can come from. `PassesHaveCauses` needs more, `Caused`: a token that died with
another run's session names a run whose own request was executed, and that run's
state never changes back (`CauseStays`, `KillTokens`).

What is proved besides the properties of the runs:

- What an abstract specification promises follows for the code by its refinement.
  `GrantNeedsBoth` and `ResultsFinal` carry `TwoLayerGate`'s `GrantedByBoth` and
  `DecisionsStay` over to the approval gate, under the names its features give
  the results. `OneWinner` does so for the registry: one 202 and one 204 per name.
  `ReplicasServeTheSame` and `ReadersNeverGoBack` say what readers of the catalog
  have of `CatalogView`. `OneToldCreated` is the like for the schema server, from
  an invariant of its own: a name has one creator, also when Creates are repeated.
- `TriggersApply` rests on a lemma about the definition's data (`OneTransition`);
  `NothingUnasked` on `Asked`, which follows a request into `late`;
  `TornOnlyInRace` on `RInv`, which remembers of the calls that read which
  deletions they overlap.
- `OthersCancelAll`: the README's sentence about cancelling (section 6) holds of the three
  scripts other than the types script.
- `LoginsExclude`: the fixed port keeps logins apart, so that a callback never
  reaches one that is over. `LockReleased`: no early return of a method leaves the
  store locked.

Liveness itself is out of the prover's reach, as is ENABLED, so `DriverEnds`,
`ScriptEnds`, `SignalEnds`, `ProbeEnds`, `EveryCallAnswered`, `CurrentInTheEnd`,
`ServesCurrentInTheEnd` and `RowCurrentInTheEnd` are only model-checked. Their
safety half is proved, for every value of the constants, in three parts:

- *A measure.* Each step of a program uses up some of what it has before it, and no
  step of the others gives it back: `DriverBounded` (main's steps, the repeated
  reads included), `ShutdownBounded` (eleven steps), `ProbeBounded` (nine, and one for
  each callback), `ScriptBounded` (place in the script, attempts, goroutines
  under way) and `ServiceBounded` (phase of the call, words it has still to write or
  read).
- *No waiting.* A program that is not over has a step whose guard is true:
  `DriverNeverStuck`, `ShutdownNeverStuck`, `ScriptNeverStuck` (a wg.Wait has
  somebody to wait for: `Together`), `DeadlockFree` (a call waits for a holder of
  the lock that has a step; `HalvesSound`: what a handler has read of a status is of
  an instance it still points to, so that it can read the rest).
  Of the Keycloak runs `OnlyHeldNeverEnds` leaves one exception, the shutdown a
  callback too many holds, and `HeldForGood` shows that it really is for good. As
  ENABLED cannot be proved, these theorems write the guards of the steps out.
- *Staying there.* `SettledForGood` and `UpToDateForGood`: once a server, or all
  pods and the row, are current they stay so until the cluster changes or (the
  server) the process ends. Late statements and polls under way bring nothing back.

What is missing between these and the liveness properties is weak fairness of the
programs' steps, strong fairness of `Lock`, and, for being current, that some
`ListOk` succeeds and that some statement of a pod is executed (section 4). Every
invariant, action property and refinement the passing runs check is proved.

## 6. Findings

1. `db.go:55-57` calls concurrent upserts safe because they write the same data.
   Pods that listed at different times do not: `catalog_row` shows the row going
   back. `catalog_sync` shows that a later poll heals it.
2. `main.go:329` says that layer 1 did not approve or layer 2 was skipped.
   `gate_claim` shows layer 1's approval applied and the platform breaking the
   workflow off at layer 2, nobody else acting. `run-20261007-090805-vlan-supplied.log`
   records the like.
3. `RUNBOOK.md:125` and `:222-225` of the schema server say that every version with
   `served: true` is accepted. `versioned_served` shows a template with the served
   storage version refused with 404: `xrdclient.go:131` passes over a version without
   `spec.parameters`, and `:141-152` takes it for the storage version all the same.
4. `openapi.yaml:51-53` and `:61-62` of the framework comparison allow limits from 1
   to 100 and answer 400 to others. `compute_limit` shows limit 0 answered with 200.
   The strict variants hand on any limit; the standard ones always use 20
   (`01-echo-standard/main.go:104`; in the model `pages |-> "default"`).
5. The store of the framework comparison races on `Status`
   (`domain.go:115`): `compute_status` shows an answer with the address of one
   text and the length of the other, where `openapi.yaml:153` names the values
   a status has.

Met while modelling, without a run of their own:

- `README.md:80` of the approval gate says that the four fingerprint variants cancel
  every workflow they create. The types script throws the id of its second creation
  away (`fingerprint.go:170`), so that workflow stays when the platform accepts it.
  `EveryKeptCancelled` has the exception (`Dropped`), and `OthersCancelAll` proves
  the sentence of the other three.
- `RUNBOOK.md:70` of the schema server says 503 if the last poll failed. A failed
  poll leaves `ready` as it is (`poller.go:21`; `ListFail`).
- After a login that returned no tokens, `keycloak-session-revoke/main.go` says
  "absent from JWT groups" (`:77-78`) and may say FAIL (`:392`) and CHANGED (`:242`,
  `:247`), of tokens it does not have.
- Its header (`:3-9`) says that the flows confirm that a logout or a revocation
  revokes the token. A PASS may be printed after a request that failed, when another
  run has ended the session: the second half of `PassHasCause`.
- The API servers of `go-di-comparison` serve before they catch signals
  (`01-manual/cmd/api-server/lifecycle.go:65` and `:74`, `03-wire` `:38` and `:46`,
  `02-uber-fx/cmd/api-server/main.go:160` and `:193`): the third exception in
  `NoRequestCut`.
- The approval gate's `main.go:35` says that the custom kind's entries "stay in the
  Workflow tenant until a run with CLEANUP=1 removes them". A set-up that breaks
  off between the DELETE and the POST of an entry removes it without one
  (`Delete` in `CustomKind`).
- The header of `keycloak-session-revoke/main.go` announces two flows that main
  runs; main runs discovery, and the others are there to be called in its place.
- The catalog source server's shutdown has 5 s for the requests under way, and
  main returns as soon as it begins (`cmd/apiserver/main.go:64`): `ReturnEarly`,
  the second exception in `NoRequestCut`.
- fx stops nothing after its 15 s, where the other variants stop everything late:
  the exception in `EverythingStopped`.

## 7. Abstractions, and what is left out

Left out of the models on purpose: the contents of items, schemas and payloads
(sets of names that a version accepts or not), labels, user groups and wording
of the definition, tokens' claims, HTTP encoding, log lines. `VersionedCatalog`
has one entry, so two XRDs with one service id are not covered: the one that is
listed last wins, as if it were the only one. There, requests that a shutdown
cuts short are broken connections; why they are cut is in `Lifecycle`. One run
at a time works on a tenant in `CustomKind`. In `ApprovalGate` a run that ends
with an error may leave a workflow behind; the code has nothing to find it again,
and no property says otherwise. The clients in `Lifecycle` are the repository's
stubs; what a real one does when it is called after its stop is not modelled,
only that it is called. In `KeycloakProbe` nobody but a run ends a session, and no
token runs out in the minutes a run takes. Requests that change nothing are left
out: a body that is no JSON in `VersionedCatalog`, a duplicate probe in
`Fingerprint`.

Not modelled:

- The Temporal dispute worker registers a workflow with one activity that sleeps.
  Attempts, failover and the refusal of a second completion are the Temporal
  server's, and a model of them would be one of a program that is not here.
- The onboarding scripts are lists of git, kubectl, helm, argocd and gcloud calls
  under `set -e`. What they leave half done is the state of these programs.
- The metrics comparison records each request with the libraries' own thread-safe
  instruments; the load balancer probe is a fixed list of requests printed for a
  reader; log shipping, monitoring, game day and TLS patch files configure other
  programs. None of them keeps a state of its own.

What could be added: a second XRD with the service id of the first in
`VersionedCatalog`; several runs at once on one tenant in `CustomKind`; the
clients behind `xrdclient` and `workflow_client.go` with a time limit, once the
code has one, instead of the assumption in section 4.
