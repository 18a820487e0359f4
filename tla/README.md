# CheckNetwork in TLA+

CheckNetwork runs network diagnostics (DNS, TCP, HTTP, TLS and mail checks,
traceroutes) on behalf of a web page and an Android application. This directory
holds TLA+ models of the server's concurrent core and of the web client, the TLC
runs that check them on small instances, and TLAPS proofs of what matters most for every instance.

## The system

| Part | Source | State it keeps | Operations | Correct when |
|---|---|---|---|---|
| Checker supervisor | `backend/diagnostic/runner.go` 67-210 | leases, `active`, `stuck`, admission, the `drained` channel | acquire, release, markStuck, ShutdownSnapshot | counts are the leases, the limit holds, a clean shutdown is final |
| Report runner | `runner.go` 212-498 | one goroutine, two cutoff callbacks and one `sync.Once` per target; the outcome channel | RunWithID, runChecker, cutoff, complete | one truthful outcome per target; a run always returns; only stuck checkers keep capacity |
| GeoIP lookup | `backend/diagnostic/geoip.go` | flights shared by address, provider slots, queue places, LRU cache | Lookup, waitForFlight, runFlight, completeFlight | slots exact, flights shared, no stale answer cached |
| IP context service | `ip_context_owner.go`, `ip_context_cache.go` | flights with registered waiters, active count, cache, drain flag | Lookup, acquire, BeginDrain, Close | answers are published ones, late work stays charged, Close tells the truth |
| API handler | `backend/api/server.go`, `ip_context.go`, `response_writer.go` | four slot channels; per request the status, outcome and terminal events | serveHTTP, createReport, createIPContext, containPanic | slots given back on every path, one terminal event, a true record, no work after the drain |
| Process and listener | `cmd/checknetwork-api` | connection leases, the operational phase, the exit code | Accept, Close, shutdownService, finishRun | leases given back once; exits within the deadline; zero only when nothing runs |
| Checkers and traceroute process | `dns.go` ... `traceroute*.go` | one goroutine each, a child process | Check | not modelled (see below) |
| Compact topology, response fitting | `backend/diagnostic/compact_topology.go`, `backend/api/server.go` 655-838 | none; a binary search | BuildCompactTopology, marshalCompactResponse | what is sent fits, is consistent, and no more was cut than had to be |
| Policy, analysis, telemetry format | `backend` | none | pure functions | not modelled (see below) |
| Web request lanes | `frontend/app.js`, `state.js` | two lanes, the active request of each, credentials by server | start, cancel, invalidate, applyCredential, switchView, destroy | only answers to what the page holds are shown; loading ends |
| Web IP context controller | `state.js` 190-320 | an owner, a flight with its deadline, a cache of snapshots | setOwner, query, cancel, destroy | a snapshot belongs to its scope; one lookup at a time |
| Web document and rendering | `app.js`, `topology-renderer.js` | the elements of each surface, a render session drawn over many frames, drawing mode | start, chunk, fail, finish, cancel, resize | the document keeps its limit; the shown graph is of the current report, targets and labels |
| Web IP labels | `app.js` 832-952, 1695-1734 | labels, a paged table filled in frames, imports being read | save, edit, delete, import, turn the page | a table that says it is complete shows the labels as they are |
| Web topology model | `state.js`, `topology-model.js`, `topology-presentation.js`, `topology-visualizer.js` | none | normalize, adapt, filter, plan, present, project | a view shows routes and links the report has, and admits what it leaves out |
| Web common prefix | `common-prefix.js` | none | commonPrefix | the range holds every address and is the smallest prefix |
| Android client | `android/app/src/main/java` | request coordinator, session, IP context session, raw-share runtime | start, cancel, attach, deliver, prepare, grant, retire | planned |
| Release scripts | `scripts` | ownership of Docker resources | create, adopt, clean up | planned |

How they interact. A connection accepted by the bounded listener carries
requests to `serveHTTP`. A report takes a decode slot, an admission slot, calls
`RunWithID`, serializes, takes a write slot, writes. `RunWithID` takes one
supervisor lease per target and starts a checker goroutine for each; a
traceroute checker asks the GeoIP lookup about its hops. A context request calls
`IPContextService.Lookup`. The supervisor, the two lookup services and the
operational phase are shared by all requests. On SIGTERM `shutdownService` sets
the phase, drains the context service, shuts `net/http` down, then the
supervisor, then closes the context service, all under one deadline.

The web page has two purposes, diagnostics and topology, each with a lane. A
report is cut by the server to a response of limited length, checked by
`normalizeReport`, and committed to its lane; `startActiveTopologyRender` turns
the topology report into a model, filters it by target, plans what the document
has room for and hands the plan to the coordinator, which mounts it in chunks.
The context panel looks up an address of the shown report through
`createIPContextController`. Whatever a view mounts counts towards one limit of
1200 elements, and a change of view unmounts the large content of the last one.

What is hard: callbacks that race a worker for a once; state read before a lock
is taken and used after it; work that outlives the call that started it;
abandoned flights that complete after their successors; panics between two
slots; a client leaving at any moment; a shutdown that overlaps all of this. In
the page: state read before an `await` and used after it; frames, timers and
file reads that come back to a page that has moved on; a credential store that
fails half way; a picture assembled by five functions, each of which may leave
something out.
`PROJECT.json` lists these as hazards, each at its line with the property that
would catch it.

## Modules

`CheckerSupervisor` -> `Runner` and `ServiceShutdown` (both EXTEND it);
`OwnedWork` -> `ServiceShutdown` (EXTENDS), and is implemented by
`IPContextService`. `RequestLane`, `IPContextController` -> `WebClient`;
`DocumentBudget` -> `RenderCoordinator`, with `LabelTable` and `CommonPrefix` ->
`WebView`; `FairPrefix` -> `CompactTopology` -> `TopologyModel` ->
`TopologyPlan` -> `TopologyPipeline`. The components of the web client are
written as functions from a state record to the next, as the code is, and the
composing module's actions apply them: a handler of an event, or an async
function between two awaits, is one action.

**CheckerSupervisor** is the model of the supervisor; the modules that use it
take its actions for the calls they make. They are the critical sections
under `s.mu`: `Acquire`, `Release`, `MarkStuck`, and ShutdownSnapshot as
`BeginShutdown` (under the lock), `ShutdownDrained` or `ShutdownExpired` (the
select) and `ShutdownCapture` (under the lock again). `leases` is the map,
`flagged` the leases whose `stuck` field is set, `done` those released;
`drained` says whether the current channel is closed.

**Runner** adds RunWithID, runChecker and targetTerminal for any set of
concurrent reports. `CutoffStart`/`CutoffCommit` split the callback where it
reads the contexts and where it commits; `WorkerReturn`, `WorkerComplete`,
`WorkerRelease` and `WorkerPublish` are the worker's steps. Time is three
events per run: the deadline passes, its timer fires, a check's own deadline is
reached. A checker may return, panic, or never return. RunWithID's errors for
an invalid request change nothing and are left to `ReportServer`.

**GeoIPLookup** has a generation per flight; an action is one critical section
or one channel operation. `FlightStart` is the arbitration between the last
waiter and the provider call. The HTTP exchange is `ProviderReturn` with the
results ok, uncacheable or error; timestamps are the event `Expire`.

**IPContextService** has the same shape with its own rules: a flight is joined
only while a live caller waits for it, publication is separate from the end of
its work (`PrimitivesReturn`, `Finish`), and it can be drained and closed.
`OwnedWork` is what it promises its process: a count of work, a door that
closes for good, and a Close that says whether work is left. `Abstract` is the
refinement mapping.

**ReportServer** follows a request through serveHTTP: the gate (credentials and
rate limit, route, drain), the decode, admission, write and context-handler
slots, the run, serialization, the write, and the deferred function. A panic is
possible in each part that runs handler code and runs the deferred releases of
the slots held there. A write may fail after it began.

**ServiceShutdown** composes the supervisor and OwnedWork with the listener and
runMain. `net/http` is external: it is modelled from how the code uses it
(Serve runs a goroutine per connection; Shutdown closes the listener, waits for
Serve to return, closes idle connections, and returns when none is left or its
context is done). A connection carries any number of requests; a request here
starts at most one checker and any number of lookups.

**RequestLane** is the reducer `transitionRequest` of `state.js` and
`ownsRequest`. **IPContextController** is `createIPContextController`: the
published phase and value, the owner, the flight that stays charged until its
fetch, read and clean-up have settled, the LRU cache of one scope.

**WebClient** is `createApp` without its rendering. A request is the record
`start` keeps in `active` together with that call's local state; `Start`,
`FetchResponds`, `AnswerArrives` and `RequestThrows` (with the finally block,
`FinalLane` and `EndRequest`) are its parts between awaits. A signature is the
record of the form, the server, whether a credential is used and the revision
of that server's credential. Edits call `Invalidate` as their listeners do.
`CredentialCommits` and `CredentialIndeterminate` are the outcomes of
`applyCredential` that change something. An aborted fetch rejects, but an
answer already on its way may come first; a timer that could not be cleared
fires later.

**DocumentBudget** counts the elements of each surface. **RenderCoordinator**
is `TopologyRenderCoordinator` with the `onState` callback of `app.js`: a
session with its generation, chunks and root, what each root holds and of which
sessions, the phase shown, the plan whose counts the summary shows.
**LabelTable** is the label view's table. **CommonPrefix** is `commonPrefix` and
the elements of its result. **WebView** composes them over the five views with
the target rows, the report, the open finding, filters, drawing mode, resizes
and imports. A report may be cleared in any view (`ClearTopology`,
`ClearDiagnostics`): the connection settings lie outside the views, and an edit
of them clears both purposes, also while the map is being mounted. `StaleFrame`
is a frame that `cancelAnimationFrame` did not stop.

**FairPrefix** is the selection both the server and the client make of a
report's attempts: targets take turns, a turn accepts the next hop of an
attempt or closes it when a node or link would exceed its limit.
An attempt (`Attempts`) has the hops that were parsed of its output, at most
`MaxTraceHops` and, if the destination was not reached, one more for it; and its
output is that of a completed command, the partial output of one that failed, or
none. **CompactTopology** is the server's use of the completed ones
(`buildCompactTopology`) with the
counts, the geo bundles and the cuts for length; **TopologyModel** the client's
checks (`normalizeCompactTopology`), its own selection from a whole report
(`adaptLegacyTopology`), partial attempts included, and the target filter; **TopologyPlan** is
`planTopologyDOM`, `presentTopology` (silent hops folded into one node, or
skipped by a connector) and the checks before drawing. **TopologyPipeline** is
the state machine around them: the two binary searches of
`marshalCompactResponseRetainingSnapshot`, one probe a step, then the client.
A node's key is its address, the local host, or the place of a silent hop; the
length of a response is a count that grows with its nodes, links, routes and
bundles.

`MC*` modules give constants their values and name symmetry sets. A definition
marked *Mutant* is a plausible bug in the definition after it; nothing uses it
except the mutation checks listed in `PROJECT.json`.

## Runs

| Run | Instance | Checks | Distinct states |
|---|---|---|---|
| `supervisor` | 4 leases, capacity 2 | LeaseAccounting, ShutdownCountsEveryWorker, CleanShutdownIsFinal | about 170 |
| `runner` | 1 report, 2 targets (one traceroute), capacity 2 | OneOutcomePerTarget, OnlyStuckLeasesOutliveRun, CodesAreTruthful | 2.1 million |
| `runner_live` | the same, capacity 1 | EveryRunReturns | |
| `geoip` | 3 callers, 3 addresses, 3 flights, 1 slot, 1 queue place, 2 entries | SlotAccounting, FlightsAreShared, CancelledMeansOwnContext, CacheIsCurrent | 1.45 million |
| `geoip_live` | 2 callers, 2 addresses, 2 flights | WaitersAreAnswered | |
| `ip_context` | 3 callers, 2 addresses, 2 flights at most, 2 active, 2 waiters, 1 entry | ActiveIsWork, AnswersAreReal, GatheringIsShared, SnapshotIsNew, ImplementsOwnedWork | 1 million |
| `ip_context_live` | 2 callers, 1 active | LookupsReturn | |
| `server` | 2 requests on any routes, every channel of size 1, public mode | SlotsAreHeld, OneReportTerminal, TerminalIsTruthful, DrainingStartsNothing, RequestsEnd | 140 thousand |
| `shutdown` | 3 sockets, 2 connections, 1 checker, 1 lookup | ConnectionLeases, ExitZeroIsQuiet, StopLeadsToExit | 450 thousand |
| `web_requests` | 2 requests, 2 lookups, 2 servers (one insecure) with a stored token each, 3 views, 1 edit | ShownIsCurrent, CredentialsAreCurrent, ContextIsScoped, OneContextLookup, LoadingEnds, ContextLoadingEnds | 572 thousand |
| `web_view` | 5 views, 3 labels, 15 elements, 4 acts of the user or the server | DocumentIsBounded, SurfaceIsCurrent, LabelTableIsCurrent, RenderingEnds, ModeIsShown | 308 thousand |
| `web_plan` | 90 reports of 3 attempts on 2 targets, 3 hops at most, 5 response limits, 6 document rooms | SentIsSound, ClientShowsTheReport | 82 thousand |

Every property is described by the comment above it.

Bounds. Two targets are enough for every race in the runner: a target's worker
and cutoffs only touch its own once and lease, and meet the other target in the
supervisor and in the channel; the proofs below cover any number of reports and
targets, so the instance only has to be large enough to find mistakes. Capacity
1 in `runner_live` makes one of the two targets be refused. `MaxGenerations`
bounds the flights of the lookup services, whose counters have no bound in the
code: three allow an abandoned flight, its successor for the same address and a
flight that competes for the slot; two in `ip_context` allow an early flight
that ends late beside its successor. The limits (slots, queue, waiters, entries,
connections) are set so that each is reached.

In `web_requests` two requests allow one to be replaced, and `MaxEdits` bounds
the edits, credential changes and changes of view together, beside any number
of submissions, cancellations, selections and lookups (`MaxFlights`). One is
enough for a step between any two awaits: every server has a stored token at
first (`MCStorage`), so the one change may be that of a credential which a
request or a lookup carries at that moment. That loading ends is stated as
`[]<>` of not loading, which says the same as a leads-to from loading to not
loading and costs TLC no tableau. `web_view` bounds
what the user and the server do (`MaxActs`), and not the frames. Its document is
scaled: 1200 elements, 232 of them static, 18 per target row and at most 97 of
a common-prefix result become 15, 3, 1 and a few, chosen so that every
admission check of the code is seen to refuse and to admit. `CancelWorks` is
FALSE there: no frame can be cancelled, which is the harder case, and the
checks made inside the frame have to do. The reports of `web_plan` have silent
hops alone and in a row, an address seen twice in a row and twice with another
between, as many hops as a trace may have (`MaxTraceHops`, 3 for the 30 of the
code), an attempt without output, partial output whose node no other attempt
has, and a geo bundle that is too large; the response
limits (`Rooms`) reach every end of both searches, and the document rooms
(`Remainings`) everything from no room to enough.

Callers are symmetric and used as
a symmetry set only in runs without liveness properties. Runs say
`CHECK_DEADLOCK FALSE` because the models really stop: all callers have
returned, all requests have ended, the process has exited.

Fairness. Goroutines that can run do run, timers fire. `Runner` assumes weak
fairness of the run's own steps, its clock, the cutoffs and the worker after
Check returned; nothing obliges a checker to return, a caller to cancel or the
process to stop. `GeoIPLookup` and `IPContextService` assume it of waiting
callers and of flights, because provider exchanges run under a deadline
(`providerTimeout`, the flight's six seconds and `contextOwnedCall`'s select);
primitive calls of the context service may hang for ever. `ReportServer`
assumes it of every handler: body reads and writes have deadlines, and runs and
lookups return (`EveryRunReturns`, `LookupsReturn`). `ServiceShutdown` assumes
it of main and of its drain timer only. `WebClient` assumes that timers fire,
that time passes and that an aborted fetch rejects; nothing is assumed of the
server, of the user or of a body that stops coming. `WebView` assumes that
animation frames run. `TopologyPipeline` has no liveness property: both searches
halve their interval.

## Proofs

`RunnerProofs` has the theorems about the supervisor and about the runner. They
hold for every value of the constants under the named assumptions: capacity and the number of targets are
positive naturals, the sets of leases and reports are finite, and a job's lease
is named after it.

The supervisor's invariant `SupInv` adds to the three properties its types and
`LeaseStates`: live and finished leases are disjoint, only known leases are
marked, and once shutdown has begun admission is closed and every live lease is
marked. Without the last part `CleanShutdownIsFinal` is not inductive (a lease
could be taken after the capture) and `ShutdownCountsEveryWorker` does not
follow from the counts. Cardinalities are handled by the finite-set theorems on
adding and removing an element.

The runner's invariant `RunnerInv` is `SupInv` with four facts about each run
and job: `RunInv` (the start loop's position and the number received agree with
the phase; the number received is the number of collected results), `JobLease`
(which lease state goes with which worker state), `JobOutcome` (how many
outcomes exist for each combination of claim, winner and cutoff state: at most
one of "yet to be published", "in the channel" and "collected") and `JobValue`
(a value in the channel or among the results is truthful, and the checker's own
result is only there once the lease is released). That the collect loop fills
every target follows from counting: it receives as many outcomes as there are
targets, and each job has at most one.

`CodesAreTruthful` says of a check's own result that no deadline of it was
reached first, which `JobValue` carries from the claim to the report.

| Theorem | Says |
|---|---|
| `LeaseAccountingHolds`, `ShutdownCountHolds`, `CleanShutdownHolds` | the supervisor's three properties |
| `TypeCorrectness` | every variable of the runner keeps its type |
| `OneOutcomeHolds`, `OnlyStuckLeasesHolds`, `CodesAreTruthfulHolds` | the runner's three safety properties |

The first part of `WebViewProofs` is about `computeGroup`, which compares only the smallest
and the largest address of a family. For any widths and any list,
`RangeHoldsMembers` shows that the reported range holds every address, and
`SharedBitsAreMost` that no longer prefix is shared. The argument: division by
a power of two is monotone, so what the two extremes share everything between
them shares; a smallest number of free bits exists because all bits are always
enough. The powers of two are a constant with its assumption, because the
provers do not compute them.

| Theorem | Says |
|---|---|
| `RangeHoldsMembers` | every address is in the reported range |
| `SharedBitsAreMost` | two addresses differ in the bit after the reported prefix |

The remaining proofs have an inductive invariant for each state machine, which
TLC checked on the constants of the component's run before it was proved; each has a lemma per
action (or per method of a record) and a theorem per property.

**`GeoIPLookupProofs`** (`GeoInv`). SlotAccounting counts flags of flights, and
FlightsAreShared relates flights to the inflight table; neither is inductive.
`FlightInv` says where in the flight's life each flag can be set: a place in the
queue is held only before the start arbitration and never by an abandoned
flight, so that of the leaving caller, the flight and its completion only one
can give it back. `TableInv` says that an entry of the table is open, serves
that address, and is of a later generation than what is cached: this is why a
late completion cannot put an old answer over a new one (`CacheIsCurrent`).
`SharingInv` counts the waiters as the callers that wait.

**`IPContextServiceProofs`** (`ContextInv`). ActiveIsWork is nearly inductive;
AnswersAreReal needs `FlightInv`: a flight wakes its callers only when it was
published or abandoned, and short of the drain an abandoned flight has no caller
whose context still lives. GatheringIsShared and SnapshotIsNew come from its
last part: a gathering flight is in the table and its address is not cached.
`ServiceImplementsOwnedWork` takes each action to `StartWork`, `EndWork`,
`DrainWork`, `CloseClean` or `CloseGaveUp` of OwnedWork, or to a stutter. A flight is started for an address,
so there is one: the assumption `Addresses # {}`.

**`ServiceShutdownProofs`** (`ShutdownInv`). The process calls the supervisor's
operations, so `SupInv` is part of its invariant; that they keep it is proved
here for the leases of this module, as `RunnerProofs` does for the runner's. ExitZeroIsQuiet is a claim about the last
stage that rests on every earlier one; `HTTPInv`, `CheckersInv` and `LookupsInv`
carry what each stage has closed to those after it.

**`ReportProofs`, the handler** (`ServerInv`). `RequestInv` says how far a request's
answer has come at each place of the handler. The point is the deferred
function: a panic finds a request wholly unanswered or wholly answered, so the
function can tell from `reportTerminal` alone whether to emit. `SlotStep` is
what every step does to the four channels, whatever its handler: a step of one
request takes or gives back the slots of the parts that request enters or
leaves; `SlotsAreHeld` then follows from one lemma on cardinalities (`Recount`).

**`TopologyProofs` and `ReportProofs`, the topology** (`SelectionInv`,
`PipelineInv`, `ModelInv`, `IsPlanned`). `TopologyProofs` is about the operators
of the model, whatever they are applied to: the selection, the drawing and its
cuts, the client's walk. `ReportProofs` is about the behaviours. These hold for any reports, any limits on nodes and links, any lengths of a
response, and any addresses and bundles.

- The selection. Each turn keeps `SelectionInv`: both limits, no node twice, and
  what is accepted of an attempt is a prefix of it whose hops and links were all
  selected (`SelectHolds`). A limit on the number of hops cuts the same selection
  earlier (`LimitHolds`), so the hops that fit are found by a binary search.
  `Select` takes a fixed number of rounds where the code loops until no target
  is active; `SelectionEnds` shows that it comes to the same, because a round
  makes the hops that may still be accepted (`Rest`) fewer as long as there are
  any. What is blocked then has a recorded reason.
- The checks. Whatever the server builds or cuts is a `Drawing`: a selection
  with some of the bundles that fit. The client accepts each of them
  (`DrawingIsAccepted`): the counts, by result and in total, are sums over the
  selection's attempts, taking bundles away changes no other field (`CutHolds`),
  and a route has at most `MaxRouteNodes` nodes because a trace has at most
  `MaxTraceHops` hops beside the local host and the failed destination. The
  other maxima of the client's checks are left out: 20 results of 10 attempts
  with 32 nodes each stay below all of them. So are `reached` against the status
  of a route, which agree because only an attempt with the status of its
  topology is eligible (`traceAttemptEligible`), and the types and ranges of
  texts and numbers.
- The two searches. SentIsSound is not inductive: `PipelineInv` adds what is known
  outside the bounds of a search (with one bundle fewer cut, or one hop more,
  the response is too long; the best candidate fits and is the one next to the
  bound). The length is `BundleSize` per bundle over a `Bulk` that grows with
  the hops accepted (`SizeHolds`), so one probe decides for a whole side.
- The two forms. From a whole report the client walks each attempt along its
  links. It looks for a topology and not at the error code, so it finds the
  traces of the partial attempts, too, which the server leaves out of a compact
  topology. `AsCompleted` is the report as if their commands had completed: the
  client finds the traces that the server would find in it (`SameRoutes`), so
  its own selection is the one the server would make of it
  (`FormsAlwaysAgree`). The forms differ by the partial attempts, and by what
  these take of the limits, and by nothing else.
- The model of the client. `Told` is what the client was told: the report as it
  is in a compact form, `AsCompleted` of it in the whole form. `ModelInv` ties
  the model to what was sent, and that to a selection of the report. So
  everything in it is of what was told (`ModelIsOfTheReport`), and it leaves out
  nothing of that without a reason (`OmissionsAreReported`).
- The plan of a view. The model is `Plannable`: its routes have their nodes and
  links among those it has, each once. So the plan's selection, enrolling routes
  in fair order and then extending them turn by turn, keeps `PlanInv`: no node
  or link is selected twice, every link joins selected nodes, the cost is what
  was selected and within the budget, and each route is as far as its nodes and
  links are selected; no link is missing. Routes are cut where the selection
  stopped, so they still begin like their traces (`PlannedRouteIsCut`,
  `CutBegins`); if nothing was blocked they are whole. `IsPlanned` carries what
  was asked of the view to where it is shown (`PlanIsSelectedHolds`).
- The presentation of a plan. `Folded` is what a trace looks like with its silent
  runs folded or skipped. The tokens of a route are exactly that of the route's
  hops (`TokensHold`, `TokenKeys`), and folding keeps prefixes (`FoldedBegins`),
  so a token list begins like its folded trace. The budget then cuts nodes,
  links and connectors; a route is shown up to the first token or step that was
  cut (`DrawnHolds`, `PresentedHolds`), and if none was, nothing is omitted and
  the whole route is shown. An observed link is a step between two tokens with
  no hop skipped, so its ends are neighbours of a trace (`LinkJoin`).
- What is mounted. `Mounted` adds elements until the budget is used up. The plan
  reserved the canvas and the inspector, and the presentation is within the
  rest, so all of it is mounted (`TopologyMounts`); a map is drawn only if
  canvas, legend and every target fit (`GeoMounts`). `Pictured` collects these facts of the
  current plan, and each part of PlanIsTruthful follows from it
  (`PlannedIsTruthful`), in any state in which `PipelineInv`, `ModelInv`,
  `IsPlanned` and PlanIsSelected hold. With `FormsAlwaysAgree` this is
  `ClientShowsTheReportHolds`.

`PrefixAssumption`, `CompactAssumption` and `PipelineAssumption` are assumed:
limits are positive, bundles have a length, and a report has the shape of one.
Nothing is assumed about its hops but how many there are.

**`WebClientProofs`** (`ClientInv`) is in two halves. `ControllerInv` is the
invariant of the context controller as a record: each of its methods preserves
it, whatever the application does, and either keeps the owner or sets the one it
is given. It says that a flight under way is the charged one and, unless
aborted, has the controller's owner; and that every cached snapshot is a peer
of the owner (same report, server and credential), which is why a cache hit may
be shown. `LanesInv` is about the forms, lanes and requests. ShownIsCurrent
restricts ready lanes only: it is inductive once a loading lane too has the
signature of the page and is on the page's base (`LaneInv`), a purpose's request
is for the base the lane has (`ActiveInv`), and a request that was not aborted
is still its purpose's (`RequestInv`). The last two are why
`invalidateCredentialBase`, which looks at the active request, else at the
lane's base, else at the form, finds every request and lookup that carries the
credential that changed. `ScopeInv` joins the halves: the controller's owner is
the page's scope at every moment, also while `sessionStorage` does not answer,
except for the token then. The assumptions say that a null (`NoSig`, `NoScope`,
`NoOwner`, `NoReport`, `NoFlight`) is not one of the values it stands in for,
and that no failed lookup is shown as ready.

**`WebViewProofs`** (`Inv`) has a lemma for each method of the coordinator and of
the label table, as functions on their records, and one for each action of the
page. None of the three properties is inductive.

- `WorkInv` is of the document and its sessions. `Owned` says that a root with
  elements belongs to the current session and that every other session was
  aborted, so that a frame which could not be cancelled changes nothing.
  `Going` counts what a session under way has mounted, which makes `Complete`
  true when it finishes. `Counted` says that the counts of a finished plan are
  forgotten before another session begins. `Complete` and `Counted` are claimed
  while the page lives: `destroy` clears the session without `onState`.
- `ViewInv` ties the current session to the page: its view, report, render
  source, filter and, in the topology view, labels. Every handler that changes
  one of these starts a session of the new value or leaves none.
- `LabelInv`: the rows of the table are the first rows of its page of the labels
  as they are, and the one render that may still append is of that page and
  goes on where the rows end. `EditRow` is the action that needs the rows to be
  compared with the labels of now, and not with those the render began with.
- `PageInv`: the target rows are a whole number of rows within the maximum, and
  in the common-prefix view there is nothing but them and the result. Without
  it the result, which is mounted without asking for room, could exceed the
  limit.

The element counts are sums of ten named surfaces, so no induction is needed,
only that changing one surface changes the sum by the difference
(`ElementsReplaced`) and that fewer elements are a smaller sum (`FewerElements`).
`Rows`, the canonical order of the labelled addresses, is the one ascending
enumeration: `AscendingExists` proves that there is one, for otherwise there
would be a smallest size of a set without. The assumptions are those of
`ViewAssumption` and `LabelAssumption`: the document has room for the form at
first and for a common-prefix result beside the most rows, reports are numbered
from 1 and filters by naturals, and the addresses are finitely many.

| Theorem | Says |
|---|---|
| `SlotAccountingHolds`, `FlightsAreSharedHolds`, `CancelledMeansOwnContextHolds`, `CacheIsCurrentHolds` | the GeoIP lookup's three invariants and its action property |
| `ActiveIsWorkHolds`, `AnswersAreRealHolds`, `GatheringIsSharedHolds`, `SnapshotIsNewHolds` | the context service's three invariants and its action property |
| `ServiceImplementsOwnedWork` | `Spec => Abstract!OwnedSpec` |
| `ConnectionLeasesHolds`, `ExitZeroIsQuietHolds` | the process's two safety properties |
| `ServerInvariant`, `SlotsAreHeldHolds`, `OneReportTerminalHolds`, `TerminalIsTruthfulHolds`, `DrainingStartsNothingHolds` | the API handler's invariant and its four safety properties |
| `SelectHolds`, `LimitHolds`, `SelectionEnds` | the fair selection is sound, a limit cuts it earlier, and it ends |
| `DrawingIsAccepted`, `PipelineInvariant`, `SentIsSoundHolds` | what is sent passes the modelled checks, fits, and is cut as little as it must be |
| `FormsAlwaysAgree` | the client selects from a whole report what the server would select if the partial attempts had completed |
| `OmissionsHaveReasons`, `ModelInvariant`, `ModelIsOfTheReport`, `OmissionsAreReported` | the client's model is of what it was told of the report, and nothing is left out without a reason |
| `PlanIsSelectedHolds` | a view's plan is drawable, keeps to its budget, and is of the model without unreported omissions |
| `ClientShowsTheReportHolds` | what a view shows and mounts is what was told of the report, folded as asked, cut at most at the end of a route and never without a reason |
| `ShownIsCurrentHolds`, `CredentialsAreCurrentHolds`, `ContextIsScopedHolds`, `OneContextLookupHolds` | the web client's four safety properties |
| `ViewInvariant`, `DocumentIsBoundedHolds`, `SurfaceIsCurrentHolds`, `LabelTableIsCurrentHolds` | the web document's invariant and its three safety properties |

The models that are proved about avoid operators that take an operator. The
context controller's cache does without `SelectSeq`: an address has at most one
entry, so deleting it is a concatenation of two subsequences. `FairPrefix` lists
the members of a set of numbers in order (`Ascending`), takes the elements of a
sequence at such places (`At`) and adds up as a cardinality (`Total`); its
turns, the client's walk along an attempt and the mounting of a view are
recursive functions on the naturals, about which `NumbersByStep` argues step by
step. `TopologyPlan` selects from a sequence with `At` and numbers tokens and
joins with functions, for the same reason.

Only model-checked: all liveness, because the prover has no fairness reasoning
and no ENABLED. Every safety invariant and action property of the runs is stated
by a theorem.

## What the models show that the code does not say

- The two forms of a report do not show the same topology when a command failed
  and its output could be parsed. Such an attempt keeps its topology beside its
  error code (`traceroute.go:193`). `SPEC.md:183` and `docs/API.md:88` keep it
  out of the compact routes and of the Geo aggregate, and so does the server;
  but the web page draws it from a whole report like any other
  (`topology-model.js:197` does not look at the error code). Only nodes that a
  completed attempt shows, too, are known to be public then.
- A trace of 30 hops that misses its destination has exactly the 32 nodes that
  the client accepts of a route (`state.js:1300`); the two limits are stated in
  two languages and nothing but `SentIsSound` ties them.
- The context panel stays in its loading state when `sessionStorage` stops
  answering during a lookup: `isCurrentOwner` then disowns the result and
  nothing is published. `ContextLoadingEnds` excepts this case.
- A page that survives `beforeunload` keeps a ready lane, but its topology view
  is blank until it is rendered again: the listener drops the render source.
- `renderCommonPrefix` and the message of an empty graph are mounted without
  asking for room. They cannot exceed the limit, because a change of view has
  unmounted everything else and at most 64 addresses are analysed;
  `ViewAssumption` has the sum and `DocumentIsBounded` relies on it.
- An import that finishes while the map is shown does not refresh the map's
  labels. `SPEC.md:71` asks for labels to be reflected at once in the diagnostics
  and the bounded topology, and `SurfaceIsCurrent` requires it of the topology
  view only.
- An attempt with a single hop that is not the local host would be left out
  without a reason by both selections. It cannot happen: `traceroute.go` puts
  the local hop first.
- The planner's `presentation_budget` cut is never taken for reports of this
  server, because silent hops have a key of their own in each attempt.

## Not modelled, and why

The checkers proper are sequential exchanges of one goroutine and appear as a
Check that returns, panics or hangs. Analysis, finding and presentation
contracts, wire formats, telemetry records, Android parsers and all wording are
pure functions of their input or layout. Credentials and the rate limiter are a
nondeterministic refusal of the gate. Configuration loading, probe endpoints
and build scripts keep no state that changes.

Of the web client: the type of each field that the normalisers check, the
lexical checks of JSON bodies, the texts of findings and of the human report
(pure functions of a report that was accepted); node statuses, latencies, hop
ranges, AS annotations, the order of reasons and the label list of a topology
(data no property tells apart); the geometry of the graph and of `geo-map.js`;
keyboard, pointer and full-screen handling (they move the focus and change no
state that is modelled); several instances of the application in one document.

## Plan

1. Android. `RequestSession`: `RequestCoordinator` with `DiagnosticsSession`
   (publication outside the lock, reordered delivery, cancel against activate),
   and `IPContextSession`. Abstract specification worth stating: a lane shows
   only results of its current owner, which the web client and the Android
   client both implement.
2. `RawShare`: prepare, grant, retire, reconciliation and restart of the
   Android raw-share runtime.
3. `TraceProcess` and the traceroute checker's attempts; `RateLimiter`.
4. The release scripts' ownership transaction with a daemon that loses answers.
5. Proofs of what the modules above promise, with the refinement of the lanes'
   abstract specification.
