# talos-discovery in TLA+

talos-discovery is a discovery service: the nodes of a cluster register as
*affiliates* with some data and endpoints and a TTL, and watch a stream that
tells them of each other. This directory holds TLA+ models of its core, the TLC
configurations that check them on small instances, and TLAPS proofs. Paths below
are relative to the repository root.

## 1. Inventory

| Part | Source | State it keeps | Operations | Model |
|---|---|---|---|---|
| Affiliate table | `internal/state/affiliate.go`, `limits.go`, parts of `cluster.go` | id -> data, expiry, endpoints with expiries | merge endpoints, update, delete, prune, list | `Affiliate` |
| Cluster | `internal/state/cluster.go` | the table (`affiliatesMu`), subscribers (`subsMu`), an atomic expiry | `UpdateAffiliate`, `DeleteAffiliate`, `Prune`, `IsEmpty`, `IsExpired` | `Cluster` |
| Subscriptions | `internal/state/cluster_subscribe.go` | event channel, error channel, closed flag, `closeOnce` | `SubscribeWithSnapshot`, `notify`, `Close` | `Cluster` |
| RPC server | `internal/server/cluster_server.go` | none of its own | `Watch`, `AffiliateUpdate`, `AffiliateDelete`, `List`, `Hello` | `Cluster`, `State`, `InspectPage` (`List`) |
| Registry | `internal/state/state.go` | a concurrent map id -> Cluster | `ClusterFor`, `GetCluster`, `Cleanup` | `State` |
| Snapshots | `internal/state/snapshot.go` | a file | `SaveSnapshot`, `LoadSnapshot`, `atomicWriteFile` | `State`, `SnapshotFile` |
| Validation | `internal/server/validation.go` | none | length, emptiness and TTL checks | TTL only, in `Affiliate` |
| Lifecycle | `cmd/discovery-service/main.go`, `internal/server/server.go`, `internal/runutil` | run group, tickers, listeners | start, tickers, interrupts, shutdown | `Lifecycle` |
| Web server | `internal/web/server.go`, `web_server.go` | HTTP server, gRPC client | construction, serving, graceful shutdown | `Lifecycle` |
| Web watch manager, hub | `internal/web/discovery_watch_manager.go`, `discovery_hub.go`, `discovery_endpoints.go` | reference counts, browser channels | subscribe, broadcast, reconnect | `WatchManager` |
| Inspect page | `internal/web/assets/inspect.html` | the page's own table | event stream, list, delayed delete | `InspectPage` |
| Metrics, configuration, generated code | `internal/metrics`, `internal/config`, `*.pb.go` | counters, flags | | not modelled |

How they interact. An RPC asks the registry for a `*Cluster` and works on that
object, whatever becomes of its registry entry meanwhile. A change is made under
`affiliatesMu`; the event that tells of it is computed there, but sent after the
unlock, to a copy of the subscribers taken under `subsMu`, by the goroutine that
made the change. A stream is served by its gRPC goroutine; a second goroutine
waits for its context to end. A subscription whose channel is full is closed by
the sender. `Cleanup` prunes each cluster (and sends the resulting events
itself) and drops those that are expired and empty. `SaveSnapshot` walks the
registry next to all this. The web UI is a client of `Watch`: one stream per
cluster somebody looks at, shared among the browsers. The page merges what comes
over the event stream into a table that a list answer replaces. One process runs
all of this in a run group: the first actor that returns makes the group
interrupt and await the others.

What is hard here: the order of events against the order of changes; closing
channels others may be sending on; three goroutines in one `Close`; slow
readers; a sweep that checks and deletes in separate steps; requests that fail
half way; snapshots of a moving state; a process that dies between two system
calls; actors that wait for each other at shutdown; a page whose answers, events
and timers come in any order. `PROJECT.json` lists these hazards line by
line, with the properties aimed at each.

What makes the parts correct: the limits hold; nothing unexpired is lost and
everything expired goes; a stream that was listening is given every change or is
closed (unless a panic intervenes: see `panic` in section 3); a client's picture
converges to the table; no client can hold up an RPC or the cleanup; streams give back what they hold; dropping a cluster loses
nothing; a snapshot restores what it saved, and no failure tears the file; the
process stops when it should, and says why; the page shows what it was told.

## 2. Modules

**`Affiliate.tla`**: no state; the functions that run under `affiliatesMu`, as
operators on the table (a function from ids to records). `MergeEndpoints` is a
loop in Go. Here, `Fits(a, eps, n)` says whether the loop gets past the n-th
requested endpoint, which is so if the first n add nothing new or leave at most
`AffiliateEndpointsMax`; since `Fits` can only turn false as n grows, the endpoints
walked over are a prefix, and the result is written down without a loop. As in
the code, a merge that fails keeps what it added. Left out: bytes, and the order
of an affiliate's endpoints.

**`Cluster.tla`**: one Cluster object and its goroutines. A *thread* is an RPC
goroutine (`Handlers`) or the cleanup goroutine; `Watches` are streams. A step is
what runs between two points where another goroutine can get in. The actions of
a thread:

| Action | Code |
|---|---|
| `UpdateAffiliate`, `DeleteAffiliate` | the section under `affiliatesMu` |
| `ProlongAfterDelete` | `prolongExpiry` after it |
| `PruneReadClock`, `Prune` | `time.Now()` before the lock; the sweep under it |
| `CopySubscribers` | `Cluster.notify`, under `subsMu` |
| `LoadClosed`, `TrySend`, `ReportLost`, `Evict` | `Subscription.notify`, one channel or atomic operation each |
| `FinishFanout` | the end of the loop over the copy |

The actions of a stream: `SubscribeWithSnapshot`; `Send` and `SendFails`; the three
select cases; `DeferClose`; `CtxGoroutine`; and the body of `closeOnce`
(`Unregister`, `CloseChannels`, `ProlongAfterClose`), which advances `stage` and
which others wait for. Sending on a closed channel is a panic: it ends one RPC
(the recovery interceptor) or, in the cleanup goroutine, the process (`Crashed`;
every action is guarded by `~Crashed`). The RPC's thread stays in "panicked": the
loop of `Cluster.notify` is unwound, so it sends nothing more (`Unsent` is empty), not
even to the open streams it had not come to. The client is external: `view` is what
applying the responses in order gives. Two histories do not influence anything:
`owed` in an event (the streams that listened when the change was committed) and
`unsettled` (affiliates whose last change nobody announced, or was announced
while an earlier event about the same affiliate was on its way, or whose event a
panic kept from an open stream).

**`State.tla`**: registry, Cleanup, snapshots, restarts. Cluster objects are numbers
and the registry maps ids to them, so that an RPC can hold an object the
registry has dropped. Cleanup is one step per question it asks. Fan-out is left
out (it never changes a table or the registry); `subs` is who is subscribed. A
snapshot is copied cluster by cluster, and the write either replaces the file or
leaves it alone. `Restart` is possible in every state; it gives each cluster of the
file an object of its own, numbered in any order, as Go's map order is arbitrary. Histories: `late` (objects
used by an RPC after Cleanup, on its latest visit, had looked at that part of them),
`steady` and `saved`
(affiliates unchanged since a snapshot began, and those of the last file written).

**`WatchManager.tla`**: the web UI's side, for one cluster. An entry of the manager
(reference count, cancel, hub) is named after the browser that created it.
`Subscribe` and `JoinHub`, and `LeaveHub` and `Release`, are the two halves of the
manager's Subscribe and Unsubscribe, which hold `mu` throughout while the watcher
(`CheckDone`, `Watch`, `Recv`, `RecvEnds`, `Wait`) and `Hub.Broadcast` (`BroadcastCopy`,
`BroadcastSend`, `BroadcastEnd`) use only the hub's own mutex. A response is its
number in the entry's life, which is enough to tell a gap. Left out: contents, the
length of a backoff, pings, gauges.

**`WatchFeed.tla`** and **`ClusterFeed.tla`**: what `Watch` promises of its events, and
`Cluster` as an implementation of it. The promise: an event committed while a
stream is open is queued for it at most once, in whatever order, and stays due to it
until then, unless the stream ends or the event's source fails; one under way when the
stream joined may come once more; nothing else comes. A source fails (`Fail`) only
while it gives an event to a stream that has ended, and then gives nothing more to
anybody: this is the recovered panic, and the reason why "exactly once" would be too
much to promise. There are no threads, locks, copies or channel states in it, and no
fairness: that what is due is given in the end is the liveness property
`PendingGoesOut`. The refinement mapping: an event is in flight while a thread has it in
its backlog or in its fan-out (`Unsent`), and pending for the streams whose turn is still
to come (`Offered`); a thread that panicked is a failed source; the queue is the event
channel. (The order of events is not promised, because the code does not keep it: see
`reorder`.)

**`SnapshotFile.tla`** and **`AtomicFile.tla`**: `atomicWriteFile`, one step per
system call, each of which may fail; a kill leaves the temporary file, a power
failure takes back what was not synced (`survivors` is what the path may hold
then). `AtomicFile` is what that amounts to: a file replaced in one step, never
torn, that falls back at most to the last confirmed value.

**`Lifecycle.tla`** extends `SnapshotFile`: the process. `group` is the sequence of
actors that the command line asks for; `Listen`, `ServeReturns`, `ShutdownBegins`,
`ShutdownEnds`, `ReturnsWhenDone`, `SnapshotTick`, `SnapshotStops`, `SaveStep` and
`SaveReturns` are the actors; `Interrupt` and `Exit` are the group's `Run` (external:
`oklog/run`). The racing read of `ln` in the interrupt function sees the assignment
or does not. `Signal`, `Kill`, `PowerFailure`, `Connect`, `AffiliateUpdate` and the HTTP
requests are the environment. What the server stores is the set of updates it has
acknowledged, copied by a save in one step (`State.tla` has the detail).

**`InspectPage.tla`**: the page and what feeds it: `List` with its HTTP status codes,
and the contents of the events that the manager passes on. A watcher may have sent
its snapshot before the browser is in the hub; a reconnect brings upserts only; the
hub drops events for a full channel; a deleted row is removed by a timer that does
not look at what the row is by then; an answer replaces the table whatever the
page looks at when it comes. Of the clusters there is the table that `List` shows and,
per thread of the server, the event it has still to send: `ChangeWithEvent` makes the
change and the event, `notify` sends it later, so that events overtake each other, or
sends it to no stream (there is none, or a panic ended the fan-out); `SilentChange` is a
creation without data or endpoints, or a merge that fails half way, of which no event
tells. `sure` is a history: the affiliates for which none of these has gone wrong.

**`MCCluster.tla`, `MCState.tla`, `MCWatchManager.tla`, `MCLifecycle.tla`,
`MCInspectPage.tla`**: request sets, command lines and symmetry for TLC.

**`ClusterProofs`, `ClusterViewProofs`, `StateProofs`, `LifecycleProofs`,
`WatchManagerProofs`, `InspectPageProofs`**: the theorems about the module each is named after, and
their inductive invariants (`ClusterViewProofs` has what clients come to believe and
the refinement of `WatchFeed`). **`AffiliateProofs`**: what the table's functions
return, preserve and bound. **`PositionProofs`**: a set of positions in a queue has a
last one.

Definitions named as mutants ("Mutant: ..." in their comment) are wrong variants
of the definition after them. `PROJECT.json` pairs each with a property that must
fail when the variant takes the definition's place. No specification uses them.

## 3. Runs

| Run | Checks | States |
|---|---|---|
| `fanout` | `FanoutInv`, `NoMissedUpdate`, `ViewsConverge`, `WithinLimits`, `OnlyExpiredIsPruned` | 2.0M |
| `streams` | `NoMissedUpdate`, `ViewsConverge`, `ImplementsFeed` | 703k |
| `rpcs` | `RpcsReturn`, `CancelledWatchIsReleased`, `PendingGoesOut` | 35k |
| `expiry` | `TypeOK`, `ExpiredIsForgotten` | 493k |
| `registry` | `TypeOK`, `LossNeedsRace`, `SavedSurvives`, `UnusedIsDropped` | 436k |
| `manager` | `TypeOK`, `EntryMatchesBrowsers`, `NoSilentGap`, `LeftWatcherEnds`, `GoneBrowserIsReleased` | 137k |
| `lifecycle` | `TypeOK`, `ConfirmedIsKept`, `LitterIsFromDeaths`, `QuietExitNeedsSignal`, `RequestsKeepTheirClient`, `AckedBeforeStopIsSaved`, `StopsUnlessMissed`, `FileIsAtomic` | 159k |
| `page` | `TypeOK`, `PageAgrees`, `DeletedRowGoes`, `ReconnectShowsAll` | 518k |
| `panic` | `NoSendOnClosedChannel`: violated | |
| `reorder` | `WatchShowsTable`: violated | |
| `evicted` | `EvictedStreamEndsWithError`: violated | |
| `orphan` | `UpdateIsInCluster`: violated | |

- `fanout`: two RPCs, the cleanup goroutine, and a stream that may hang up; updates
  of two affiliates with data and endpoints of different TTLs, deletes, a clock.
  Both limits and the channel's capacity are one, so that limits are met,
  requests fail half way and streams are evicted.
- `streams`: two RPCs and two streams, one of which may hang up, so that a
  fan-out can panic at one stream with the other still before it. `NoMissedUpdate` is
  about both ends of a fan-out: one that runs to its end has left out no open stream,
  one that a panic ended only streams it had not come to. The requests are updates of
  data; the run also checks the refinement of `WatchFeed`.
- `rpcs`, `expiry`: liveness, with clients that may never read. `PendingGoesOut` is what
  `WatchFeed` leaves open: an event that is due to a stream does not stay due.
  `expiry` has a request that fails half way and one whose negative TTL passes
  validation and ends the affiliate's life at once.
- `registry`: two RPCs of any kind next to Cleanup, snapshots that may fail, and one
  restart, with one cluster id and two objects for it. A snapshot's walk over several
  clusters is covered by the theorem `SnapshotKeeps`.
- `manager`: two browsers with channels of one event, a stream of two responses per
  entry that may break at any point, and a process that may be told to stop.
- `lifecycle`: the service with snapshots, the service with the embedded web server,
  the bufconn listener and cleanup, and the web server alone. Every system call may
  fail, and the process may be signalled, killed or lose its machine at any step; it
  is started twice. `AckedBeforeStopIsSaved` says what the snapshot at shutdown is
  good for: all that was acknowledged before the stop. Updates acknowledged
  later, while the listener's connections are still served, may or may not be in it.
  `StopsUnlessMissed` has the exception the code has: if the interrupt function runs
  before `ln` is assigned, nobody closes that listener and the process goes on
  serving after everything else has stopped (`server_actors.go:49`). The HTTP listener
  does not have the problem, because its shutdown actor ends `Serve`.
- `page`: two clusters and an id that is refused, one affiliate that comes, goes and
  comes back in each, two threads that change it, two list requests at once, and two
  broken connections. Several affiliates and values are covered by the theorem
  `PageIsRight`.

**Bounds.** A handler serves one RPC, a stream is used once: two or three actors
are what each known race needs, and two streams what the panic of one of them needs to
harm another. `MaxNow` lets TTLs pass, except in `rpcs` and
`streams`, where the clock, which starts at 1, stands still (`ClusterTTL` is `TTLMax`,
as in `limits.go`). The code's 64-event buffer is 1: what matters is
whether the buffer is full, and one event fills it. `MaxObjects` and `MaxRestarts`
bound the objects of a process and the restarts. In `lifecycle` two starts are what a
lost or wrongly loaded snapshot needs, and one update tells an old file from a new
one; without snapshots a second start repeats the first and is left out. In `page`
three changes make a row go and come back while its timer runs, and two clicks
make an answer come late. With handlers used up and the
clock at its bound the models stop, so deadlock is not checked; the liveness
properties say instead what must not get stuck.

**Fairness.** Runnable goroutines get to run and the cleanup ticker fires (weak
fairness on threads, on a stream's own goroutines, on Cleanup). Clients are not
assumed to call, hang up or read (`Send` is not fair: a stream may be stuck in it
until its context ends), the clock may stand still, and snapshots may never run. In
`WatchManager` dialling and backing off end, and `Recv` returns once its context is
done, as gRPC promises; the server need not answer and browsers need not read. In
`Lifecycle` actors and the group run and system calls return, HTTP requests
need not end (the shutdown has its timeout), and when the snapshot actor's ticker
and its context are ready again and again, Go's select takes the context once
(strong fairness on `SnapshotStops`, since saves come in between). In `InspectPage`
timers fire, the page takes its events and the manager's retries get a stream in
the end; no answer to a list request is assumed.

### What the violated properties show

1. **`panic`** (`cluster_subscribe.go:51-64`): `notify` checks `closed` and then
   sends; `Close` can close the channel in between.
   `cluster_subscribe_test.go:153` expects `assert.NotPanics(...)` of notifying a
   closed subscription, and tests it in one goroutine. In an RPC the panic is
   recovered after the change was committed; in the cleanup goroutine it ends
   the process. The panic also unwinds the loop over all subscribers (lines 133-135),
   and the recovery interceptor (`discovery_server.go:60`) keeps the process up: streams
   that were still to be notified stay open and never get the event, although
   `cluster_subscribe_test.go:208` says "fast subscriber should still receive events
   after slow subscriber was evicted". `streams` reaches this with its two streams, and
   `NoMissedUpdate` says that no other streams are left out.
2. **`reorder`** (`cluster.go:64`, `:115`, `:156`): events leave after the unlock,
   so that two changes of an affiliate can be announced in the opposite order,
   and the stream keeps the wrong picture. `cluster.proto:34`: "Subsequent response
   messages are sent as the affiliates get changed."
3. **`evicted`** (`cluster_server.go:177-180`): after an eviction the select may
   take the closed, drained event channel rather than the error, and the stream
   ends with status OK, although (line 172) the "client must reconnect/relist".
4. **`orphan`** (`state.go:61-62`): Cleanup drops a cluster between an update's
   `ClusterFor` and its `UpdateAffiliate`; the update succeeds and is lost.
   `cluster.proto:25`: "AffiliateUpdate updates (or creates) affiliate in the
   cluster."

The positive counterparts say how far the damage goes. `ViewsConverge`: pictures
are right about every affiliate whose latest change was announced, with no older
event about it still on its way and no panic between it and the stream.
`NoMissedUpdate`: a panic is the only way to leave out an open stream, and only streams
behind the one it happened at. `LossNeedsRace`: Cleanup loses something only in this
race, and only on the visit in which it happens. `PageAgrees`: a page's row is wrong only
after one of the mishaps it lists.

Plain divergences, visible in one guard and not given a run: no response is sent
for an empty snapshot (`cluster_server.go:148`; `cluster.proto:33` says "even if
empty", `cluster_server_test.go:277` tests for the code's behaviour); an update
without data and endpoints creates an affiliate without an event
(`cluster.go:96`); an update refused with `ErrTooManyEndpoints` keeps the endpoints
that fitted (`affiliate.go:83`; `affiliate_test.go:144` "endpoint count should not
change on error"). The models contain all three.

## 4. Theorems

TLAPS proves every invariant that a passing run checks, and every action property and
refinement, for arbitrary values of the constants. What is assumed of them is the
`ASSUME` of each module, which TLC evaluates on each run: limits, capacities and
bounds are numbers (the channels' capacities not zero), requests are requests, `Nil`
and the like are not among the things they stand apart from (`NilAssumption`:
nil is not an event), and, in `WatchManager`, the browsers are finitely many. The
bounds on clocks, objects, restarts, starts, clicks and responses are arbitrary
numbers, so the theorems hold of runs of any length.

Each theorem rests on an inductive invariant. These were checked with TLC before they
were proved.

**`ClusterProofs`**

- `TypeCorrect`: the channel operations need to know that a thread in the middle of a
  fan-out carries an event and a subscription (`CarriesEvent`), so `TypeOK` is proved
  together with
- `FanoutInvariant`: `Spec => []FanoutInv`. `FanoutInv` is the inductive strengthening
  of `NoMissedUpdate`. `NoMissedUpdate` speaks of the end of a fan-out only; to get
  there one must know that a listening stream is registered (so the copy taken
  later contains it), that only streams that had begun are owed anything, and
  that, all through the fan-out, an open stream that is owed the event is among
  those still to be notified or is the one being notified (`OwedIsAhead`), also when
  the thread has been thrown out of the loop. The eviction is the delicate step: the stream stays owed, but is no longer open.
- `ListenersMissNothing`: `NoMissedUpdate`, from `FanoutInv`: also for a thread that panicked,
  whose event is owed to no open stream but those left in its copy.
- `UnexpiredIsKept`: `OnlyExpiredIsPruned`, from `TypeOK` and the invariant that
  Prune's clock reading is never ahead of the clock.
- `LimitsHold`: `WithinLimits`. A cardinality means something only for a finite set,
  so the invariant is that the tables are finite and within the limits
  (`TableWithin`); `AffiliateProofs` shows that update, delete and prune keep it.

**`ClusterViewProofs`**

- `PicturesComeRight`: `ViewsConverge`. It speaks of drained streams; the invariant
  (`ViewInv`) says of every reading stream and settled affiliate that applying what
  is queued gives what the table has, or that an event about the affiliate is still
  due to the stream (`PictureInv`), and that such an event says what the table has
  (`TruthInv`). A commit makes the event due to all who listen, the send puts it last
  in the queue, an eviction ends the stream, a panic unsettles the affiliates of the
  events it takes along, and a new stream begins with the table.
  Two smaller parts: a thread commits only with nothing left to send (`QuietInv`), and
  a stream that has not begun has been given nothing (`NewInv`).
- `FeedImplemented`: `ImplementsFeed`. Under the refinement mapping of `ClusterFeed` each
  commit is the feed's `Commit`, each successful send a `Deliver`, the first step of
  `Close` an `End`, registration a `Join`, a panic a `Fail` (the stream whose channel was
  closed has ended, and the event was pending for it); passing over a stream that has
  ended, and unregistering it, are `Forget`; everything else is a stutter. Needed
  besides the above (`FeedInv`): the events of a thread are about different affiliates,
  so that one send delivers one event; a subscription leaves the copy before it is
  notified, so that nothing is delivered twice; nobody closes a stream that has
  not begun.

**`StateProofs`**

- `TypeCorrect`, with: an RPC's pointer is that of an object, and what Cleanup has yet to
  visit is in the registry, since nobody else removes entries.
- `CleanupLosesNothingElse`: `LossNeedsRace`. The invariant (`CheckedInv`) is what Cleanup
  knows between its questions: the object it visits is still empty, still without
  subscribers, or has been used late.
- `SnapshotKeeps`: `SavedSurvives`. The invariant (`SteadyInv`) follows the copy: an
  affiliate left alone since the snapshot began is copied as it is, or its cluster is
  still to be copied from the object that is registered.

**`LifecycleProofs`**

- `SnapshotIsAtomic`: `FileIsAtomic`, from what is known at each step of a save
  (`SaveInv`: before the rename the temporary file is synced and holds the data).
- `ConfirmedStays`: `ConfirmedIsKept`. The invariant (`DurableInv`): a confirmed value is
  contained in every file a power failure may bring back, in memory, and in what is
  being saved.
- `LitterIsBounded`, `QuietExitIsAsked`, `ClientOutlivesRequests`: `LitterIsFromDeaths`,
  `QuietExitNeedsSignal`, `RequestsKeepTheirClient`. The last two from `StopInv`: until some
  actor has returned only a signal ends the context, shutdown and last save wait for
  it, and the client is closed at the end of the shutdown.
- `StopSavesAcked`: `AckedBeforeStopIsSaved`. The invariant (`AckedInv`): the last save is
  of a memory read after the context was done, so of no less than was due.
- `TypeCorrect`.

**`WatchManagerProofs`**

- `BooksAreRight`: `EntryMatchesBrowsers`. Between the two steps of Subscribe, or of
  Unsubscribe, a browser holds the mutex (`MutexInv`), and a browser that has yet to
  come has given no entry its name (`FreshInv`).
- `NoGapWithoutDrop`: `NoSilentGap`. In addition: the copy that a broadcast works through
  names only browsers that have joined, and once its entry is not the current one only
  browsers that have left (`TargetsInv`), so that nobody gets a response from a past
  entry.
- `TypeCorrect`.

**`InspectPageProofs`**

- `PageIsRight`: `PageAgrees`. The invariant says in addition that an answer on its way is
  right about what has not changed since the server gave it (`AnswersInv`), that an
  event the server has still to send is right unless its affiliate has changed since
  (`NoticesInv`: it may be sent after that of a later change), and that nothing is promised before the first click.
- `TypeCorrect`.

**Model-checked only.** Liveness, since fairness and ENABLED are beyond the prover:
`RpcsReturn`, `CancelledWatchIsReleased`, `PendingGoesOut`, `ExpiredIsForgotten`, `UnusedIsDropped`,
`LeftWatcherEnds`, `GoneBrowserIsReleased`, `StopsUnlessMissed`, `DeletedRowGoes`,
`ReconnectShowsAll`. The violated properties are counterexamples, which need no proof.
The definitions contain no recursion.

## 5. Plan

Done: the modules, runs and proofs above.

Next:

1. The safety half of the liveness properties: the invariants that say who a waiting
   goroutine is waiting for (a thread in `Evict` waits for a `Close` that is under way;
   a browser at the manager's mutex for the one holder, which needs nobody).
2. `Fits` and `MergeEndpoints` against the loop of `affiliate.go`, written as a recursive
   function, over bounded inputs.
3. How far `orphan` reaches, as a theorem, and which states a panic needs.

### Not modelled

- Metrics, logging, tracing: no state that anyone reads back.
- Configuration: flags, environment and files, read once. The command lines that
  change which actors run are the `Configs` of `Lifecycle`.
- Generated protobuf code, and `Hello`, which computes an address from its request.
- Request lengths and emptiness: per-request checks. One refused id stands for them
  in `InspectPage`; negative TTLs, which pass, are a request of the `expiry` run.
- TLS, sockets, static files, the page's filter, paging and modal.
- A deferred `Remove` of a temporary file that itself fails.

## 6. Running

    tlc -workers 2 -config MCCluster_fanout.cfg MCCluster
    tlc -workers 2 -config MCState_registry.cfg MCState
    tlc -workers 2 -config MCLifecycle_lifecycle.cfg MCLifecycle
    tlc -workers 2 -config MCInspectPage_page.cfg MCInspectPage
    tlapm ClusterViewProofs.tla

and so on for the other configurations and the other `*Proofs.tla`. The proofs take a few
minutes together.
