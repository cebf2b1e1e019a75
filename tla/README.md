# Verification of multus-admission-controller

TLA+ models of the multus admission controller, checked with TLC on small
instances, and theorems about them checked with TLAPS for all values of the
constants. The models are translated from the Go source; `PROJECT.json` maps
every definition to the lines it stands for. Paths below are relative to the
repository's root.

## 1. The system

One process (`cmd/webhook/main.go`) does two independent things:

* it is an **admission webhook**: it answers `/validate` and `/isolate`, over a
  TLS key pair that is reloaded when the certificate file changes;
* it runs a **controller** that watches the cluster's running pods and counts,
  in Prometheus gauges, those with attached networks, by the CNI types of the
  networks.

The webhook's handlers keep no state between requests. The controller is where
the state and the concurrency are: its data flow is

    API server --watch--> RealFIFO --processDeltas--> indexer
                                         |               ^
                                         v               | read by key
                                   notifications         |
                                         |               |
                             AddFunc/UpdateFunc/DeleteFunc
                                         |               |
                                         v               |
        AddAfter, waitingLoop ----> work queue --> processNextItem
                 ^                                       |
                 +------- AddRateLimited, Forget --------+--> updateMetrics
                                                         |    objStore, gauges
                                    getCrdByName <-------+
                                    (API server)

with a goroutine each for the reflector, `processDeltas`, the notification
listener that calls the handlers, the `waitingLoop` of the queue and the one
worker.

### Inventory

| Component | State | Operations | Hard because | Correct when |
|---|---|---|---|---|
| Controller (`pkg/controller/controller.go`) | none of its own: a queue, an informer, API clients | `AddFunc`, `UpdateFunc`, `DeleteFunc`; `processNextItem`, `processItem`, `handleErr`; `getCrdByName`; `updateMetrics` | the handler hears of one object, the worker reads another, later; lookups fail; updates are filtered | a pod that is not on its way to the worker is recorded with the types it has; nothing is counted for ever |
| Metrics (`updateMetrics`, `pkg/localmetrics`) | `objStore`, the gauges, the enabled counters | `updateMetrics(Add/Delete)`, `UpdateNetAttachDefInstanceMetrics`, `SetStoredValue`, `InitMetrics` | a long sequence of small updates, scraped in between, failing in the middle | each gauge counts the pods recorded under its label, at each step |
| Work queue (client-go `workqueue`) | `queue`, `dirty`, `processing`, `shuttingDown`, the channel and the heap of delayed items, failures per item, goroutines asleep on the condition variable | `Add`, `Get`, `Done`, `ShutDown`, `AddRateLimited`, `Forget`, `waitingLoop` | keys added while they are processed or due for a retry; `Signal` wakes one of several | no key is lost, duplicated, or processed twice at once; no wake-up is lost; shutting down ends |
| Pod informer (client-go `tools/cache`) | deltas, indexer, notifications, initial list | list and watch, relist, resync, `processDeltas`, the listener | watches break and lose deletions; handlers lag behind the indexer | the indexer catches up; handlers hear every transition of it |
| Isolation webhook (`/isolate`) | none | `IsolateHandler`, `analyzeIsolationAnnotation` | several ways to fail, each with its own response | a pod is allowed iff every network it names is looked up in the pod's own namespace |
| Validation webhook (`/validate`) | none | `ValidateHandler`, `validateNetworkAttachmentDefinition`, `preprocessCNIConfig`, `validateCNIConfig` | the order of the checks; configurations of two forms; two decoders of the same text | what is allowed has types, and what a runtime can use is allowed |
| Annotation parsing (`controller.go`, `webhook.go`) | none | `parsePodNetworkAnnotation`, `parsePodNetworkObjectName`, two copies | the two copies are called with different defaults | webhook and controller agree on where a network is looked up |
| CNI configuration types (`getConfigTypes`) | none | over the outcomes of libcni | list and single forms | every plugin's type is found |
| Certificate watch and reload (`main.go`, `tlsutil.go`) | hash last seen, key pair, lock, the two files | the poll of `main`, SIGHUP, `maybeReload`, `GetCertificateFunc` | rotation of two files, a poll and a signal handler, all unsynchronised | a rotated pair comes to be served; a pair that does not match never is |
| Life cycle (`StartWatching`, `Run`, `main`) | stop channel, signal handlers, the queue's shutdown | start, sync, SIGTERM, deferred cleanups | who waits for whom when the program starts and ends | everything comes up; a stop ends what was started |
| Servers and flags (`main.go`) | none | `startHTTPServers`, `startHTTPMetricServer`, TLS options, `StringSliceFlag` | one server fails after the other has started | both come to listen, or the process ends |
| Deployment files, vendored libraries | | | | not behaviour of this program |

The hazards, each at its line with the properties that cover it, are in
`PROJECT.json`.

## 2. The modules

| Module | Models | Uses |
|---|---|---|
| `MarkedWork` | the promise of a work queue: marks coalesce, only starting work clears one, no key is worked on twice at once | |
| `WorkQueue` | `Typed`, `delayingType`, the failure rate limiter | refines `MarkedWork` |
| `WorkQueueProofs` | theorems about `WorkQueue` | |
| `PodMetrics` | `updateMetrics`, `localmetrics` | |
| `PodMetricsProofs` | theorems about `PodMetrics` | |
| `PodInformer` | the watched pods, the shared informer | |
| `PodInformerProofs` | theorems about `PodInformer` | |
| `Controller` | the handlers, the worker and the lookups | extends `PodMetrics`, composes `PodInformer` and `WorkQueue` |
| `ControllerProofs` | theorems about `Controller` and its parts: types, and what carries over from the parts | `PodInformerProofs`, `WorkQueueProofs`, `PodMetricsProofs` |
| `ControllerRecordProofs` | theorems about what the controller records of the pods | `ControllerProofs` |
| `CertReload` | the loop of `main` that watches the certificate, the reloader's goroutine | |
| `CertReloadProofs` | theorems about `CertReload` | |
| `Process` | `main`, the servers' goroutines, `StartWatching`, `Run`, signals | extends and refines `CertReload` |
| `ProcessProofs` | theorems about `Process` | `CertReloadProofs` |
| `NetworkAnnotation` | the networks annotation and its parser, pure operators | |
| `CniConfig` | configurations, libcni's parsers, the checks of `/validate`, `getConfigTypes`, pure operators | |
| `Webhook` | `/isolate` and `/validate`, from request to answer | extends `NetworkAnnotation`, `CniConfig` |
| `WebhookProofs` | theorems about `Webhook`, `NetworkAnnotation` and `CniConfig` | |
| `MC*` | model values and symmetry for TLC | |

### WorkQueue

Every method of `Typed` holds the lock of `q.cond` from beginning to end, so it
is one action; only `Get` gives the lock up, in `cond.Wait`. A worker is
`ready` (it wants the lock in `Get`), `asleep` (in `Wait`), `busy` (between
`Get` and `Done`) or `gone` (told of the shutdown). `Signal` makes one sleeper
ready, any one; it takes the lock like any other and finds the queue as it is
then (`GetItem`, `GetSleeps`, `GetReturnsShutdown` are the three ways out of the
loop in `Get`). `Broadcast` in `ShutDown` wakes all.

`AddRateLimited` is `rateLimiter.When` (which counts the failure) and `AddAfter`
(which sends to `waitingForAddCh`, blocking when it is full, or does nothing
once the queue shuts down). `ReceiveDelayed` and `DelayExpires` are the two
branches of `waitingLoop` that matter: an entry received that is due already or
goes to the heap, and an entry of the heap that has become due. The heap holds
at most one entry for an item (`insert` only moves an existing one forward), so
it is the set `waiting`. There is no clock: a delay may end at any moment, which
covers every length of it. The bucket rate limiter only makes delays longer.

The actions of a client are unconstrained: it may add any key at any moment, and
a busy worker may report a failure or a success as often as it likes before
`Done`. `Controller` is one such client: its handlers and its worker change the
queue by these actions only.

### PodMetrics

`updateMetrics` runs on one goroutine but writes the gauges one by one, and a
scrape may read between any two writes. So each write of a gauge, and each call of
`SetStoredValue`, is an action, in the order of the code: for a pod that is
recorded, `Decrement` each of its labels, then `Erase`; for an Add, resolve the
types, `Increment` their labels, `Store`, `IncrementAny`. A call of
`UpdateNetAttachDefInstanceMetrics` for a tracked label ends with a write of a second
gauge, `SetEnabledInstanceUp`: until then the label is in `unset`, and nothing else
of `updateMetrics` happens. The enabled counter changes with the first gauge, as no
other goroutine reads it. `pc` says which step comes next, and `todo` which labels
are left. `Leading` gives the order of the labels: single
types in any order (the code iterates over a map), then their combination, then
"any".

The string recorded for a pod is the sorted types joined by commas; the model has
the set of types. The label of a single type `t` is the set `{t}`, the label of a
combination is the set itself, so a pod with one type has the same label for
both, as in the code. This abstraction takes type names to contain no comma and
none to be "any"; the hazard this leaves open is listed in `PROJECT.json`.

### PodInformer

`pods` is the API server; every change of it appends a delta to `deltas`, which
stands for the watch and the `RealFIFO` together. `ProcessDelta` updates the
indexer and queues the notification that will call a handler later (`Notify`).
A broken watch (`Relist`) drops a suffix of the deltas and appends what
`RealFIFO.Replace` makes of a list: a tombstone, with the last object known, for
each known key that is gone, and an upsert for each pod listed, in any order of
keys. What is known of a key (`View`) is what its last delta leads to (`Outcome`), or
else what the indexer holds, as `Replace` looks at the queue first and then at the
known objects; `Gone` are the keys it finds deleted. `Resync` queues the indexer's objects
again, but those for whose key a delta is queued already (`RealFIFO.Resync` says why: the
store may be behind the queue). It is stated for the moment when every delta has arrived: a
delta that is still in the watch comes after those of the resync, like a change that is made
later. The program may start in a cluster with pods that are being deleted.

A pod is in view while it is Running and in a namespace that is not ignored (the
field selector). One that leaves the view is `Absent`. An object has what the
handlers look at: the annotation, whether it has a deletion timestamp, and a
version, which is different for every change.

### Controller

Two of the components are named instances (`Informer`, `Queue`) over the variables
of `Controller`, and `PodMetrics` is extended (its specification is `MetricsSpec`
there). `Controller` adds the definitions in the cluster
(`nads`), the local variables of the lookups (`wanted`, `found`) and `handled`,
the worker's place between `handleErr` and the deferred `queue.Done`. `held` is a history
variable: the types each definition has had so far. No action reads it; it is there for
`RecordedTypesAreNamed` to speak of definitions as they were.

* `HandleEvent` takes a notification and calls `AddFunc`, `UpdateFunc` or
  `DeleteFunc`, with the conditions of the code, the tombstone case included;
  each may add the key to the queue.
* `GetKey`, `ProcessItem`, `UpdateGauges`, `ParseAnnotationFails`, `LookupNad`,
  `AllLookedUp`, `HandleErr`, `DoneKey` are one round of `processNextItem`. The
  indexer is read once, in `ProcessItem`; each lookup of a definition is a step,
  so that the cluster can change between any two.
* A lookup that fails, or finds no definition, contributes no type and is no
  error for the key (`continue` at line 374). Only an annotation that does not
  parse makes `updateMetrics` fail; the key is then retried up to `MaxRetries`
  times.
* The worker starts once the initial list has been processed
  (`WaitForCacheSync`).

Nothing is persisted, so a restart is a new behaviour that starts in `Init` with
the cluster of that moment: any pods, any definitions.

`Disturbances` selects what the environment may do beyond plain changes of pods,
so that each run can say what a property depends on:

| Disturbance | Meaning |
|---|---|
| `GracePeriod` | a pod gets a deletion timestamp and lives on for a while |
| `AnnotateDeleting` | the annotation of such a pod changes |
| `Relist` | the watch breaks |
| `Resync` | the resync period elapses |
| `LookupErrors` | the API server fails to return a definition |
| `NadChanges` | definitions are created, changed, deleted |

### CertReload

`main` loads the pair in `NewTLSKeypairReloader` (`LoadCert`, `LoadKey`: two files,
two steps), which starts the reloader's goroutine, and goes on to its loop: `Poll`
reads the certificate, `Compare` sends SIGHUP to the process itself if the hash is
not the one seen last. The two are separate steps, as anything may happen between
them. `pending` is the signal on its way (the kernel keeps at most one), `hangup`
the channel of `signal.Notify`, which has room for one. `Deliver` takes it from the
first to the second, drops it if the channel is full, and ends the process if the
goroutine has not asked for SIGHUP yet. `ReloadCert` and `ReloadKey` are
`maybeReload`; the lock it takes only delays handshakes, which read `served`.

Every error is `Fatal`: the process ends, loses what it holds in memory and is
started again by whoever runs the container. The files survive.

A file is represented by the number of the rotation that wrote it: a certificate
and a key match if their numbers are equal. Pairs are rotated at once (a volume
with a secret) or, with `OneByOne`, a file at a time in any order; with `Remove`, a
file may be missing in between; with `AtStart`, the certificate may also change
between the moment main loads it and the moment its loop first sees it. With
`Interruptions`, the process may also end at any moment for a reason that
`CertReload` does not know (`Interrupted`).

### Process

`Process` adds to `CertReload` what else runs in the process. `main` sets up its
client and servers (`SetUp`), which must be done before its first `Poll`; each
server's goroutine comes to `Listen`; `StartWatching` starts `Run`, asks for
signals and waits (`StartController`, `AskForTerm`, `DeliverTerm`); `Run` starts the
informer, waits for the caches, and calls `runWorker` in `wait.Until`, which looks
at the stop channel before each call. The worker waits in `Get` until a key is
queued or the queue is shut down, and `Run` shuts it down when it returns.

Every step that can fail in the code has the failure as an alternative, which ends
the process with all of its goroutines (`glog.Fatal`); `Killed` is the signal nobody
catches. A SIGTERM ends a process whose `StartWatching` has not asked for it yet
(Go's default), and is taken from the channel otherwise. The certificate's side is
`CertReload` unchanged: `Along` lets a step of it end the rest too. The queue is
reduced to `queued` and `closed`; `WorkQueue` and `Controller` have the rest.
`InformerSyncs` covers the reflector's first list, `InformerStops` the end of
`informer.Run`.

### NetworkAnnotation, CniConfig, Webhook

A request is chosen in `WebhookInit` and handled in two steps: `ReadAdmissionReview`
answers what is no review, and the handler of the path decides about the object. The
answer has the HTTP status (`ok`, `badRequest`, `unsupportedMediaType`, or `cutOff`
for a handler that panics: net/http closes the connection), and the UID and verdict
of the review. A handler keeps nothing, so one request is a behaviour.

Both packages have a copy of the annotation's parser, with the same text; the model
has one, with the default namespace as a parameter: the webhook passes `_local`,
which is no name of a namespace, and the controller the pod's namespace. An item of
a list is the sequence of what stands between its slashes and at signs, so the
splitting, the counting of the parts and the check of each part are as in the code;
a part is a DNS label, empty, or something that is neither. Text in JSON is not
checked by the code. A null in a JSON array makes a nil element, and filling in its
namespace panics.

A configuration has the form and the keys that the code and libcni look at. The
model of libcni (vendored) accepts a list without the key `plugins`, whose plugins
would be loaded from files. Other keys (`cniVersion` and so on) are taken to be as
CNI wants them.

Three things met while translating, none of which a property is about:

* `preprocessCNIConfig` fills in a name only if decoding fails (`webhook.go:89` has
  `err != nil`), which `isJSON` has ruled out, so it never fills one in, although
  the comment above it says so. A list without a name is therefore refused, as
  libcni wants one; a single plugin without a name is not.
* A review without a request makes both handlers dereference nil before the answer
  that `prepareAdmissionReviewResponse` has for this case.
* `plugins` that is no array, or a plugin that is no object, makes a type assertion
  panic.

## 3. What is checked

| Run | Instance | Shows |
|---|---|---|
| `work_queue` | 3 workers, 2 items, 1 failure, channel of 2 | `TypeOK`; `QueueShape`: every marked key nobody processes is queued, once; `ExclusiveProcessing`; `NoLostWakeup`; `OnlyAStartClearsAMark`; the queue implements `MarkedWork`; every mark is processed, every retry is queued again, shutting down lets all workers go |
| `pod_informer` | 2 pods, 3 changes, all disturbances | no change is lost for good (`DeltasLeadToCluster`), neither by a broken watch nor by a resync with older objects; the handlers hear every transition of the indexer (`NotificationsChain`), the indexer catches up (`CatchesUp`) |
| `controller` | 2 pods, 1 definition, 2 changes, grace periods, malformed annotations, 1 retry | `GaugesCountPods` at each step of `updateMetrics`; `UpMeansSome`: the `up` gauge of a label is set after its other gauge, so a scrape may find the two in disagreement, but of one label only, as its first pod comes or its last one goes, and not between two calls; `SettledPodsAreRight`, `GaugesCountCluster` |
| `controller_faults` | 1 pod, 2 definitions, 3 changes, broken watches, failing lookups, changing definitions | types may be missing or old, but no pod is counted for ever (`NoLeak`), and a pod that is settled is counted under no type that the networks it names never had (`RecordedTypesAreNamed`): nothing of the annotation it had before, or of another pod, lingers |
| `controller_liveness` | 1 pod, 3 changes, broken watches, resyncs | `SettledPodsAreRight` through tombstones; `EventuallyRight`: through retries and resyncs, what is recorded becomes and stays what the cluster has |
| `process` | 2 rotations, file by file, with missing files, not while the process starts; 1 failure, kill or SIGTERM | `ServedPairMatches`, `RotationIsNoticed`; `InstalledPairIsServed`: the pair that stays installed comes to be served, through crashes and restarts; the process implements `CertReload`; `ComesUp`: after the last failure both servers listen and the worker works; `StopBeforeWorkEnds`, `StopSettles`: what a stop ends; `WorkerStaysAtWork`: that it never ends the worker |
| `admission` | every annotation of up to two networks, every configuration of up to two plugins, every kind of bad request | `FailsClosed`: no handler that failed on its way admits anything; `AllowedIffFollowsPod`: the pods admitted are those whose networks the controller looks up in the pod's namespace, wherever the pod is; `AllowedIsTyped`, `UsableIsAllowed`: what is admitted has types, what a runtime can use is admitted; `UncountedAreNamedSingles`: which admitted definitions the controller finds no type in |
| `cert_at_start` | 3 rotations, at any moment | **violation** of `InstalledPairIsServed` |
| `resync_misses` | 1 pod, resyncs and failing lookups | **violation** of `ResyncCatchesMissedUpdates` |
| `deleting_leak` | 1 pod, annotation changed in the grace period | **violation** of `NoLeak` |
| `sigterm` | 1 rotation, 2 signals or failures | **violation** of `TerminationEndsProcess` |
| `uncounted` | as `admission` | **violation** of `AllowedIsCounted` |

Every property of a passing run has a mutant in `PROJECT.json`: a plausible bug
in one definition, under which TLC finds the property violated. The mutated
forms are in the modules, before the definitions they replace.

### What the violations show

* **A resync repairs nothing.** The comment on `resyncPeriod` says that it is
  "required to catch any missed updates". A resync notifies with the same
  object twice, and `UpdateFunc` ignores an update that does not change the
  resource version (`controller.go:142`). So a pod whose definition could not be
  looked up when it was added, an error that is skipped without a retry, stays
  uncounted until the pod itself changes.
* **A pod can be counted for ever.** `UpdateFunc` ignores updates of a pod with a
  deletion timestamp. If the annotation is removed during the grace period, the
  removal is ignored; when the pod goes, `DeleteFunc` finds no annotation on the
  last object and ignores that too. The entry in `objStore` and its share of the
  gauges are never taken back. It needs `AnnotateDeleting`; the same follows from
  `GracePeriod` and `Relist` together (the annotation is removed and the deletion
  timestamp set while the watch is broken, so that both arrive in one update),
  which is why `controller_faults` and `controller_liveness` have no grace periods.
* **A rotation at the start is missed.** `main` loads the key pair before its loop
  hashes the certificate for the first time, and the first hash is compared with
  nothing. A certificate written in between looks like the one that was loaded, and
  the old one is served until the next rotation (`main.go:133` says: "watch the cert
  file and restart http sever if the file updated").
* **SIGTERM does not end the process.** Once `StartWatching` has asked for SIGTERM, it
  takes the signal, closes the stop channel and returns; but it is a goroutine, and
  `main`'s loop has no end. The informer stops, the metrics stand still, the worker
  waits in `Get` for ever (`Run` defers `queue.ShutDown`, but is behind `wait.Until`,
  which waits for the worker), and further signals are ignored until the container is
  killed at the end of its grace period. `StopBeforeWorkEnds` and `StopSettles` say
  how far a stop gets.
* **An admitted definition may not count.** A single plugin with a name is, for
  libcni, a list whose plugins are in files; `getConfigTypes` tries the list first
  and finds no plugins in it. The pods that use such a definition are counted under
  no label.

### Bounds

* `MaxChanges` bounds the changes of the cluster. Two or three are enough for a
  pod to be removed and created again under the same key while the worker holds
  the key, or for an annotation to be added and removed; a third pod adds no
  interaction, since pods share nothing but the queue (which has runs and proofs
  of its own for more keys and workers) and the gauges (about which the theorems
  hold for any set of pods).
* `MaxRetries` is 1 in the runs and 5 in the code: enough for a retry to be in
  flight with an event for the same key, and to be given up.
* `ChanCapacity` is 1000 in the code. In `work_queue` it is 2, so that the channel
  does fill up; with the one worker and `MaxRetries` of the controller it need
  not.
* Resyncs are not bounded in number; one does not begin while a notification waits for
  a handler (the period is an hour). Deltas may be queued when it begins.
* `MaxRotations` is 2 in `process`, so that a rotation can begin while a reload for
  the first is under way, and 3 in `cert_at_start`. `ServedPairMatches` and
  `RotationIsNoticed` are proved for any number.
* `MaxInterruptions` is 1 in `process`: a failure, kill or SIGTERM at any moment,
  besides the crashes that rotations cause. A second one meets a process that was
  started again, as the first did. In `sigterm` it is 2: a signal the process
  ignores, and one more.
* Annotations have up to two networks and configurations up to two plugins: the
  loops over them stop at the first that is refused, so what a third adds is what the
  second does. Parts of a name are one of two labels, empty, or bad; up to three at
  signs and slashes, one more than are allowed.
* The rate limiter's count is bounded by `MaxFailures` in `AddRateLimited`; the
  theorems hold for any value of it.

Symmetry is used only in runs without liveness properties. Deadlock is checked for
`WorkQueue`, `CertReload` and `Process`. `CHECK_DEADLOCK FALSE` is said for the informer
and the controller, where the changes are bounded and the worker rightly waits for
work once they end, and for `Webhook`, where a request has been answered in the end.

### Fairness

* Every goroutine that can take a step eventually takes one: weak fairness of the
  informer's, the handlers', the worker's and the `waitingLoop`'s steps. The Go
  scheduler gives this. Workers in the queue are fair one by one.
* `Done` is fair, since `processNextItem` defers it.
* A delay ends (`DelayExpires`), since the rate limiter's delays are finite.
* A signal that was sent arrives, and a container that ended is started again (the
  deployment's restart policy).
* In `Process` each goroutine is fair by itself: main, the reloader, each server,
  `StartWatching`, `Run` with its worker, the informer; and the API server answers
  the first list. Failures, kills, SIGTERM and keys are not fair.
* Nothing is assumed of who rotates the key pair: `InstalledPairIsServed` speaks of
  behaviours where a pair is installed in the end and stays.
* Nothing is assumed of the cluster, nor that lookups succeed: a client need not
  add anything, and pods need not change.

## 4. What is proved

`WorkQueueProofs`, for any set of items, any finite set of workers, any
capacity (`NoItem` is not an item):

* `WorkQueueInvariant`: `TypeOK`, `QueueShape` and `ExclusiveProcessing` together
  are inductive. None is by itself. `GetItem` keeps processing exclusive because
  the head of the queue is not being processed, which `QueueShape` says; `Done`
  keeps the shape because the item it gives back is no longer held by anybody,
  which `ExclusiveProcessing` says. The corollaries `WorkQueueTypes`,
  `WorkIsExclusive` and `QueueHoldsTheWork` are its parts.
* `QueueKeepsPromise`: the queue implements `MarkedWork`, with `dirty` for the
  marks and the workers' items for the active keys. Sleeping, waking, delays and
  the order of the queue are stutters.
* `MarksAreKept`: only a start clears a mark.
* `NoWakeupIsLost`: each queued item has a ready worker while another sleeps. On
  top of the invariant it counts: `Append` goes with a signal, which adds a ready
  worker if any sleeps; a worker goes to sleep only when the queue is empty; and
  one that takes an item takes one item and one ready worker away. This is why
  the set of workers is assumed finite.

`PodMetricsProofs`, for any finite set of pods and any types ("any" is no set of
types, and `NoPod` no pod):

* `PodMetricsInvariant`: `GaugesCountPods` with `InStep` (what is recorded of the
  pod, and what is left to do, at each place of `updateMetrics`) and
  `CountersAgree` (the enabled counters are the gauges of the tracked labels) is
  inductive. `GaugesCountPods` alone is not: that `Increment` adds a label the
  pod is not counted under yet depends on `todo` being labels of its types.
* `EveryPodCountsOnce`, `UpShowsUse`, `PodMetricsTypes` follow from it. For `UpShowsUse`
  the invariant has that only the label in `unset` may have an `up` that is not what its
  counter says, and by how little: a call changes a gauge by one.

`CertReloadProofs`, for any number of rotations:

* `ServedPairIsOnePair` and `CertReloadTypes`, in whatever form pairs are rotated.
* `EveryRotationIsNoticed`, if certificates do not change while the process starts
  (the case of `cert_at_start`). The invariant says that the hashes `main` has seen
  are of certificates that were already written (`SeenIsOld`), so that a new one
  differs from them, and that up to the first hash `main` serves what is in the file
  (`QuietStart`).

  They hold with `Interruptions` too, so that they carry over to `Process`.

`ProcessProofs`, for any number of rotations and interruptions:

* `ProcessIsCertReload`: `Process` implements `CertReload` if that allows
  `Interruptions`. Each step of the process is one of `CertReload`, or leaves its
  variables alone, or ends the process, which is `Interrupted`. The last needs that the
  process is not down already: the lemma behind it is that only a process that is up
  has goroutines. With it the theorems about the certificate watch hold in the process.
* `ProcessTypes`, the type invariant.
* `WorkerIsNeverLetGo`: once it was started, the worker stays with an open queue until the
  process ends. It is an action property; its invariant (`RunEndsFirst`) is that the queue
  is shut down only after `Run` has returned, and that `Run` is started once. It is what
  makes the stop of `sigterm` hang, and also what makes it lose no key.

`PodInformerProofs`, for any finite set of pods, any annotations, any number of changes,
broken watches and resyncs:

* `InformerInvariant`, with its corollaries `InformerTypes` and `NothingIsLost`
  (`DeltasLeadToCluster`). The proofs follow the object of a key delta by delta: `After`
  is the object after the first `n` deltas. That each change leads on is simple; that a
  list does is the point of `Replace`, which must compare with what the queue leads to
  and not with the indexer. A resync is such a list of the keys that the queue does not
  tell of, for which the indexer holds what the cluster does. Besides, the invariant says that each delta fits the object
  it will find (`DeltasFit`): a deletion carries the object that is there, so that the
  handler sees its annotation; an update with the version of the object that is there
  changes nothing (`UpdateFunc` ignores it); an update of a pod that is being deleted
  leaves its annotation. The second needs that versions identify objects
  (`VersionsIdentify`), the third that the cluster does so. The controller needs them.
* `HandlersHearEverything`: `NotificationsChain` on top of it.

`ControllerProofs`, with no assumption on `Disturbances`:

* `ControllerTypes`. The inductive invariant (`Parts`) joins the invariants of the three
  parts with where the worker is (`AtWork`): while `updateMetrics` is under way its key is
  the item the worker holds, and `handleErr` has not yet been called. `WorkQueue` and
  `PodMetrics` do not need the latter, `ControllerRecordProofs` does.
* `ScrapesCountPods`: each step of the controller is one of `PodMetrics` or leaves the
  metrics alone, as the code changes them nowhere else, so what is proved of them holds in
  any interleaving of events, retries and lookups; `AddedKeysStayMarked`: in the same way,
  and through `WorkQueue`, the controller implements `MarkedWork`.

`ControllerRecordProofs`, the correctness of the whole data flow, for any finite set of
pods, any definitions and annotations, any number of retries:

* The inductive invariant (`RecordInv`) says of each pod, in any state, one of three
  things (`Followed`): the worker will read the indexer for it (its key is marked, or a
  notification that a handler will enqueue is on its way, or the worker has just taken
  it); or the update that is under way is the one the indexer calls for (`Answers`); or
  that is what is recorded (`Suits`). The hard step is `ProcessDelta`, where the indexer
  changes under all of them: the change either does not touch the annotation, or is one
  the handlers enqueue, which is where `DeltasFit` is used (`ChangeIsEnqueued`).
* `NothingLeaks`: whatever lookups fail and definitions change, a settled pod that is
  gone or has no annotation is not recorded. Its hypothesis is that
  `Disturbances` lacks `AnnotateDeleting`, and one of `GracePeriod` and `Relist`. It is
  no convenience: without it the code does leak, as `deleting_leak` shows.
* `RecordsAreNamed` (`RecordedTypesAreNamed`), under the same hypothesis: a settled pod that
  has networks is recorded with no type that none of them ever had. In the invariant, what
  is recorded, and what an update that is under way has found, is bounded by `held`, which
  only grows; where lookups succeed and definitions stay (`Steady`), it is exactly what
  `nads` says.
* `SettledAreRight`: if, besides, lookups do not fail and definitions do not change, a
  settled pod is recorded with exactly the types of its networks. With either of the two
  the code records too few or outdated types, and does not find out (`resync_misses`).
* `GaugesShowCluster`: under the same hypotheses, when all is settled, each gauge is the
  number of pods in the cluster with networks of its types. It joins `SettledAreRight`
  with the invariant of `PodMetrics`: the worker must be idle, or its key were not
  settled.

`WebhookProofs`, for annotations and lists of plugins of any length, and any labels and
types:

* `WebhookInvariant` says that an answer is that of `ReadError`, or the one `Judge` calls
  for; `WebhookTypes` and `HandlersFailClosed` follow.
* `IsolateAllowsFollowers` (`AllowedIffFollowsPod`): the two parsers agree. Lemmas say that
  the default namespace does not decide whether an annotation parses or into how many
  networks (`DefaultDoesNotDecide`) and where each network ends up (`ParsedNamespaces`).
  That only a network without a namespace follows its pod needs that there are two
  namespaces: in a cluster with one, a network could name it.
* `ValidateWantsTypes`, `ValidateAllowsUsable`, `UncountedAreKnown`, from the definitions
  of the checks and of libcni's parsers.

The assumptions are those named in the modules; TLC evaluates them in the runs.

* `NoItemAssumption`, `NamesAssumption`, `AbsentAssumption`, `InformerAssumption`,
  `NothingAssumption`, `UnitsAssumption`, `TypesAssumption`, `AnnotationsAssumption`: what
  stands for "none", and what is malformed, is none of the ordinary values. In
  `UnitsAssumption` also that there are two labels, in `AnnotationsAssumption` that an
  annotation in `Controller` is a set of definitions, malformed or missing.
* `WorkersAssumption`, `FinitenessAssumption`, `PodsAssumption`: finite sets of workers and
  pods. `BoundsAssumption` and the like: bounds are numbers.
* `RequestsAssumption`: the forms of annotations and configurations are those in the
  comments of `NetworkAnnotation` and `CniConfig`.

Only model-checked: all liveness, which is beyond the proof system's reach, as it rests on
fairness and on when an action is enabled: `MarkedIsProcessed`, `RetryIsQueued`,
`ShutDownReleasesWorkers`, `CatchesUp`, `EventuallyRight`, `InstalledPairIsServed`,
`ComesUp`, `StopBeforeWorkEnds`, `StopSettles`. Every invariant and every action property of
a passing run, and every refinement, has a theorem. The models use no recursive operators
and the proofs no induction over data: where one is needed (the last delta of a key), it is
the well-foundedness of finite subsets that is used.

## 5. What is not modelled

* In the certificate watch: a SIGHUP from outside.
* In the process: net/http and its connections, the choice of TLS options, the flags.
  The servers' `cleanup` is deferred behind a loop without end and never runs.
* In the queue: `ShutDownWithDrain`, which nothing here calls, metrics of the
  queue, and time.
* In the informer: back-off, bookmarks, indices by namespace.
* In the controller: an annotation stands for the definitions it names, a definition
  for its types (`NetworkAnnotation` and `CniConfig` say what the code makes of texts);
  a pod's annotation with a null in JSON, whose panic would end the process.
* In the metrics: labels are sets of types. A type whose name has a comma, or is
  "any", is out of the model: `updateMetrics` splits the recorded string at commas, so
  such a name would be taken apart on deletion.
* In the webhooks: JSON as text. Keys given twice, upper and lower case of keys (which
  decoding into a structure ignores) and `cniVersion` are left out.
* The deployment files and the other vendored libraries.

## 6. Plan

What is left to prove or to extend, in this order:

1. The safety behind `EventuallyRight`: in a state where only the worker, the handlers and
   the `waitingLoop` can act, each of their steps brings a settled state nearer (a measure
   over deltas, notifications, marks and the place in `updateMetrics` decreases), so that
   liveness rests on fairness alone.
2. The same for `StopSettles` in `Process`.
3. Labels as text, for the hazard of a type whose name has a comma.
