# simsys-metrics, specified

TLA+ models of `simsys-metrics`, a library that gives a web service one line of
metrics set-up (`install(app, service, version)`) in three lanes: Python
(FastAPI, Flask), Node (Express, Hono, Next) and Go (net/http).

## The system

Every lane has the same parts. All of them share process-wide state.

| part | state it keeps | operations | used by |
|---|---|---|---|
| service identity (`_baseline.py`, `baseline.ts`, `service_identity.go`) | the name that labels every series | `set_service`, `get_service`, `_peek_service` | everything below |
| process collector (`_process.py`, `process.ts`, `process.go`) | Python: the singleton and its registration; Node: label, CPU total last read, the counter's series, a mutex; Go: nothing | register or swap on install, restore on rollback, `collect()` on each scrape | install, scrapes |
| build info (`build_info.py`, `buildinfo.ts`, `buildinfo.go`) | the gauge's samples and the set of label keys an install owns | register, unregister if owned | install |
| adapters (`fastapi.py`, `flask.py`, `express.ts`, `hono.ts`, `next.ts`, `metrics.go`) | on each app: a sentinel, the recorder, the metrics route | `install`, its rollback, recording one request | the host |
| pollers (`track_queue`, `track_pool`) | a timer or thread, a stop flag, the gauges | tick, stop | the host's callbacks |
| jobs (`track_job`) | a span | begin, end | the host |
| progress (`progress.py`, `progress.ts`, `progress.go`) | processed, a rate window, four gauges, a timer or thread | `inc`, `set_total`, tick, stop | the host |
| label helpers | none | status buckets, method names, `safe_label` | recorders |

What is hard to get right here:

* **install** changes four pieces of process state and the app in sequence, can
  fail between any two of them, and undoes them one by one. In Python it runs in
  threads and each piece has a lock of its own, so two installs interleave
  everywhere except inside the three critical sections. In Node it is
  synchronous, but scrapes that have begun finish after it.
- **ownership**: two installs of one service share a collector and, within the
  same second, a `build_info` label set; a rollback must remove only its own.
- **frameworks differ** in what can be undone: Starlette puts a new middleware
  first, Flask refuses a second endpoint, Express has a stack that can be cut,
  Hono cannot remove a handler at all.
- **pollers and progress** run beside the code that starts and stops them, and a
  scrape reads their gauges one by one while they are written one by one.

`PROJECT.json` lists every component with its status and every hazard with its line.

### The components, and what makes each correct

* **install of one app** (Python, Node, Go). *State*: a sentinel, the
  recorder and the metrics route on the app, and the three process-wide parts.
  *Correct when* it is all or nothing, also when it is retried; when a rollback
  undoes what this call did and nothing another call or the host did; when
  every call ends although three locks and any exception come between.
* **process collector**. *Correct when* a scrape always finds exactly one, under
  the service installed last; in Node, when the CPU counter never counts more
  than the process consumed and only the current service has a series.
* **build info**. *Correct when* ownership and gauge agree and every sample has
  exactly one call that answers for it.
* **pollers**. *Correct when* the gauges of a pool come from one tick, a failed
  tick leaves no trace in them, and the loop ends after `stop()`.
* **progress**. *Correct when* each item enters the rate once, the gauges fit
  together, and `stop()` leaves the end-state for good.
* **HTTP recording**. *Correct when* each request is counted exactly once, with its
  status, however it ends, under a bounded set of route and method labels.
* **jobs**. *Correct when* each span is recorded once, in the counter and in the
  histogram under one service, with the outcome of its own work, whoever ends it and
  however often.

## Modules

| module | models |
|---|---|
| `InstallTxn` | what `install()` promises in every lane: identity, process metrics, sample and app change together or not at all |
| `PyInstall` | `install_fastapi`, `install_flask`, `set_service`, the collector singleton and `build_info` ownership, step by step, in threads, with exceptions |
| `NodeInstall` | `install`, `installExpress`, `installHono`, `installNext`, `process.ts`, `buildinfo.ts`, the default labels, with asynchronous scrapes |
| `GoInstall` | `Install`, the service identity check and collector reuse of the Go lane |
| `HttpRecording` | a request through the recorders of FastAPI, Flask, Express, Hono, Next and Go; Next's patch and route cap; method labels |
| `Pollers` | `track_pool` and `track_queue` of the three lanes |
| `Progress` | the progress tracker of the three lanes |
| `Jobs` | `track_job`, `trackJob`, `TrackJob` and `TrackJobSpan` |
| `MCPyInstall`, `MCNodeInstall`, `MCPollers`, `MCHttpRecording`, `MCGoInstall` | constants for TLC |
| `InstallTxnProofs`, `PyInstallProofs`, `NodeInstallProofs`, `GoInstallProofs`, `HttpRecordingProofs`, `PollersProofs`, `ProgressProofs`, `JobsProofs` | theorems |

`PyInstall` and `NodeInstall` instantiate `InstallTxn` with a refinement mapping.
The state that an install commits is mapped to what a rollback would restore if
it began now, so an install that is under way changes nothing, the step that
returns is `Commit`, and a rollback maps to stuttering all the way.

### PyInstall

| variable | code |
|---|---|
| `service` | `_baseline._SERVICE` |
| `collector`, `exposed`, `procLock` | `_process._collector`, what `REGISTRY` holds, `_process._lock` |
| `owned`, `samples`, `ownLock` | `build_info._owned_label_keys`, the gauge's label sets, their lock |
| `installed`, `hooks`, `routes` | the sentinel, `app.user_middleware` or `after_request_funcs[None]`, the metrics views |
| `pc`, `frame` | where a call is, and its local variables |
| `second` | the clock that stamps `started_at` |

One element of `Calls` is one call in the life of the process; a retry is another
call. A call goes `mark`, `snap`, `peek` (before the `try`), `set_service`,
`claim`, `construct`, `register`, `stamp`, `own`, `sample`, `wire`, `expose`, and
on an exception through `rb_app`, `rb_wiring`, `rb_build`, `rb_sample`, `rb_proc`,
`rb_register`, `rb_assign`, `rb_service`, the order of the `except` block. Steps are
cut where another thread can see the difference: the critical sections that call code
which may raise, or that make two writes, are several steps under a lock variable. A
scrape takes no lock, so putting a prior collector back is three steps
(`_process.py:223`, 228, 235): unregister mine, register the prior one, assign
`_collector`. `Raise` lets an exception strike before any statement named in the
constant `Raises`. A call that returned keeps its app, its name, what it did about the
collector and the sample it answers for; one that raised keeps its app, its name, what it
did about the collector and, if that was to begin a swap it could not finish, the prior
one. The other locals are reset.

### NodeInstall

`at` is the next statement of the install that runs and `cur` its locals; between
statements nothing else runs, which the guard `AtRest` of every other action says. A
statement may throw before its effect (`Faults`, any of the `try` block), or half-way
(`HalfWay`): `registerProcessCollector` after its sentinel and label are set and before
its metrics exist, `registerBuildInfo` after the key is claimed and before the sample
is set. `ThrowAndRollBack`, `ThrowHalfRegistered` and `ThrowHalfBuilt` are the throw
and the whole `catch` block, which undoes what the locals say was done; `Abandon` is
what the three have in common. `torn` is auxiliary and says that a statement has thrown
half-way. `owned` is `_ownedLabelKeys`. `pending` holds the
scrapes whose `collect()` was called and whose body waits behind `cpuCollectMutex`. The
sentinel of the default metrics only says whether prom-client is asked again and is
left out.

`install()` looks at the methods of the object it is given (`Has`) and takes it for
an Express app, a Hono app or neither. `Server` is `http.Server.prototype`; its
`stack` is the chain of wrappers of `emit`, of which `origEmit`
(`__simsysNextOrigEmit`) says how many were there before the first patch.
`PatchEmit` puts the patch on that original, so what a host laid on top of an
earlier patch goes with it. `Cleared` are the apps whose host deletes the sentinel
to install again, as the warnings of the code tell it to; `InstallTxn` calls an app
that takes a second install `Rearmable`, and only the prototype is.

### Progress and Pollers

The variable `lane` is chosen in the initial state and never changes, so that one
run covers the three lanes and the properties can be compared. In Python and Go a
tick is several steps of a thread; in Node it is one step (progress) or an async
function that yields at each `await` (pollers). A rate is abstracted to "positive",
an ETA to "known", the value a callback returns to the version of the pool it saw.
Reading the clock may return the last reading again. `rated`, `late`, `began` and
the `tick` of a sample are auxiliary.

### HttpRecording

`lane` is chosen in the initial state here too. A request goes from `handling` to
`done`; what it does in between depends on the lane.

* FastAPI, Hono: the `finally` block counts in the step that ends the request.
  `RoutePath` is what Hono reports as `c.req.routePath`: a template, or the pattern of
  the last middleware, of which only those in `CatchAll` collapse (`HonoRoute`).
* Express, Next: `armed` holds the listeners of each recorder the request passed;
  `finish` and `close` may come in either order, or `close` alone after an abort.
  `SendHead` sends the headers before the response ends; `SetStatus` may still come
  after it and is then read by the recorder only.
* Next: `live` is how many patches lie on the built-in `emit`, `saved` what
  `__simsysNextOrigEmit` kept. `Bucket` and `ClassifySegment` are `bucketRoute`.
* Flask: the hooks `late`, `ours`, `early` in the order Flask runs them, or the
  signal. A hook of the host may pass, raise or answer something else. An exception
  either leaves Flask or is answered by the handler of the 500, with any status, and
  passes the hooks again. `Collect` drops the signal's weakly held handler, at any time.
* Go: `status` and `written` of `statusRecorder`, beside what net/http sends. `Hijack`
  takes the connection through `Unwrap`, past the recorder.
* FastAPI, Hono, Flask, Go: what the host wraps around the application may `Replace`
  the answer. In Express and Next the recorder is on the response itself; a host that
  writes to the bare socket there is not modelled.

A request is abstracted to its method, path and status. The path stands for what the
host's router makes of it (`Template`, `RoutePath`). `NormalizeMethod` and
`Bucket` are the label helpers of each lane; a status of 700 falls outside every
class. The duration histogram, which is observed in the same call, is left out.
`odd` is auxiliary and collects what goes past the recorder, and only that: `hook` (a
host hook raises), `propagated` (an exception leaves Flask), `handled` (the host answers
the 500 that was counted in its own way), `replaced`, `overwritten` (a status set after
the headers), `informational`, `flushed`, `hijacked`. `StatusMatches` speaks of requests
with none of them but `propagated`; the table of counterexamples shows, lane by lane,
what the others do.

### GoInstall

`pc` counts the collectors a call has registered; the fifteen vectors between
build info and the process collector are one, since they are treated alike.
`registered` is the registry, `identity` is `registryService`, changed in one step
under its mutex, and `isNew` the set of calls that made the `build_info` gauge. A
collector of the host with another descriptor makes `Register` panic; the host may
take it away and try again. `clean` is auxiliary: no two calls on the registry
overlapped, and none panicked.

### Jobs

A span is one execution of a job; `lane` is chosen in the initial state. `frame` is
what the span was started with: how, by which tracker, and the service it captured.
In Python and Go the end of a span is two steps of its thread, `Count` and
`Observe`, with other threads and installs in between; `writes` is what they write,
and for which span, since a `with` block may close the generator of another one that
shares its tracker (`cm`). In Node it is one step, but the job may hand back a
thenable, which calls its callbacks when and as often as it likes and may throw after
that. `settled` is the flag, the `sync.Once` or the closed generator that makes a
second end do nothing. `work` and `misused` are auxiliary.

## Runs

| run | question | expected |
|---|---|---|
| `py_interleaved` | When two installs interleave and raise anywhere, is the process collector always there, do the ownership set and the gauge stay consistent, and does every call end? | holds |
| `py_sequential` | Is install all or nothing when calls do not overlap? | holds |
| `node_retries` | Is the Node install all or nothing, and do the CPU counter, the routes and the host's handlers survive it, with throws anywhere, retries, re-armed patches and waiting scrapes? | holds |
| `progress_lanes` | Are ticks, `inc` and `stop` of a tracker right in the three lanes? | holds |
| `pollers_lanes` | Are the gauges of a pool consistent under failing callbacks, overlapping ticks and stops? | holds |
| `http_lanes` | Is each request counted once, with its status, under bounded labels, in the six recorders, and do requests through Next share one label budget and one patch? | holds |
| `go_install` | Do calls of Go's Install on one registry share its collectors, one sample and one identity? | holds |
| `jobs_lanes` | Is each span of a job counted once, in both metrics, with its own outcome, and soon? | holds |
| `py_host_middleware` | Does a failed FastAPI install leave the host's middleware alone? | violated |
| `node_cpu_series` | Does a failed Node install leave the prior CPU counter alone? | violated |
| `progress_go_flush` | Does Go's `Stop` leave the end-state? | violated |
| `http_flask_lost` | Is an exception that leaves Flask counted? | violated |

The four violations are described, with the lines they contradict, under
"findings" in `PROJECT.json`. What is known to go wrong besides is listed under
"Further counterexamples" below.

### Bounds, and why they are enough

* `py_interleaved`: two calls, each on either of two apps under either of two
  names, and any step may raise. Every hazard of the collector, of the ownership set and
  of the locks is between one call and one other: a lock, a snapshot that is stale, a
  shared collector, a shared sample. The host may drop a sentinel in
  between. Two seconds make label sets equal or different. The proofs lift the safety
  properties but `CreatorsKeepMetrics` to any number of calls. The two properties that a
  swap broken half-way defeats (`PyInstall_v_partial`) speak of the time before it
  (`SwapBroke`).
* `py_sequential`: three calls are what a failed swap needs, with an install before
  it and a retry after it; the three apps are FastAPI with and without
  multiprocess mode and Flask with a hook of its own. `Raises` leaves out the
  construction and registration of a collector, for which the property is false
  (see below).
* `node_retries`: an Express app, a Hono app and the prototype; a padded name and
  another, two metrics paths, one CPU second, one scrape, one second, one handler of
  the host on Express and on `emit`. The number of installs is not bounded. Each
  hazard is between one install and one other thing: the attempt before it, a scrape
  that waits, a handler of the host, a patch that was re-armed.
  `AllOrNothing` speaks of the time until a statement throws half-way (`torn`), after
  which it is false (`NodeInstall_v_halfway`).
* `progress_lanes`: two items, two totals, one loop and one stop. A race needs one
  item between two readings; the second shows that attribution goes on.
* `pollers_lanes`: two ticks of three gauges; an anomaly is between one tick and
  the next, or between two that overlap.
* `http_lanes`: one request for any of the paths, since requests share nothing with one
  another in five lanes, and in Next a second one, for one path (`Asks`): in Next requests
  share the patch and the routes seen, and with two, one overtakes a re-install while the
  other spends the budget of one label. Four statuses: success, the 404 that Next
  collapses, failure, and one outside every class. Of the four paths one is exempt, one
  has a template, one is overridden in Next and unmatched elsewhere, and one is too deep
  for Next and under a scoped middleware of Hono.
* `go_install`: three calls, so that one can reuse the collectors of another while a
  third fails; two registries, because the bookkeeping is per registry; a service,
  another, a padded one and a blank one; any of the three collectors in the way.
* `jobs_lanes`: three spans and one tracker: with two, the second block that shares
  a tracker cannot itself lose its end to a third. Two services.

For each of these the theorems below say the same without the bounds, except for
liveness, under the assumptions named there.

No module has fairness on what the host does.

### Further counterexamples

Configurations that are kept to reproduce a counterexample. Run them with
`tlc -config X.cfg M`.

| configuration (module) | property | what happens |
|---|---|---|
| `PyInstall_v_buildinfo` (`MCPyInstall`) | `CommittedHaveBuildInfo` | the rollback of the call that created a sample removes it from a successful one that reused it |
| `PyInstall_v_dropped` | `CommittedHaveCollector` | the same for the process collector |
| `PyInstall_v_revived` | `CollectorIsCommitted` | a rollback registers the collector of an install that failed meanwhile |
| `PyInstall_v_identity` | `IdentityIsCommitted` | a rollback of an overlapping install brings back the identity of before both, against `_baseline.py:158-162` |
| `PyInstall_v_guard` | `ReturnedMeansInstalled` | a second call returns as a no-op from an install that then fails |
| `PyInstall_v_reinit` | `OneRecorder` | dropping the sentinel and installing again stacks a second recorder |
| `PyInstall_v_partial` | `SingletonAlwaysExposed` | a constructor that raises during a swap leaves no process metrics, against `_process.py:164-166` |
| `PyInstall_v_strip` | `RequestsCarryStrippedService` | requests carry the untrimmed service |
| `NodeInstall_v_defaults` (`MCNodeInstall`) | `DefaultLabelIsIdentity` | the default label stays on the failed install's service |
| `NodeInstall_v_halfway` | `AlwaysAllOrNothing` | a `registerProcessCollector` or `registerBuildInfo` that throws half-way leaves its label or its key behind, against `express.ts:88-89` |
| `NodeInstall_v_reinit` | `ReinitCountsOnce` | dropping the sentinel of an Express app and installing again stacks a second recorder |
| `Progress_v_join` (`Progress`) | `QuietAfterStop` | after a join that timed out the loop overwrites the flushed gauges |
| `Progress_v_twostops` (`Progress`) | `NoItemRatedTwice` | two threads in `stop()` tick at once and count items twice in the rate |
| `HttpRecording_v_status_flask` (`MCHttpRecording`) | `StatusAlwaysMatches` | a host hook that runs after ours raises: counted as 2xx, answered with 500 |
| `HttpRecording_v_status_go` | `StatusAlwaysMatches` | a handler hijacks the connection and then panics: counted as 500, whatever it answered there. `WriteHeader(103)` and a flush before any write do the like |
| `HttpRecording_v_status_express` | `StatusAlwaysMatches` | the status is set after the headers have gone, and counted |
| `HttpRecording_v_status_hono` | `StatusAlwaysMatches` | a middleware outside the recorder replaces the response |
| `HttpRecording_v_hono` | `HonoUnmatchedCollapses` | a request that matches only the host's middleware on some paths is counted under its pattern, against `node/README.md:358-360` and `hono.ts:193-196` |
| `Pollers_v_service` (`MCPollers`) | `FollowsService` | a tracker goes on under the old service, against the repository's `README.md:283` |
| `GoInstall_v_overlap` (`MCGoInstall`) | `IdentityIsAlwaysRegistered` | with overlapping calls the authoritative service is not that of the process metrics |
| `GoInstall_v_buildinfo` | `BuildInfoGainsService` | a second `Install` under another service does not reach `build_info`, against `metrics.go:91-92`, `service_identity.go:74` and `go/README.md:152-153` |
| `GoInstall_v_labels` | `FirstServiceKept` | requests and jobs through the second handle appear under the second service, against `metrics.go:89-91` and `service_identity.go:72-73` |
| `GoInstall_v_retry` | `RetryHasBuildInfo` | after an `Install` that panicked, its retry leaves the registry without `build_info` |
| `Jobs_v_shared` (`Jobs`) | `SharedTrackerIsRight` | two `with` blocks of one tracker: the first is counted as an error when the second begins |
| `Jobs_v_refused` | `RefusedBeforeWork` | Node runs the job before it finds that no service is set, and throws its result away |

On a second `Install` under another service the code of the Go lane disagrees with its
comments. `metrics.go:89-92`, `service_identity.go:72-75` and `go/README.md:152-153` say
that only `build_info` shows the new name. It is one of the two that never do, with the
process metrics: the gauge is set only by the call that registered it
(`metrics.go:251`), and the second handle labels all that it emits with the new name
(`metrics.go:121-122`). `OneBuildInfo` and `IdentityIsRegistered`, which hold, state what
the code does and not what these lines say.

Clearing the sentinel of a Hono app and installing on another path would also break
`MetricsRouteExempt`, since the first route stays: that is why `Cleared` has only the
prototype in `node_retries` and in the theorems that say so.

One observation is not modelled: `express.ts:101` falls back to `app._router`, but in
Express 4 `app.router` is a getter of its own, evaluated first. The tests of the
repository cover Express 5 only.

## Fairness

* `PyInstall`: weak fairness of each call's next step. Threads are scheduled, and no
  step waits for anything but a lock, which its holder gives back.
* `Progress`, `Pollers`: weak fairness of each thread's tick, of the steps of
  `stop()` and of a goroutine's first tick; the host's callbacks return. Strong
  fairness of the loop's exit: Go's `select` picks at random among the ready
  cases, so a goroutine does not pass over a closed channel forever. Python's
  loop looks at the event each time round and would do with weak fairness.
* `Jobs`: weak fairness of the steps that end a span. How long the work takes, and
  whether a thenable ever settles, is up to the host, so `WorkIsCounted` begins when
  the work has ended.
* `NodeInstall`, `HttpRecording` and `GoInstall` have no liveness property: an
  install waits for nothing, and when a request ends is up to the host.

## Proofs

`PyInstallProofs` proves, for any finite or infinite set of calls, any apps, names
and `Strip`, any failing steps and bounds that satisfy the assumptions of
`PyInstall`:

* `TypeCorrect`: `Spec => []TypeOK`.
* `NoStray`: from the inductive invariant `CollectorInv`. It says what each call knows
  of the lock and of the registry at each step. `NoStrayCollector` alone is not
  inductive: `construct` replaces the singleton, which is sound only because the registry
  is empty between `claim` and `register`, and that only because no other call enters
  the lock. Between `_process.py:228` and 235 the registry holds the prior collector
  while `_collector` is still the removed one: the property says that the one collector
  found is the singleton, or one that a rollback is about to assign.
* `SingletonExposed`: from the same invariant and `Unswapped`, which says that a swap
  whose construction or registration raised stays in the frame of its call
  (`SwapBroke`), so that its end is told from one that was undone. The property has this
  proviso, and `PyInstall_v_partial` shows that it is needed.
* `OwnershipMatches`: from `OwnershipInv`, which says what the holder of the lock has
  half done.
* `OneOwner`: from `OwnerInv`, which adds to it that two calls never both answer for
  a label set, and which calls cannot answer for one yet.
* `PyImplementsTxn`: `install()` implements `InstallTxn`, under `OneAtATime`: one call
  runs at a time, construction and registration of a collector do not raise, no sentinel
  is dropped, and no FastAPI app has a middleware of its own. Each of the four is
  needed: without it some configuration below, or `py_host_middleware`, has a
  counterexample. `SoloInv` says what holds between calls (`RestFits`: each app is as
  its host left it, or wired by one call) and what the call in flight knows of the
  identity, the collector, its sample and its app. `KeptIdentity`, `KeptCollector` and
  `KeptSamples` are what its rollback would restore. No step until the last changes them
  (`MidStutters`), the last of a rollback makes them what there is (`RollbackStutters`),
  and `ReturnCommits` is `Commit`.

`InstallTxnProofs` proves `TxnCoherent` of the abstract transaction: in every lane
that implements it, each wired app has a `build_info` sample of its service, and
with process metrics everywhere they carry the identity. Its assumptions say that
trimming is a function on names and that "no service" is not a name. `PyCoherent` and
`NodeCoherent` put it together with the two refinements: it holds of the code's own
state, under what those assume (for Node, until `torn`).

`NodeInstallProofs` proves, for any apps, methods, services, paths, scrapes, faults
and bounds that satisfy the assumptions of `NodeInstall`, the invariant `NodeInv`, one
lemma for each conjunct:

* `NodeTypeOK`;
* `DepthFits`: what a rollback cuts to, or a patch is put on, is still there;
* `SeriesFits`: only the current label has a series, and what a waiting scrape will
  need is there. `OnlyLiveSeries` and `PendingHasCollector` are not inductive without
  what `cur.proc` says of the collector;
* `FrameFits`: what each statement may rely on of those before it;
* `StackFits`: a Hono app has no handler of ours twice, `emit` one patch right on the
  original, and the handlers above the snapshot of an Express app are not the host's.

From it follow `NodeTypes`, `NodeLiveSeries`, `NodeCpuCounted`, `NodePendingCollector`,
`NodeWiredOnce` and `NodeHostHandlers`. `CpuNotOvercounted` says series by series what a
sum over the series would say, and more: a fold is out of the prover's reach.
`WiringFits` adds that an app is wired in full or, between installs, not at all. It
needs that no sentinel but the server's is cleared (`Cleared \subseteq {Server}`), which
`NodeInstall_v_reinit` shows. `NodeRouteExempt` and the refinement `NodeImplementsTxn`
rest on it. The refinement holds for a throw before the effect of any statement of the
`try` block; it is stated until one throws half-way (`torn`), as `NodeInstall_v_halfway`
shows it must be, and `OwnedFits` says that the ownership set and the gauge agree until
then. But for `NodeCoherent` the other theorems have no such proviso. `WiredName` tells
the abstract wiring of an app in either state; the lemmas `RollbackKept` and `WiringsKept` show that every step but the last of
an install stutters, a rollback included, and `EndCommits` that the last one is
`Commit`.

`GoInstallProofs` proves `GoTypes`, `GoOneBuildInfo` and `GoIdentityIsRegistered` for
any calls, registries, services and list of collectors that starts with `build_info`
and ends with the process collector. `GoInv` is the types with `CallsFit` (what a call
under way has checked), `MakersFit` (one call made the gauge of a registry, and only
it sets the sample) and `CleanFit` (on a registry whose calls followed each other, what
is registered so far carries the identity).

`PollersProofs` proves `PollersTypes`, `PollersOneSnapshot`, `PollersFailedTick` and
`PollersNeverOlder` for any lanes, callbacks, ticks and services. `PollersInv` is the
types with `TicksFit` (which ticks may run at once in each lane), `GaugesFit` (which
tick each gauge is of, in the middle of a tick's writes too) and `ValuesFit` (no
reading is newer than the pool).

`JobsProofs` proves `JobsTypes`, `JobsCountOnce`, `JobsPairsAgree` and `JobsOutcome`
for any spans, trackers and services. `JobsInv` is the types with `FramesFit`,
`WritesFit` (who ends which span), `PairsFit` (the counter is one sample ahead of the
histogram exactly between the two writes), `OnceFit` and `OutcomesFit`. The proof
attempt found that an earlier `misused` left out a span that loses its end to the third
block of a shared tracker; two spans, the bound of the run at that time, cannot show it.

`ProgressProofs` proves `ProgressTypes` and `ProgressCounter` (the counter is behind the
items by exactly the `inc()` calls that are under way) without further assumptions, and
`ProgressRatedOnce`, `ProgressEtaFits`, `ProgressStopFlushes` and `ProgressQuiet` under
`StopsInTurn`: in Python one thread calls `stop()`, and its `join(timeout)` does not time
out. Both halves are needed (`Progress_v_join`, `Progress_v_twostops`); Node and Go need
neither. `ProgressInv` is the types with `PlacesFit` (which code each thread runs in each
lane), `CountFits`, `TurnsFit` (`stop()` of Python ticks only when the loop has ended),
`RatedFits` (what a tick has read is not older than what the last one remembered),
`GaugesFit` (the gauges written so far by a tick are of one reading) and `FlushFits`.

`HttpRecordingProofs` proves all five properties of `http_lanes`, with the provisos they
state, for any lanes, requests, paths, templates, statuses and bounds: `HttpTypes`, `HttpCountedAtMostOnce`,
`HttpCountedByTheEnd`, `HttpStatusMatches` and `HttpLabelsBounded`. `HttpInv` has one
part for each way of recording: `WrapFits` (FastAPI and Hono count in the step that ends
the request), `EventFits` (Express and Next: either both listeners are armed and nothing
is counted, or both are gone; nothing is sent before the headers go out; what a recorder
will read is what was sent, unless it was overwritten),
`FlaskFits` (counted is marked, by the signal or by the hook), `GoFits` (recorder and
net/http agree on the status but for what goes past the recorder) and `RoutesFit` (Next's
labels are among those it has seen, and these within the cap; at most one patch is live).
The proof attempt refuted an earlier `LabelsBounded`, which spoke of the status the handler
had set: a handler of Next that goes on after the client has gone away can set 404 on a
request that was counted with another 4xx, and its label is then a bucket. The property
now speaks of the status that was sent; in the run a request that was cut off at 500
can have 404 set after that.

Only model-checked: `CreatorsKeepMetrics`, and liveness (`EveryCallEnds`, `StopEnds`,
`StopEndsLoop`, `WorkIsCounted`), which is out of the prover's reach.

## Not modelled

* `safe_label` and the guards on metric names: they keep no state, and the
  repository's tests reach all their cases. The durations that jobs measure.
* The Go process collector reads `/proc` and keeps no state. The metrics contract is
  a static list. Dashboards, workflows and release scripts have no run-time part.
* Validation of arguments (`ValueError`, thrown before any state changes), log
  messages and the flags that make a message appear once.
* In `PyInstall`, the version and commit labels of a `build_info` sample: they are
  constants of a process and do not change which label sets are equal.
* Frameworks are modelled from their use: Starlette inserts a middleware at the
  front, Flask appends a hook and refuses a second view of one endpoint, Express has
  a stack, Hono has no way back.
