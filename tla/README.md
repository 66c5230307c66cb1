# A verification of the inference platform

TLA+ modules for the parts of this repository that decide how many replicas serve: the KEDA
external scaler in `phase-2-capstone/keda-inference-scaler`, the mock server in
`phase-2-capstone/local/mock-vllm` whose gauges it scales on, and the path of a reading from the one
to the metric the other hands to KEDA. Paths without a directory are relative to the scaler.
`PROJECT.json` maps every definition to the lines it models and lists the runs, the mutants that
show each property can fail, the hazards, the findings and the theorems.

    tlc -workers 2 -config CachingSource_safety.cfg MCCachingSource    # any run of PROJECT.json
    tlapm CachingSourceProofs.tla                                      # the proofs; the others are in
      # CachingSourceRefinement, ScalerProofs, StreamProofs, ReadinessProofs, SaturationProofs,
      # MockVLLMProofs and SignalChainProofs

## 1. Inventory

| part | state | operations | talks to | hard because |
|---|---|---|---|---|
| `CachingSource` (`internal/metrics/cache.go`) | map key -> (sample, error, expiry); the singleflight group's calls in flight | `Get` (load, Do, Instant, store) | Prometheus client below, query goroutines above | load, Do and store are separate critical sections; results are shared between callers with different ttls and contexts |
| `Prometheus` (`internal/metrics/metrics.go`) | none | `Instant` | Prometheus over HTTP | value, absent series, failure and cancellation must stay apart |
| `saturation` | none | `Score` | scaler | zero, negative, infinite and NaN operands |
| `scaler` (`main.go`): `IsActive`, `GetMetrics` | per request: errgroup, its context, two readings; shared: the cache and the gauges | `saturationFor`, `queryInstant`, the gauge setters | KEDA above, cache below | two goroutines per request, one failing cancels the other, both may sit in another request's flight |
| `scaler`: `StreamIsActive` | timer, backoff, consecutive failures | open, select, poll, send, end | KEDA, `IsActive` | timer resets, backoff, client departure at any point, reconnection |
| `Health` and `/readyz` (`internal/observability`) | hasOK, lastOK, startedAt | `RecordSuccess`, `Ready` | scaler, kubelet, Service, KEDA | its input depends, through the Service, on its own output |
| `Metrics` (`internal/observability/metrics.go`) | counters, gauges | setters | Prometheus scrape | concurrent setters |
| `Config` (`internal/config`) | none | `Parse`, defaulting per field | scaler | which keys have a floor (poll interval, failure limit) and which take zero and less (cacheTTL, thresholds) |
| `mock-vllm` (`phase-2-capstone/local/mock-vllm/app.py`) | slots, running, waiting, the semaphore's waiters | enter, wait, resume, leave | load generators, Prometheus | a slot changes hands in two steps of the event loop, others run in between |
| the signal's path | Prometheus's samples, the cache, KEDA's last metric | scrape, query, poll, expiry | mock-vllm and the scaler | clocks with independent phases, other users of the cache, failed scrapes and polls |
| `benchmark.py`, `loadtest/*` | results list per run | worker threads, percentiles, quality judge | a served model | failing workers |
| `bootstrap/*.sh` | the cluster | ordered layers up and down | kubectl | partial failure, repeated runs |
| `gitops/applications.yaml`, manifests | desired state in git | sync, self-heal, scale | Argo CD, HPA | two controllers writing one field |

What makes each part correct, in one line: the cache bounds cost and staleness and never mixes up
or loses a caller; a decision rests on two usable readings or is an error; the score follows the
dimension nearest its threshold; a stream's polling slows down under failure, ends when it must and
resumes when it can; readiness follows Prometheus, not its own echo; the mock's gauges are the
requests that really wait and run, and no slot is lost between them; the metric follows the load
within a bounded time and never drops because data is missing; the scripts can be repeated after any
failure.

## 2. Plan

Order, most important first; *done* is what this project holds today.

1. `CachingSource` (*done*), with its proofs (*done*): everything else is built over it.
2. `Saturation` (*done*, with its proofs): the score, as operators, checked against a definition by
   dimension.
3. `Config` and `Prometheus` (*done*): `Parse` and `Instant` as operators that the state machines
   below use, so that every boundary of a setting and every shape of a reply reaches a decision.
4. `Scaler` (*done*, with its proofs), which instantiates `CachingSource` with its query goroutines
   as callers and is shown to implement it.
5. `Readings` (*done*, with its proof): what the cache promises, with no mention of locks or flights.
6. `Stream` (*done*, with its proofs).
7. `Readiness` (*done*, with a proof of its bound for every window, ttl and probe period).
8. `MockVLLM` (*done*, with its proofs): the semaphore, the slots and the gauges.
9. `SignalChain` (*done*, with its proofs for all periods), which extends `MockVLLM`.

Every safety invariant, safety action property and refinement that a passing run checks has its
theorem. What is left to strengthen: the order in which the semaphore serves its queue and the
mixture of gauges two concurrent decisions leave are modelled, and no property is about them yet.

## 3. The modules

### CachingSource

A caller is a goroutine that may be inside `Get`. Steps are cut where another goroutine can run:

| code | action |
|---|---|
| `Get` up to its `ttl > 0` test | `Get` |
| `load` under `c.mu` | `LoadHit`, `LoadMiss` |
| `group.Do`'s entry | `Lead` (first for the key), `Join` (a flight is up) |
| `Source.Instant` settling its outcome | `Respond`, with any outcome at any time |
| `store` under `c.mu`, leader only, for a value or an absence and a positive ttl | `Store` |
| the end of singleflight's `doCall` | `Publish`: the flight leaves the group and every waiter has its result |
| `return` | `Return` |

Time advances between any two steps (`Tick`), so a goroutine may be arbitrarily slow anywhere.
`began` and `landed` are history: when a call began, and when the flight behind its result ended
(for a cached result, when it was stored). singleflight is external and modelled from its use: one
call per key, joined under the group's mutex, removed and woken together. Its panic and `Goexit`
paths are left out (`Instant` does neither).

### Readings

The abstract specification of the cache. Each key has a latest shareable reading, renewed only by
one that is not older and that the backend gave after a call under way had begun (`Renew`). A call
that allows caching may end with it while it is at most `MaxTTL` old (`Share`); any set of calls
under way for a key may end with one answer, an error included, that the backend gave after one of
them had begun (`Answer`). `CachingSource` implements it (`ImplementsReadings`) with the mapping
`Latest`, `Status`, `Answered`: `Get` is Ask, `LoadHit` is Share, `Store` is Renew, `Publish` is
Answer, `Return` is Done, and the rest changes nothing a caller sees. A reader of the scaler needs
`Readings` only.

### Config, Prometheus

`Config` is `Parse` with its helpers. A metadata value is the set of what its string parses to:
empty for an absent or a malformed one. `positiveDurationOr` and `positiveIntOr` put a floor under
two of the keys; the others take what parses. `Prometheus` is `Instant`: of a reply it sees the
status, whether the body decodes, and the first series' value, which may be absent, not a string, not
a number, or NaN. Both are operators, used by `Scaler`, `Stream` and `MCSaturation`.

### Saturation, MCSaturation

`Saturation` is `Score` and the float64 operations it uses on pairs of integers (`x/0` is an
infinity, `0/0` NaN) with Go's comparison and `math.Max`. `MCSaturation` is the decision of one
ScaledObject from end to end: its metadata through `Parse`, the replies to its two queries through
`Instant`, the tolerance of absent series, the score and `IsActive`'s comparison. Every combination
is a state, every change of replies a step. Its properties compare with a definition that looks at
each dimension by itself, on the integers and not on ratios. They leave out a ratio that is NaN,
which is a NaN reading or an infinite one against an infinite threshold.

### Scaler

Instantiates `CachingSource` with `Caller <- Query`: a query is a (request, dimension) pair, the
goroutine `saturationFor` starts for it. `Begin` is a handler's start, with the settings `Parse`
makes of the object's metadata, `CallGet` / `Instant` /
`InsideGet` / `Finish` a goroutine's life around and inside `Get`, `ClientGone` the end of the
RPC's context, `WaitFails` and `WaitSucceeds` the return of `g.Wait`, and
`SetSaturation` / `SetQueueAge` / `SetKVAgeAndReply` the three gauges one by one. A request under
a context that is done may still be answered, with what `Prometheus` makes of a reply, or fail as
cancelled: both are in `Instant`. The context is the *leader's*, as in
`cache.go:83`. What the cache calls a key (`KeyOf`, from `cacheKey`) and what is asked (`Outcome`,
from the address and the query that `Instant` is given) are separate definitions, each from its own
lines, so that `ReadingsAreOwn` can tell a reading from another query's. `IsActive` and `GetMetrics`
change the same state and are one operation.

### Stream

One open stream: its place in the loop, its timer ("armed", "fired" with a tick in the channel,
"off"), the duration it was armed with, backoff and consecutive failures, and the client's end. The
interval and the limit are what `Parse` makes of metadata that may hold zero and negative values;
metadata without an address opens no stream. Durations wrap at `MaxInt`. A poll may succeed or fail
after the client left. KEDA opens the stream again when it ends, with the same or another
configuration.

### Readiness

The loop KEDA - query - Health - probe - Service - KEDA, with Prometheus going up and down, the
connection breaking and the process restarting. A query is one step. Times are ages that stop
growing once nothing tells them apart, so time is unbounded. The kubelet's and the Service's part
is external: a probe every `ProbePeriod`, one pass puts the pod in, `FailureThreshold` failures in
a row take it out, and connections that exist outlive the endpoint.

### MockVLLM

One event loop: what lies between two awaits that really suspend is one step. `Enter` is
`Slot.__aenter__` when a slot is free, `Wait` up to its suspension in `acquire`, `Resume` the rest
once it was woken, `Leave` is `__aexit__`. `_lock` is never contended, because nothing is awaited
with it held that suspends. The semaphore is external and modelled as CPython 3.12 has it: `release`
takes the slot it frees back on behalf of the oldest waiter it wakes, and a woken waiter hands out
what came free before it ran. `_wake_up_next` in a loop is one set, `WakesUp`: as many of the waiting
requests as there are free slots, or all of them, and none before one that is ahead of it in the
queue. A client that goes away changes nothing: a stream's producer is a task
of its own and a plain handler is not cancelled.

### SignalChain

Extends `MockVLLM` with Prometheus's samples, the cache and KEDA's metric: `Scrape`, `ScrapeFails`,
`OtherQuery` (a stream tick or `IsActive`, of this ScaledObject or of another one that shares the
query and stores with a cacheTTL of its own, at most `LongestTTL`), `Poll` (`GetMetrics`),
`PollFails`, and `Tick`, which ages all of them; a scrape and a poll come at most their interval
after the last one, in any phase. A reading is "over" or "under" its threshold or "absent", which is
all the metric being over or under its target depends on: that is `ActiveIffADimensionIsOver`, with
`Active` at its target. An entry of the cache is a reading and the life it has left, which the call
that stored it gave it; a call of ttl 0 neither reads nor writes one. Simplifications that add to
the bound but change nothing else: queries take no time, and an entry leaves the cache when it
expires instead of staying unread. Assumed of the external parts: Prometheus marks the series of a
failed scrape stale (an instant query then finds none), and KEDA keeps the metric it has when
`GetMetrics` fails. Both stand in `docs/` only by implication.

## 4. What the runs show

| run | question | bounds |
|---|---|---|
| `CachingSource_safety` | `WaitersHaveLeader`, `OneFlightPerKey`, `BoundedStaleness`, `ErrorsNeverPinned`, `CacheSparesUpstream`, `CacheNeverRegresses`, `ImplementsReadings` | 3 goroutines, 1 key, ttls 0 and 1, clock 0..2, callers symmetric |
| `Saturation_score` | `ActiveIffADimensionIsOver`, `MoreLoadNeverScoresLess` | 13 replies per query, 4 values per threshold and for the activation, strict or not; negative numbers, 0, infinity, NaN among them |
| `Scaler_safety` | `NoPartialDecision`, `NoGoroutineOutlivesRequest`, `ReadingsAreOwn` | 2 handlers, 2 objects that share both queries crosswise, one strict about absence; of each query a value of its own, no series, a 503 |
| `Scaler_liveness` | `EveryRequestReplies` | 2 handlers, 1 object, uncached, absences and cancellations |
| `Stream` | `BackoffLaw`, `NeverSpins`, `StreamEndsAfterItsClient`, `FailingStreamEnds`, `PushesResume` | intervals unset, -5, 0, 1, 7; limits unset, -1, 0, 1, 2; with and without an address |
| `Readiness` | `EndpointMeansRecentAnswer`, `OutageMarksUnready`, `StaysReadyWhileConnected` | window 4, ttl 2, poll 2, dial 5, probe 2, threshold 2 |
| `SignalChain` | `GaugesAreTrue`, `NoLostWakeup`, `MetricFollowsLoad`, `ScaleInIsReal` | 3 requests, 2 slots, scrape 2, own ttl 1, longest ttl 2, poll 3, requests symmetric |

Why these bounds are enough. *CachingSource*: with one leader, one joiner and one caller between
load and Do every pair of critical sections meets; keys do not interact (no action reads two), so
one is enough here and `Scaler` uses two; the clock needs an entry to be stored, to expire and to be
replaced, which 0..2 with ttl 1 gives. The proofs remove all of these bounds. That `Get` returns is
checked where it has users: `EveryRequestReplies` needs every one of a request's calls to return.
*Scaler*: four goroutines over two keys give a request both its own flights led by the other
request, the crosswise sharing two objects can have; two outcomes of failure and an absence are
needed because the strict object turns absence into a failure. Its safety run stops the clock (no
property of it is about time; `CachingSource_safety` has time) and its liveness run needs only one
outcome that is not cancelled, and lets the clock tick. *Stream*: the default limit of 5 lets the
backoff reach its cap and stay there; the interval 7 brings an uncapped one close to the wrap at
127; the unset, zero and negative values are the ones the floors are for. *Readiness*: the ttl is
not below the poll period, so hits keep the pod ready through the start of an outage, and
`DialPeriod` exceeds the window, so KEDA may stay away until the grace period ends. *SignalChain*:
2, 2 and 3 have the order of the 15, 15 and 30 seconds of the manifests for the scrape, the longest
ttl and the poll, with room for a tick in each and no common period, so that the clocks meet in
every phase (`SignalChain_doc` has 2, 2 and 4); the object's own ttl is shorter, so that its polls
meet entries that others stored for longer; three requests over two slots let one wait while two
run, be woken, and meet a third that arrives before it runs. The bound is tight: a load can be
steady for `Bound` ticks and the metric still be on the other side.

Symmetry is used in runs without liveness only, over identical goroutines, handlers or requests. The
views of `MCScaler` drop what no guard reads: the gauges and the arguments of calls that are
over; the liveness view also drops the history. No property of those two runs reads what its view
drops, save `TypeOK`, which reads the gauges' domain (no step changes it) and the range of `conf`
(only `Begin` sets it, to what `Parse` makes of metadata).

Fairness. `Scaler`: a goroutine that can run does (WF on each goroutine's steps); `Instant` returns
because `main.go:337` gives its client a 5 s timeout. Nobody has to call, cancel, or let time pass.
`Stream`: timers fire, the handler runs and KEDA reopens (WF); Go's `select` takes a ready case at
random, so one that is ready again and again is taken (SF on `SelectDone`). That KEDA can reopen is
an assumption about the network, on which `PushesResume` rests: `Readiness_lockout` shows a way it
can fail. `Readiness`: time passes, the kubelet probes, KEDA dials (WF), and a KEDA whose connection
flaps gets a call through now and then (SF on `Query`). Outages, disconnections and restarts have no
fairness. `SignalChain` states time bounds instead of liveness: no scrape and no poll is later than
its interval, because `Tick` waits for them.

### Where the code and its comments disagree

| run | comment | what happens |
|---|---|---|
| `CachingSource_readersttl` | cache.go:57-58 "a reading younger than ttl" | the ttl of the call that *stored* decides; what does hold is `BoundedStaleness`, with the largest ttl |
| `Saturation_nan` | main.go:7-10 "whichever is closer to its threshold" | a NaN reading hides the other dimension |
| `Scaler_cancel` | cache.go:25-28 "safe for concurrent use [...] shared across every ScaledObject" | a healthy request ends with "context canceled" through a shared flight |
| `Readiness_lockout` | config.go:31-34 "letting KEDA re-establish it" | an unready scaler whose KEDA connection broke is never ready again |
| `SignalChain_doc` | docs/autoscaling-signal-staleness.md:47-52 "worst_case_signal_age = scrape_interval + pollingInterval", to which cacheTTL adds nothing "in the worst case" | the ttl adds to it when somebody else's query filled the cache just before a scrape |

`Readiness_lockout` assumes the most of KEDA: it dials within one tick whenever it can. It needs an
outage longer than the window and a connection that breaks before Prometheus is queried again;
a replica other than this one, or a restart, would end it.

`SignalChain_doc` needs nothing to fail. What does hold is `MetricFollowsLoad`, with the longest ttl
on the shared queries added, because an entry lives as its storer says (`CachingSource_readersttl`):
60 s for `deploy/scaledobject-external.yaml` instead of 45 s. Its `stabilizationWindowSeconds` of 90
is then less than the twice the worst-case age that line 146 of the page asks for.

One more disagreement has no run, because no property turns on it: internal/metrics/metrics.go:19-21
and 48-51 describe a value that cannot be decoded as `ErrMissing`. The code returns that for a value
that is not a string (line 84); for a string that is no number it returns `ParseFloat`'s error (line
88), which is not cached and which a lax object does not tolerate. `Prometheus` follows the code.

## 5. What is proved

`CachingSourceProofs` proves, for every set of callers, keys, values and ttls (`TTLAssumption`:
integers bounded by `MaxTTL`; `NoCaller` and `NoEntry` are not a caller and not an entry) and every
horizon, `TypeOK` and the six safety properties of `CachingSource_safety` before
`ImplementsReadings`. None of them is
inductive. `Inv` adds `FlightLed` (the singleflight map and the program counters agree on who leads;
it gives `WaitersHaveLeader` and `OneFlightPerKey`), `BranchesTaken` (only a positive ttl loads or
stores, only usable outcomes are stored), `NothingFromTheFuture`, `StoresInOrder` (a leader about to
store holds a reading no older than the cached one, because only one flight of a key exists:
`CacheNeverRegresses`) and `MissIsFresh` (`CacheSparesUpstream` extended to callers between load and
Do). There is one lemma per conjunct, with one step per action.

`CachingSourceRefinement` proves `Spec => ImplementsReadings` under the same assumptions and
`NoReadingAssumption` (`NoEntry` is not a reading either). `Inv` gives the mapping all it needs save
what a leader has in hand: `AnswersAreCurrent` says that it was evaluated after the leader's call
began and is not older than the cache's, which `Respond` establishes and which no other flight of the
key can spoil. Then one lemma for each action that shows (`HitShares`, `StoreRenews`,
`PublishAnswers`), and one, `Invisible`, for those that do not.

`StreamProofs` proves, for every metadata `StreamAssumption` allows (any integers, durations up to a
sixteenth of the longest one), that the types hold, that every wait is the one `BackoffLaw` names,
and that a timer is never armed with a duration that is not positive (`NeverSpins`, from the floors
in `Parse`). Its invariant adds what the loop knows where it is not waiting: in "poll" the backoff
is that of the failures so far, in "send" it is the interval and the failures are none.

`ReadinessProofs` proves, for every window, ttl, period and threshold `ReadinessAssumption` allows,
the types and `EndpointMeansRecentAnswer`. Its invariant follows the chain of lags: silence is at
most the age of a reading still in the cache (`ReadingTellsSilence`), at most a ttl more than the age
of the last recorded success (`LifeTellsSilence`), and for a pod in the Service at most a probe
period more for each probe that failed since (`EndpointTellsSilence`).

`ScalerProofs` proves the safety of `Scaler`, for every set of handlers, objects, metadata and
replies. `MetadataAssumption` says that what the objects' metadata parses to names keys and ttls of
the cache; `ReplyAssumption` says that a number Prometheus returns is one of `Value`, of which there
is at least one; `CachingSourceAssumption` is `CachingSource`'s own for the query goroutines. Each
step of a handler or a goroutine is one step of the cache or none, by the way the modules are
composed (the lemma `ScalerUsesCachingSource`). The theorems of `CachingSourceProofs`, instantiated
with queries for callers, then hold of the scaler (`QueriesAreServed`), and so does its invariant,
which the next one leans on. `SInv` adds what the handlers and the cache know of each other: a
goroutine is inside `Get` exactly while the cache has its call, and none is left once a handler
waits no more (`GoroutinesAreCallers`, hence `NoGoroutineOutlivesRequest`); the errgroup has no
error only as long as every goroutine that is done has a reading its object can use
(`GroupKnowsFailures`, hence `NoPartialDecision`). For `ReadingsAreOwn`, `KInv` follows a reading
from the reply to the decision: a call is under the key of its own query (`CallsAskTheirOwn`), and
what a call has in hand (`ResultsBelong`), what is cached (`EntriesBelong`) and what a goroutine
ended with (`ReadingsBelong`) are among the answers to what the key stands for. A flight's leader
asks for its own object, and those who join it have its key; so the argument turns on `KeyOf`
holding all of what is asked.

`SaturationProofs` proves both properties of the score for all readings, thresholds and activations
(`NumbersAssumption`: they are what `ParseFloat` returns, infinities and NaN included). The lemmas
are about the order of float64s as pairs: where one side is infinite and where none is
(`LessCases`), that it is a weak order on all but NaN (`LessLess`, `LessOfLess`, `LessAsymmetric`),
that a percentage and a quotient by a positive threshold keep it (`PercentLess`, `RatioMonotone`,
`OverByRatio`), and that `math.Max` exceeds what one of its arguments exceeds and falls only with one
of them (`MaxExceeds`, `MaxMonotone`). The proof needs the condition `Usable` in full: of an infinite
reading and an infinite threshold, which `floatOr` accepts, the ratio is NaN.

`MockVLLMProofs` proves, for every finite set of requests (`RequestAssumption`) and every capacity,
`GaugesAreTrue` and `NoLostWakeup`. Each needs the other's company: `MInv` adds `QueueHoldsWaiters`
(the queue holds each waiting or woken request once, and no other), by which an arrival that finds
the queue empty passes nobody, and one that finds it not empty beside a free slot has a woken request
ahead. Cardinalities change by the set that is woken, which is disjoint from those who hold or were
promised a slot: a slot is handed over, never doubled.

`SignalChainProofs` proves, for every scrape interval, own and longest ttl, polling interval and
pair of thresholds (`SignalAssumption`), the types, `MetricFollowsLoad` and `ScaleInIsReal`. The
chain's steps are mock-vllm's or leave its state alone (the lemma `ChainRunsMock`), which carries
the theorems above over. `CInv` follows a reading through the stages and adds the age of each: a
sample is the load's once the load rested for longer than the last scrape is ago (`SampleFollows`),
a cache entry for longer than a scrape interval and its age (`CacheFollows`), which is at most the
longest ttl less the life it has left (`Age`), the metric for longer than `Reach` and the last poll
(`MetricFollows`); and an "under" that a stage holds is from when the gauge was under, not longer
ago than that age (`SampleWasUnder`, `CacheWasUnder`). The caps on the two history counters lie
above every bound they are compared with, so they lose nothing.

Model-checked only, on the instances above: all liveness properties, `EveryRequestReplies`,
`StreamEndsAfterItsClient`, `FailingStreamEnds`, `PushesResume`, `OutageMarksUnready` and
`StaysReadyWhileConnected`, which are out of the proof system's reach.

## 6. What is not modelled

- Observability beyond the decision gauges and `/readyz`: counters, the histogram, `/healthz`. They
  feed back into nothing. Setting the three gauges of two concurrent decisions may leave a mixture;
  `Scaler` has the steps, no promise is made about them.
- `Instant`'s timestamp fallback and clock skew between Prometheus and the scaler: no decision reads
  an age. Float rounding, the int64 copy of the metric (KEDA reads the float), and memory: the cache
  never evicts, and its keys are as many as the configuration's.
- A `READY_WINDOW` that is zero, negative or below the polling interval: `Readiness` takes positive
  ones, and its run a wide one. A crash loop during an outage: a restart starts the grace period
  afresh, and the properties of `Readiness` promise nothing while restarts go on.
- The clients of mock-vllm: no step of it looks at them.
- The HPA behind KEDA, its stabilization window, Argo CD and what self-heal does to the replica
  count: external controllers, none of whose code is here.
- `bootstrap/*.sh`: linear lists of kubectl and helm calls whose state is the cluster's; a model of
  them would be a model of Kubernetes. The GitOps, GPU-serving and SLO manifests are declarations.
- `benchmark.py` and the load generators: drivers of an external system. A worker that dies of an
  exception silently leaves its requests unsent; this is listed as a hazard.
- Logging, HTTP and gRPC plumbing, the text of errors, and generated code.
