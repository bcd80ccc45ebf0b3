# A TLA+ model of the Mesos collector plugin for Snap

The plugin (`src/`) is a process that Snap loads and calls over RPC. Snap asks it
once which metrics there are (`GetMetricTypes`) and then, at each interval of each
task, for the values of some of them (`CollectMetrics`). The plugin has no
threads, queues or stored state of its own: what is hard about it is that each call
is a sequence of HTTP exchanges with hosts that change, fail, hang and lose the
lead between any two of them, while other calls run in the same process.

## Inventory

| Part | State | Operations | Correct when |
|---|---|---|---|
| `Mesos.CollectMetrics` (`mesos/mesos.go:135-270`) | the locals of each call: partition of the request, snapshot, metrics so far | getConfig, partition, redirect, two fetches and a render loop for the master, two and a loop for the agent | an answer is complete, gated by the leader, from one reading per endpoint, and no call disturbs another |
| `getConfig` (`mesos.go:272-304`) | none | two lookups in the configuration | an error only when neither item is there |
| `master` (`mesos/master/master.go`) | none | `IsLeader`, `GetMetricsSnapshot`, `GetFrameworks`, `GetFrameworksMetricTypes` | a follower is never taken for the leader; a failed request is an error |
| `agent` (`mesos/agent/agent.go`) | none | `GetMetricsSnapshot`, `GetMonitoringStatistics`, `GetFlags`, `GetMonitoringStatisticsMetricTypes`, `deleteFromSlice` | the catalog holds what the isolators can supply; what is collected of an executor is what this response held |
| `client` (`mesos/client/client.go`) | host and path of one fetch | `Fetch` | every failure is an error, a body that was opened is closed, and a fetch ends |
| render loops, `cloneNamespace` (`mesos.go:179-209`, `:232-265`, `:306-311`) | namespaces in arrays that are shared with the request | one metric for each request, or for each instance | each metric has its own instance; Snap's request is not written to |
| `Mesos.GetMetricTypes` (`mesos.go:62-133`) | the list so far | three fetches and two static lists, all or nothing | what it lists can be collected |
| plugin entry (`main.go`, `Meta`, `GetConfigPolicy`) | none | constants, hand-over to Snap's library | |
| `mesos_pb2` (generated) | the message an executor's statistics are decoded into | accessors `GetX` (no code of the plugin calls them), `Reset` | |
| Snap (external) | catalog, tasks | calls concurrently, loads a dead plugin again | |
| Mesos masters and agents (external) | leader, values, frameworks, executors | answer HTTP | |

How they interact: Snap serves each RPC request in a goroutine of the plugin process;
`CollectMetrics` calls `master` and `agent`, which call `client`, and IsLeader which
uses the HTTP transport directly. Nothing is shared between two calls but the process.

Hard behaviours: the leader test and the reads it guards are different exchanges;
the snapshot and the listing of frameworks or executors are read at two moments; a
phase may fail after the other succeeded; a missing response is dereferenced, which
ends the process and every call in it; no fetch has a time limit; the deletion loop
changes the slice it walks; the agent's keys are listed before its flags are fetched;
the catalog is as old as the load, and a load is several exchanges itself. The `hazards` of PROJECT.json list each at its line.

## Modules

| Module | What it is |
|---|---|
| `Requests` | requests, configurations, metrics and replies; pure operators: `Configured`, `ConfigError`, `HostFor`, `Wants`, `Rendered`, `RenderAll`, `StopsAt`, ... |
| `Cluster` | external: the Mesos hosts as HTTP shows them. `location` (redirect of each master), `document` (what a host serves), `health` |
| `Calls` | the calls as Snap sees them (`batch`, `reply`), and three history variables: what the cluster showed during each call (`told`, `held`, `troubled`) |
| `Answers` | what a rightful answer, an excused error and a fatal call are, from the history alone |
| `Collection` | abstract specification: a call is invoked, and answers once, rightfully, or is lost in a crash that some call in flight explains |
| `Collector` | the code: one action per exchange |
| `MCCollector` | the instances for TLC |
| `CollectorProofs`, `CollectorRefinement` | theorems about `Collector`; that it implements `Collection` |
| `Plugin`, `MCPlugin`, `PluginProofs` | `GetMetricTypes` and the life of the plugin, around `Collector` |
| `RenderStep` | abstract specification: a render loop is one step, with all metrics, an error or a panic |
| `Rendering`, `MCRendering`, `RenderingProofs` | the two render loops with the arrays under the namespaces; they implement `RenderStep` |
| `Fetching` | abstract specification: a fetch gives the one answer its response earns |
| `HttpClient`, `HttpClientProofs` | `Client.Fetch` and its four callers, step by step; it implements `Fetching` |
| `Structures` | the decoded structures as types: `Get` (the accessors), `FromCompositeObject`, `GetValueByNamespace`, `GetFrameworksMetricTypes` |
| `AgentMetricTypes`, `AgentMetricTypesProofs` | `GetMonitoringStatisticsMetricTypes`, with an agent that is restarted |
| `Statistics`, `StatisticsProofs`, `MCAgentMetricTypes` | an executor's statistics from the response to the collected value, beside that catalog |
| `DeleteFromSlice`, `DeleteFromSliceProofs` | the loop of `agent.go:166-175`, and theorems about it |

`Requests <- Cluster <- Calls <- Answers` is a chain of EXTENDS, shared by
`Collection` and `Collector`; `Collector` instantiates `Collection` with
`active <- [c \in Calls |-> pc[c] # "idle"]`.

How they compose. `Plugin` EXTENDS `Collector`: its calls are `Collector`'s, restricted to batches from
the catalog. What the coarser module takes for one step is a module of its own, joined by a
stated result:

* a fetch is one step of `Collector`, with the outcomes data or error; `HttpClient` has its
  exchanges, and implements `Fetching`, which has that one step. (`null` for data, which is neither,
  gives an empty document.)
* a render loop is one step of `Collector`, with the metrics `RenderAll`, an error or a panic. `RenderStep` is that
  step by itself; `Rendering` has the elements, and implements it (`IsOneStep`).
* `StatisticsTypes` of `Plugin` takes the keys of the agent as they are offered;
  `AgentMetricTypes` makes them of the flags.
* `deleteFromSlice` of `AgentMetricTypes` is set difference; `Filtered` says so of the loop in `DeleteFromSlice`.

### Collector and the code

| Action | Code |
|---|---|
| `Invoke` | the call arrives (`mesos.go:135`) |
| `Start` | getConfig, the partition, and the test of the master phase (`:136-157`) |
| `IsLeader`, `NoLocation`, `NoResponse` | the outcomes of `master.IsLeader`: a location that names this master or another; none; no response at all, where the error branch reads `resp.StatusCode` of a nil response and panics |
| `FetchFails` | `client.Fetch` returns an error, and so does the call |
| `MasterSnapshot`, `Frameworks` | the fetches of the master phase; the second with the render loop (`:171-210`) |
| `AgentSnapshot`, `Statistics` | the same for the agent (`:218-265`); the loop may panic at `Strings()[5:]` |
| `Exit` | the process ends some time after a panic, with every call in it |
| `Restart` | Snap loads the plugin again |
| `ClusterMoves` | one host changes: its redirect, its document, or its health |

Between two exchanges the code only computes on its own locals, so what follows an
exchange up to the next one is part of the same action. A response is read at one
moment: the network may delay it, which is the same as the call's being slow.
After a panic, Snap's handler for panics in the plugin's session may still delay the
end of the process; the model lets the other calls go on until `Exit`.

### Plugin and the code

| Action | Code |
|---|---|
| `Load` | Snap loads the plugin with a configuration and calls `GetMetricTypes`: getConfig (`mesos.go:62-71`) |
| `MasterTypes` | the master's snapshot and `GetFrameworksMetricTypes`, which asks nobody (`:71-99`) |
| `AgentTypes`, `StatisticsTypes` | the agent's snapshot; its flags, and the return (`:101-133`) |
| `LoadFails` | any of the exchanges fails, and so does the load |
| `Collect` | `Collector`'s `Invoke`, for metrics of the catalog |
| `CollectorMoves`, `ClusterMovesOn`, `Reconfigure` | the calls; the hosts; an agent restarted with other flags |

Snap runs a load in a plugin process of its own, so it is not lost in the crash of the one that
collects. Loading again forgets the catalog there was. `changed` and `stale` are history variables:
the hosts that do not serve what they served when the load began, and the calls that asked one of them
or saw one change. A body `null` for the flags panics in the loading process; for the load this is `LoadFails`.

### Rendering and the code

| Action | Code |
|---|---|
| `OtherService` | the partition skipped this metric (`:144-151`) |
| `AppendInstance`, `SkipInstance`, `EndInstances` | the inner loop over frameworks or executors (`:183-198`, `:236-249`) |
| `AppendStatic`, `Stop` | a static metric; a key that is not in the snapshot, or one too short for `Strings()[5:]` (`:199-208`, `:251-264`) |
| `Return` | the loop is over |

`heap` holds the arrays by address. A request's namespace, the one in the partition and the one in a static
metric of the answer are slices of one array; `cloneNamespace` makes a new one. A metric holds an
address, and `View` reads it as its receiver does, after all later writes. The two loops of a call run one after
the other on different metrics of the batch, so the module has either.

### HttpClient and the code

| Action | Code |
|---|---|
| `Ask` | a caller declares its variable and calls `NewClient` and `Fetch` (`agent.go:48-99`, `master.go:67-97`) |
| `Get`, `Status`, `Read`, `Unmarshal` | `http.Get`; the test for 200; `ioutil.ReadAll`; `json.Unmarshal` with the caller's return (`client.go:54-83`) |
| `Return` | what each return runs: the deferred close (`client.go:62`) |

The callers pass timeouts of `time.Duration(5)`, `(10)` and `(30)`, which are nanoseconds; as no request
uses them (`client.go:57`), that has no effect, and the model keeps them as fields that nobody reads.

### AgentMetricTypes, Statistics and the code

| Action | Code |
|---|---|
| `GetFlags`, `GetFlagsFails` | the fetch of the flags, after all keys were listed (`agent.go:101-121`) |
| `Perf`, `DiskStep`, `NetStep` | the three filters (`agent.go:123-157`) |
| `Again`, `Reconfigure` | the next load; a restart of the agent |
| `GetMonitoringStatistics` | the next call, with a variable of its own (`agent.go:90`) |
| `Decode`, `DecodeEmptyObject`, `DecodeTrafficControl` | `json.Unmarshal` of a number, an object without data, and a list into one element of that variable (`agent.go:93-96`) |
| `CatalogMoves` | a step of the catalog or a restart; the next response is a new one |

`Collected` is the loop over the executors (`mesos.go:232-249`): the namespace as the catalog has it, without its first
five elements, looked up in the structure. `sent` is a history variable with the numbers of this
response. One executor stands for all of them: the elements of the listing share nothing.

`Structures` has the fields of `mesos_pb2` by their JSON names, for the eight messages that are reached from
`agent.Executor`. A decoded message is a function from the fields that are present, so `EmptyMessage`, a message without fields, is not
`Nil`, which is none; every accessor is `Get` of its field, and appears in a slip only: in place of the lookup. The
catalog's keys are computed from these types, so the patterns of the filters are matched against the real names.

### What is abstracted

* A namespace is a service, whether it has dynamic elements, and a key. A host stands
  for its `host:port` string, and `Contains` for `strings.Contains` on those names.
* A *document* is everything a host serves at one moment: the keys of the snapshot
  and which instance (framework, or framework and executor) carries which key. A
  value is known by the document it was read from; that is enough to tell readings apart.
* In `Collector` an answer is a set of metrics; their order, and a metric requested twice,
  are in `Rendering`. Time, units, log lines and the text of errors are left out.
* A configuration item is absent (`Missing`), a host, or `NotString`, which also stands for an
  empty string: `getConfig` leaves `""` for both, but only absence counts for its error.
* *Health*: `up`; `failing`, which answers but not with what was asked for (no 200, a body
  cut short, no JSON, no Location), or has a name that makes no URL, where `http.NewRequest`
  fails (`master.go:103-108`) and the outcome is the same; `down`, where the connection fails; `hung`, where no
  answer comes and the connection stays open. One health stands for all of a host's endpoints.
* A key of one segment (`OneSegment`) is possible as far as the code goes: the catalog is
  built from whatever keys the snapshot holds. Mesos's own keys have two segments or more.
* A batch is non-empty, as Snap's are (`BatchesAssumption`). Its metrics may have different
  configurations, as far as the code goes; only the first one's is read, and the model says so.
* The tags of a phase are one map, shared by its metrics; nobody writes to it after it is made, so it
  is the `source` of each metric.
* In `AgentMetricTypes` what an agent may fill in (`Supplied`) is external, and follows what the comments of `mesos_pb2` and
  `agent.go` say: a family of fields for each isolator, the pressure counters with the memory cgroup, swap if it is enabled.
  Where they say nothing, as of processor time, any agent may fill a field in. What perf
  reports, and under which name (`PerfKey`), is external too: `OneName` says that each event has one name.
* In `HttpClient` a response is one of the ways a host may treat a request, drawn when it is made.

Definitions that begin with the comment "Slip:" are wrong variants of the definition
after them, one plausible mistake each (a flag ignored, a bound one too small, shared
state). No specification uses them; replacing a definition by its slip makes TLC find the
property that goes with it in PROJECT.json violated, which shows what the property is sensitive to.

## Properties and runs

| Run | Instance | Shows |
|---|---|---|
| `collector_core` | 1 call, 1 master, 1 agent, 1 other leader, 3 keys, 1 instance, 2 documents, 6 batches; up, failing, down | `TypeOK`, `IInv`, `LeaderGate`, `OneReading`, `NothingDropped`, and `Promise` (implements `Collection`) |
| `collector_two_calls` | 2 calls, 1 document, 2 batches; up, down, hung | `Promise` with interleaved calls and crashes; `IndependentProgress` |
| `delete_from_slice` | every slice of up to 6 elements, every set of matches | `LoopInv`, `Filtered`, `EachOnce`, `Terminates` |
| `plugin` | 1 call, 1 master, 1 agent, 2 documents, 2 offers, 5 configurations, 4 batches; up, down | `WholeCatalog`, `FreshCollects` |
| `rendering` | 3 batches of 3, 4 documents, 2 frameworks, 1 executor, each naming of the instances and order of the listing | `RequestUntouched`, `RendersAll`, `InOrder`, and `IsOneStep` (`RenderStep`) |
| `http_client` | 2 fetches, every endpoint and response | `BodiesClosed`, and `Implements` (`Fetching`) |
| `agent_metric_types` | the 161 keys, 4 isolators, 2 events, values at 3 paths | `SuppliedIsListed`, `CollectedIsSent` |
| `collector_off_leader` | violation | `NoCollectionOffLeader` |
| `collector_overlapping_names` | violation | `LeaderGate` when a leader's name contains the follower's |
| `collector_no_response` | violation | `FailedRequestIsAnError` |
| `collector_hangs` | violation, under fairness | `EveryCallReturns` |
| `agent_metric_types_impossible` | violation: `cpu-cycles`, which perf reports as `cycles`; no memory cgroup, no swap | `ListedIsSupplied` |

* `LeaderGate`: metrics of a master are returned only by a call to which that master
  named itself, at some time of the call. The stronger reading, that it was still the leader
  when its snapshot was read, is what the README promises and `NoCollectionOffLeader` refutes.
* `OneReading`: static metrics of one host come from one reading, dynamic ones from one
  reading, both made during the call, and `source` names the host.
* `NothingDropped`: an answer without an error leaves out nothing that was there from the
  first to the last moment of the call, unless the master was told of another leader.
* `Promise`: every answer, error or loss is explained by the configuration and by what the hosts
  of *that* call showed while it was in flight. It compares the code's result with `Answers`,
  which is written without the code's phases.
* `IndependentProgress`: a call whose own hosts are not hung returns, whatever others do.
* `WholeCatalog`: what Snap knows is nothing at all, or exactly what the load's hosts offer, as long as
  they are what they were when the load began; no load that failed half way leaves entries.
* `FreshCollects`: a call for metrics of the catalog, to hosts that have not changed since, has no error but for
  its configuration or a host in trouble. It speaks of errors: a call that is lost in a panic has none. The known caveat of the README (`README.md:288-292`) is the other half:
  after a change, a key that is gone fails the batch until the plugin is loaded again.
* `RequestUntouched`: no wildcard of Snap's request is overwritten by an instance of an answer.
* `RendersAll`: read through the arrays after all writes, the answer is `RenderAll`'s, and the loop ends exactly
  when no requested namespace stops it. A request that names one instance gets all of them.
* `InOrder`: a slot is a requested metric and, under a wildcard, an instance of the listing that has a value for it. The
  answer has as many metrics as there are slots, and the metric of a slot is at the index that counts the slots up
  to it: the order of the request, then of the listing, with no gap and every repetition.
* `IsOneStep`: whatever a loop had appended, an error or a panic leaves no answer, and which of the two it is
  depends on the first namespace that stops the loop alone: a key too short panics whether or not it is in the snapshot.
* `EachOnce`: from one round of the deletion loop to the next the index goes on by one element of the original slice.
* `BodiesClosed`: whichever of its returns a fetch takes, the body it opened is closed.
* `Implements`: data come from a whole body of the right type in a 200 only, never from what a failed
  decoding left in the caller's variable.
* `SuppliedIsListed`: for the flags that were fetched, what executors may carry is listed,
  though the keys were listed before and the agent may be restarted with other flags at any point. It leaves out
  the time and duration of a perf sample, which the filter drops with the other perf keys.
* `CollectedIsSent`: for each key, listed or not, what a call collects of an executor is the number its own response held
  for it, zero included, and nothing if there was none: nothing is left of an earlier response, nothing is made up below a
  `perf` object without data (`README.md:294-296`), and the key `perf/`, which is listed for an agent that has
  the perf isolator and names no event (`agent.go:133`), is passed over.
* `ListedIsSupplied`, the other half of `SuppliedIsListed`, is what `agent.go:116` means to ensure, and does not hold:
  see items 5 and 6 below.

Bounds. One call against a moving cluster covers the ordering of exchanges and changes,
as nothing is counted; two documents with a key and an instance that come and
go are enough to mix two readings or to lose a key between them; a second call
is enough for one call to disturb another, since calls share nothing but the process.
The six batches hold each combination that `getConfig`, the partition and the loops
branch on, a missing item, a non-string, a key that may vanish and the short key
included. In the run with two calls one document keeps the state space small: the
metrics of one call there differ from the other's by what they ask. There is no bound on the
number of calls, cluster moves or restarts in time: a call may be invoked again after it returned.
In `plugin` the snapshot gains and loses one key and the offers one statistic, so a load or a call can meet either
change; the configurations have both hosts, one with the other missing or no string, or none, and batches
ask with the load's configuration or another. For each service one document in `rendering` has a key at all instances
of the listing, and one has it at the first or the last of its order only; batches hold a wildcard twice and static metrics around one. In
`agent_metric_types` the three paths have the three depths the structure has, and an isolator each; it is the
real structure, not an instance of it, and the isolators that the filters look for are there in every combination. Two values
and any sequence of calls are enough to leave something of one response in the next. Six elements hold runs of matches at both ends and in the middle of a slice; the theorems hold for any length.
Deadlock is checked in the runs of the collector, the plugin and the agent; `delete_from_slice` and `rendering` stop when the
loop ends, and `http_client` when every fetch waits for a host that is silent.

Fairness. `FairSpec` is weakly fair to each call's own steps, because Go's scheduler runs every
goroutine and the step of a call that waits for a host that stays `up` (or stays `failing` or `down`)
is enabled until it is taken; and to `Exit`, since an unrecovered panic does end the process. It
is not fair to `Restart`, `Invoke` or the cluster: nothing makes a hung host answer.
`DeleteFromSlice` is fair to its one thread.

## Proofs

All theorems hold for any hosts, keys, instances, documents, batches and number of calls or fetches; they
assume the named assumptions of the modules, and what the table says.

| Theorem | States |
|---|---|
| `Invariant` | `Spec => []IInv` |
| `TypeCorrect` | `Spec => []TypeOK` |
| `LeaderGateHolds` | `[]LeaderGate`, if a leader's name contains a master's only when they are the same |
| `OneReadingHolds`, `NothingDroppedHolds` | the properties of these names |
| `PromiseKept` | `Spec => Promise`: the initial states and each step map to `Collection` |
| `StillCollects` | `PluginSpec => Spec`: all theorems about `Collector` hold of the plugin |
| `PluginKeepsPromise`, `WholeCatalogHolds`, `FreshCollectsHolds` | the properties of these names, of `PluginSpec` |
| `RequestUntouchedHolds`, `RendersAllHolds`, `InOrderHolds` | the same for the render loops, for any order of a listing |
| `IsOneStepHolds` | `Spec => IsOneStep`: each element is a stutter of `RenderStep`, the end of the loop its one step |
| `BodiesClosedHolds`, `ImplementsFetching` | the same for a fetch; the second maps each step to one of `Fetching` or a stutter |
| `SuppliedIsListedHolds` | the same for the agent's catalog, if every event has one name (`OneName`) |
| `CatalogStays` | `StatisticsSpec => Spec`: all theorems about `AgentMetricTypes` hold beside executors |
| `CollectedIsSentHolds` | `StatisticsSpec => []CollectedIsSent`, for the whole generated structure and any events and values |
| `LoopInvariant`, `FilteredHolds`, `EachOnceHolds` | the deletion loop, for any slice and matches |

`TypeOK` and the properties above are not inductive: that an answer is right depends on
what its call decided several exchanges earlier. `IInv` adds three facts for each call.
`HistoryOK`: the history of a call in flight holds what the cluster shows now, so that what an
exchange reads is on record. `PhaseOK`: each phase carries what led to it (the master was
named by its redirect; the kept snapshot was served during this call; what the master phase
collected is already a rightful answer for the master, or rightly empty; a panic had a
fatal reason). `ReplyOK`: an answer given is explained. The history only grows during a call, and
`Explained`, `Excused` and `Fatal` are monotone in it (`ExplainedGrows`); that carries `PhaseOK` over
the moves of the cluster and of other calls. The central lemma, `RenderedExplained`, says that
a render loop that ran to its end over a snapshot and a listing on record gives a rightful answer.
`LeaderGateHolds`, `OneReadingHolds` and `NothingDroppedHolds` follow from `ReplyOK`; the
refinement uses `IInv` to show that each return satisfies `Answers` and each `Exit` has a `Fatal` call.

The loop's invariant `LoopInv` says that what is left is in order, what the index has passed does
not match, and nothing that must stay is gone; at the end this is `Filtered`. `EachOnce`
rests on `ShiftedDown`: what the index has not reached is as far from its old place as elements were dropped.

`PluginIInv` adds to the two properties `LoadOK`, what is listed so far at each exchange of a load, and
`FreshOK`: all documents a call that is not stale was shown hold the static keys it asks for.
So an error of that call cannot be a missing key; `ErrorsExcused`, which the proof takes from `Collector`'s `IInv`,
leaves the reasons that `FreshCollects` allows.

The invariant of `Rendering` says what has been appended at each position of both loops (`Before`, `SoFar`), seen
through the heap, and that the request's own arrays are as they were. A step that appends leaves the old
addresses alone, so the old metrics look as they did; that is where `cloneNamespace` is used. At the end
`Before` is `RenderAll`. That is a set: for the order, `TurnInv` adds that the metrics are those of the slots before the
two positions, each at the index that counts the slots up to its own (`InTurn`). Appending at a slot adds one to the
count and leaves all earlier counts alone, because every earlier slot comes before it (`TurnAppended`); a step that appends nothing passes
no slot (`TurnSkipped`). For the refinement, steps before the end leave `pc` and thus the abstract state, `Return` gives
`RenderAll` by `ReturnsAll`, and `Stop` stops at the namespace at `i`.

The invariant of `HttpClient` says what let each fetch come as far as it is (an answer, a 200, a whole body), that the
caller's variable is untouched until the decoding, and that the body is open exactly in between. The
invariant of `AgentMetricTypes` gives `namespaces` after each filter as a function of the flags that were
fetched, whatever they are now; that with `OneName` this holds all of `Supplied` but the sample is set algebra over disjoint families.

The structure of `mesos_pb2` is nested three messages deep, so listing, decoding and lookup are written out
for paths of one to three names, without recursion, and can be proved about. `SentInv`, the invariant of `Statistics`, is
`CollectedIsSent` for every path (`IsPath`) of the structure, listed or not. It is kept by `Decoded`: decoding a number at a path
changes what that path finds and what no other does, whichever of the two is longer, because a name
that ends a path does not lead on. An object without data changes no lookup (`EmptyObjectAddsNothing`), and neither does the list
of traffic controls, as no path leads through it. `LookedUp` has that the keys and events of the catalog are such paths, by
the catalog's own `IInv`, and `Stripped` that a call looks up the key its namespace was made of.

Only model-checked: `IndependentProgress` and `Terminates`, liveness under fairness, which the
prover does not reach, and the violations, which are counterexamples. No theorem says that the library's recursion over
objects of any depth does what the three written-out cases do: that is induction over data.

## Where code and words disagree

1. The README says that metrics are not collected on a master that is not the leader
   (`README.md:104-106`); the lead is looked up once and used two exchanges long (`mesos.go:159-171`).
2. `IsLeader` compares by substring (`master.go:131`): a follower `10.0.0.1:5050` takes itself for the
   leader when that is `110.0.0.1:5050`.
3. When the redirect's request fails, `master.go:112` reads a nil response; the branch that would
   return the client error is unreachable, and the plugin process dies.
4. `client.go:41` builds an HTTP client with a timeout and `client.go:57` does not use it.
5. `agent.go:116` means to list no metric that is impossible to collect; an event is listed under the name the flag
   has for it (`agent.go:137`), also when perf reports it under another (`mesos_pb2.go:3549-3551`), and then never has a value.
6. The counters of memory pressure and the swap fields are listed for every agent, also for one without the memory
   cgroup or without swap, which never fills them in (`agent.go:101-103`, `:146-157`; `mesos_pb2.go:3109`, `:3125`, `:3128-3132`).

## Not modelled

* The messages of `mesos_pb2` that are not below `agent.Executor`: generated for Mesos's whole protocol, and no code of
  the plugin mentions them. Of the others, the wire encoding, `String` and `Descriptor`: the plugin decodes JSON.
* `Meta` and `GetConfigPolicy`, which hand constants to Snap's library, and the library itself: its RPC, its
  scheduler, its publishing. Snap appears as the caller: loads, calls for metrics of the catalog, restarts.
* Time: the timestamp of a metric, taken before the first exchange; intervals of tasks.
* The libraries' recursion over arbitrary objects (`FromCompositeObject`, `GetValueByNamespace`) is modelled as
  far as these structures use it, to three names; the framework's structure and that of the flags are only listed, not decoded.
* Logging, the text of errors, tests, scripts, examples and build files.
