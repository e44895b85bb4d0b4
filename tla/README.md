# GraphKV: a TLA+ model of the state runtime

GraphKV serves multi-agent requests. A topology generator gives every request
its own graph of agents; the runtime derives from it, for each agent, the
*layout* of its prompt, and keeps the KV state computed for a layout so that
other requests and other serving instances can reuse it. This directory models
the parts of the repository that decide what is kept, where, and who is given
it; checks them with TLC; and proves the main results with TLAPS. Paths below
are relative to the repository root.

## The system

| component | source | state | operations |
|---|---|---|---|
| in-memory store | `src/graphkv/runtime/store.py` | an ordered table of versioned records, a byte count, an eviction count, a lock | `get`, `put`, `delete` (the last two optionally conditional on a version), `stats`, eviction |
| state manager | `src/graphkv/runtime/manager.py` | a bounded local cache, counters | `acquire` under one of three policies, `clear_local` |
| graphs | `src/graphkv/topology/model.py` | none (a graph is immutable) | `topological_order`, run by `create`; `predecessors`, `digest` |
| state server | `src/graphkv/runtime/server.py`, `protocol.py`, `TcpStateStoreClient` in `store.py` | one store; one connection and one thread per call | the store's operations over frames on TCP |
| layout identities | `src/graphkv/runtime/identity.py` | none | `layouts_for_graph` |
| dynamic runtime | `src/graphkv/runtime/orchestrator.py` | one manager per instance | `plan`, `acquire` |
| trace loader | `src/graphkv/topology/trace.py` | none | `load_topology_trace` |
| metrics | `src/graphkv/metrics/core.py`, `scripts/summarize_results.py` | an open result file | `write`, `percentile`, `summarize_result_file` |
| cache codec | `src/graphkv/runtime/codec.py` | none | `encode`, `decode` |
| benchmark driver, demo | `scripts/run_gpu_benchmark.py`, `src/graphkv/runtime/demo.py` | states on the GPU, samples | loops over the above |

The runtime maps each agent of a request's graph (in topological order) to an
instance and calls that instance's manager. A manager looks in its local cache,
then in the shared store, then computes, and publishes what it computed. The
store is in the same process or behind the TCP server, where handler threads of
many clients meet under its lock.

What is hard in this code: handler threads interleave in the store, whose byte
count and recency order are kept by several statements; managers of several
processes interleave between their store calls, which are unconditional; a call
over TCP can fail before or after it took effect, or take effect after its
caller gave up; the server keeps nothing across a restart while managers keep
their copies; the benchmark keeps a second cache beside each manager's own; one
key must never stand for two states of which one is wrong for its reader; and
result files are read, reopened and cut off while they are written.
`PROJECT.json` lists these hazards line by line.

What makes each modelled part correct:

* store: calls are atomic; bytes are counted exactly and bounded; eviction
  drops the least recently used records, no more than needed, never the one
  just written; versions advance; the lock is always released;
* manager: a state is only handed to an invocation its policy allows; the two
  halves of the local cache agree; every invocation is counted once; reset
  leaves nothing behind;
* graphs and traces: an order is returned exactly for valid acyclic graphs, it
  respects every edge and depends only on the graph; a trace is loaded whole or
  not at all;
* runtime and benchmark: what a manager calls local is on the GPU; the checks of
  loaded states fire for no reason but other arguments on the same server; a
  layout is computed as rarely as policy and placement promise; every benchmark
  ends;
* server: the client learns the truth or nothing, nothing is stored by halves,
  calls and handler threads end;
* codec: what is decoded is what was encoded;
* metrics: an accepted row is on file, and a summary is that of the rows.

## Modules

* `StateRecords`: records, tables, byte totals and `OrderedDict` order.
* `StateStore`: the abstract store. Each operation is one step on a table with
  a recency order; `Write` states eviction as "the fewest oldest records that
  make the rest fit". `Call` marks the start of a call.
* `MemoryStateStore`: the code of the class of that name. A call is `Begin`
  (put's checks before the lock), `Enter` (lock and lookup), then the step of
  its branch; `put` is `PutWrite`, one `EvictOne` per round of
  `_evict_to_limit`, and `PutReturn`. Local variables that survive a step
  (`previous`) are variables of the model, so that a missing lock would show.
* `MemoryStateStoreRefinement`: the refinement mapping to `StateStore`. The
  history variable `stable` is the table when the lock was last free; a call
  takes effect when its thread leaves the critical section.
* `CompareAndSwap`: the store with what each thread knows from its last answer.
* `LayoutStateManager`: several managers on one `StateStore` (an INSTANCE, whose
  `Get`, `Put`, `PutInvalid` and `Erase` are the store calls). `acquire` is
  split at its store calls and at `compute()`: `AcquireReset`,
  `AcquireLocalHit`, `AcquireMiss`; `Fetch`; `AdmitHit`, `AdmitReject`,
  `AdmitMiss`; `Compute...`; `Publish...`. `CallFails` is a store call that
  raises, before it took effect or with its answer lost; `PublishAbandoned` and
  `FetchAbandoned` are calls that time out and that the server carries out later
  (`LatePut`; `LateGet`, which makes a record the most recently used one);
  `StoreRestart` and `OutsideDelete` are what else may happen to the store. A
  state is named by the invocation it was computed for.
* `StateRpc`: `_request` on one side, `handle` and `_dispatch` on the other,
  with frames cut into header and payload, `StateStore` inside. A client may
  time out at any point and a server may be stopped at any point. A header is
  as long as its key, its metadata and a fixed rest: `RequestFits` for what a
  client sends, `AnswerFits` for the answer to get, which has no key but more
  besides. Which of put's header and the answer is the longer one depends on the
  key; only for keys shorter than about fifty characters is it the answer, and a
  record may be put that can never be fetched. The managers' keys are longer.
* `AgentGraph`: a graph's digest, its order by what it is, and the layouts of
  its agents, as functions.
* `GraphSpec`: `topological_order`, one step per edge and one per visited role.
* `TopologyTrace`: `load_topology_trace`, one step per line, with the steps of
  `GraphSpec` inside `GraphSpec.create`.
* `Benchmark`: processes of `run_gpu_benchmark.py`. It composes
  `LayoutStateManager` (one manager for every process and instance, whose
  actions are the steps of its `acquire`) with `AgentGraph` (`plan`). A turn of
  the loop is `StartAcquire`, `GoOn` for each step of acquire, and `Deliver`,
  which takes the state from the GPU or restores it, checks it and records the
  sample; or `AcquireRaised`. `Schedules` has the turns of all loops in a row.
* `Codec`: `encode`, the wire and `decode` as steps. `_pack` and `_unpack` call
  themselves for what a value holds; in the model each is a function on the parts
  of a value, defined by `PackStep` or `UnpackStep` from the results for the
  parts inside. `MaxNesting` bounds how deep a state is nested.
* `Metrics`: writers of one result file, with their buffers and offsets, and
  `summarize_result_file` as a step that may happen at any time. `Ordered` is
  `sorted`: every value at its `Rank`. (`MCMetrics` compares it with the library's
  sorting.)
* `MC...`: the instances TLC checks. `...Proofs`: theorems.

Definitions named "Faulty variant" are plausible mistakes in the definition
below them. No specification uses them; each shows that some property would
notice the mistake (`mutants` in `PROJECT.json`).

## Runs

| run | instance | shows |
|---|---|---|
| `store` | 3 keys, 2 threads, store of 2 bytes, payloads of 0 to 3 bytes, 3 puts | types, `BytesBounded`, `NewestSurvives`, `VersionsAdvance`, and that the store implements `StateStore` |
| `store_live` | 2 keys, 2 threads, 3 puts | `LockIsReleased` |
| `cas_aba` | 2 keys, 2 threads, store of 1 record, 4 puts | **violated**: a conditional put replaces a record its caller never read |
| `manager` | 2 managers of any of 4 configurations, 3 invocations, 1 local entry, store of 1 byte, 2 acquires each | `LocalCacheConsistent`, `ReuseRule`, `AccountsAddUp`, `ResetLeavesNoTrace`, `ServedStateIsHeld` |
| `computed_state_delivered` | as `manager` | **violated**: a computed state is lost when publishing it fails |
| `wrong_layout` | as `benchmark` | **violated**: under `whole_graph` a benchmark is handed, by the store, a state that another one published for another model |
| `rpc` | 2 calls of 14 kinds, 2 clients, keys, headers and payloads at their limits, timeouts, a server that may stop | `AnswerIsTrue`, `OnlyWholePuts`, `EveryCallEnds`, `HandlersEnd` |
| `errors_reach_client` | the same, server not stopped | **violated**: the error sent for a put whose payload is refused unread does not reach the client that is still sending it |
| `trace` | every file of up to 3 lines of 12 kinds; one-line files with every graph of 4 roles and every list of up to 3 edges of 3 roles | `OrderIsSound`, `CycleVerdict`, `DefectVerdict`, `OrderIsLeast`, `TraceVerdict`, `LoadEnds` |
| `benchmark` | 2 processes of 2 instances with 2 local entries each, store of 4 states, one restart; alone with 3 requests twice under each policy and placement, or 2 on one server with equal and with different arguments | `LocalHitIsOnGpu`, `ChecksFireOnlyAcrossSettings`, `PrefillsAreSaved`, `StableStaysLocal`, `RoundRobinCrosses`, `SummaryIsConsistent`, `EveryBenchmarkEnds` |
| `codec` | 8,559 values nested up to five levels deep, two devices | `RoundTrip`, `WireIsPlain` |
| `metrics` | one writer of 41 rows, one of up to 3 rows of 6 kinds, two writers of 2 rows | `RowsAreOnFile`, `OneWriterIsReadable`, `SummaryIsExact` |

Why the bounds are enough. Three puts on a two-byte store reach the case of one
put that evicts two records, replace a record, write an empty payload and
overflow the store; two threads are all that can meet at one lock and one
lookup. Two managers with two acquires each miss together, overwrite each other,
and find each other's states; one local entry makes every second state evict the
first; a store of one byte evicts on every second put and refuses the one state
that is larger. Two connections are a call and whatever overtakes it. Four roles give
every shape of cycle, diamond and chain short of width five. Three requests of
which two have one graph, listed in two ways, and two of which share a layout,
repeated once, bring every recurrence back on the same and on the other
instance, with local evictions (three layouts on an instance for two entries)
and without; five graph-scoped keys overflow the store of four. Forty-one rows
are where p95 is the largest, the second and the third largest value. `MaxPuts`,
`MaxAcquires`, `MaxRestarts`, the local cache of one or two entries (64 in the
code) and the set of connections are bounds of the model, not of the
code; `MaxPuts` is arbitrary in the proofs. So is `MaxNesting`, which in the
run is the depth of its deepest values, 5 (a dict that holds a tagged dict of a list
of a list of a cache); the code is bounded by Python's recursion limit.

The violated properties are what the repository says of itself and the code does
not do; `findings` quotes the lines.

1. Versions count within one stay of a key in the table. After delete or
   eviction they start at 1 again, so a reader of an old version 1 passes the
   check of a conditional `put` on the new version 1.
2. `acquire` publishes before it remembers and returns. A store that refuses the
   state (larger than the store) or fails turns a computed state into an
   exception; the same invocation without a store would have succeeded.
3. The `whole_graph` key names graph and role only. Models and template versions
   that share a server share keys. A manager has one model only, so this takes two
   processes: one publishes an agent's state, the other gets a remote hit for the
   same agent of the same graph.
4. The server refuses a payload that is too large unread and closes the
   connection while the client is writing. (What a client refuses itself, a header
   of its own that is too large or an answer it does not accept, its caller learns
   at once; the property leaves that out.)

## Fairness

* `MemoryStateStore!FairSpec`: weak fairness of the steps inside the critical
  section, per thread. Nothing in them blocks, so a thread that is scheduled
  takes them. Nothing is assumed about who gets the lock or that anyone calls.
* `Benchmark!BenchSpec`: weak fairness of each process. It never waits: the
  model returns or raises, and store calls answer or time out (`timeout_s`).
* `StateRpc!FairSpec`: weak fairness of the clients only, whose socket
  operations all have a timeout. The server may hang. `HandlersEnd` adds weak
  fairness of the handler threads as a premise.
* `TopologyTrace!TraceSpec`: the function runs.

## Proofs

All theorems hold for every value of the constants, under the assumptions the
modules name. They are of three kinds: finite sets of keys and invocations,
sizes in Nat, limits, and bounds that let every schedule end (`StoreAssumption`,
`ManagerAssumption`, `RpcAssumption`, `BenchmarkAssumption`); that `None` is
none of the values it stands beside (`NoneIsNoRecord`, `NoneIsNoState`,
`ThreadAssumption`, parts of `RpcAssumption` and `ScriptAssumption`); and what
earlier code has ensured: that roles are strings, which are comparable (numbers
here), and edges pairs of them, in calls of `create` (`GraphAssumption`) and in the
lines of a file that pass `from_mapping` (`FileAssumption`); that a script is a
list of rows whose times are numbers (`ScriptAssumption`); that a benchmark's
trace is a list of acyclic graphs (`TraceAssumption`: `create` accepts no other);
and that a state is nested values of the types it says, none of which contains
itself (`ValueAssumption`). TLC evaluates all of them in the runs.

`RecencyOrderProofs` has the lemmas on orders: what `MoveToEnd`, `RemoveFirst` and
`Tail` do to one without duplicates. How replacing one entry changes the byte
total is at the head of `MemoryStateStoreProofs`.

**The store.** `MemoryStateStoreProofs` proves `TypeCorrectness`, `ByteBound`,
`NewestRecordSurvives` and `VersionsOnlyAdvance`. None of these invariants is
inductive alone. `IInv` adds that the order lists the table's keys once each;
that the lock is held by exactly the thread inside; that a call under way passed
put's checks; that a lookup is still current when it is used (this is what the
lock is for); that the byte count is exact at *every* step and each payload fits
the store by itself; and that only an evicting put leaves the table overfull,
with its own record last. When the loop stops, either the bytes fit or one
record is left, which fits by itself: that is the byte bound. An overfull table
has a second record, so the newest is not the oldest: the branches of
`_evict_to_limit` that spare the excluded key are never taken.

`Refinement` is that the store implements `StateStore`. Its invariant
`StableInv` relates the table to `stable`, the one when the lock was last free:
they are equal, unless a put is evicting, and then n rounds of the loop have
dropped exactly the n oldest records of `stable` with the new one written, each
while it was overfull. When the loop stops, n is thus the *fewest* that make the
rest fit, which is what `StateStore!Write` asks for; all other steps inside the
lock are stutters or one abstract operation.

**The managers.** `LayoutStateManagerProofs` proves `TypeCorrectness`,
`CacheIsConsistent`, `OnlyReusableStates`, `StatsAddUp`, `ServedIsHeld` and
`ResetIsPrivate`. The reuse rule speaks of what is returned; what makes it
inductive is where states may *be*: in the store, in puts that are carried out
late, in local caches and in answers under way, a state is only found under the
key of its own graph and role or of its own layout (`SharedUnder`). Keys of the
two kinds never coincide, and each determines what its policy compares, so
whatever is found under a request's key may be reused for it, whoever put it
there. `FramesMatch` carries this through the steps of one acquire: the computed
state is that of the request, and a reset manager makes no store call.

**The server.** `StateRpcProofs` proves `TypeCorrectness`, `AnswersAreTrue` and
`PutsAreWhole`, for any number of calls. The invariant follows both ends of a
connection: the handler dispatches only after the client has sent everything,
with the whole payload in hand; before that it has done nothing; an ok frame is
sent only after the operation was carried out once, and says what it returned;
an error frame only if nothing was done, or a get whose answer does not fit its
header. A client believes a frame only when all of it has passed.

**Metrics.** `MetricsProofs` proves `WrittenRowsAreOnFile`,
`ReadableAtAnyTime` and `SummaryIsOfWrittenRows`: `write` flushes, so no row waits
in a buffer and a writer is always at the end of what it wrote; and while no two
writers had the file open at once, the file is what the one that opened it last
has written. A summary is therefore one of a list that some writer had written,
and stays one of a prefix of it while that writer goes on (`SummaryInv`). That its
figures are right is a fact about sorting by ranks: every rank is taken exactly
once (`RankIsOnto`), so as many values are at most the i-th one as there are
places up to the last with that value (`OrderedCounts`), and the least value that
covers 19/20 of the rows is the one at the rounded-up place
(`PercentileIsNearestRank`).

**The codec.** `CodecProofs` proves `StatesComeBack` and `WireHoldsPlainData`, for
every set of states and every depth. First the recursion: for a value whose
levels end, the equation of `_pack`, `_unpack` or `OnDevice` has exactly one
solution, and its value for a part is that for the part alone (`RunsExist`,
`OutcomeStep`), by induction on the depth and because a step reads nothing but the
results for what is inside (`StepIsLocal`). Then, by induction again, what `_pack`
accepts becomes plain data at most twice as deep and one level more, a string
standing only for itself (`PackProperties`); and what `_unpack` makes of it is the
value on the device if and only if no dict in it looks like one of the codec's
(`PackedComesBack`). A packed entry is never a bare tensor, so a dict of the
caller's with the tag of a tensor fails to load; one with another tag comes back
as a tuple or a cache. The machine's invariant `IInv` only says that these two
functions stand between the state and what is decoded.

**The benchmark.** `BenchmarkProofs` proves all invariants of `Benchmark`:
`BenchTypeCorrectness`, `HeldIsOnGpu`, `ChecksAreForSettings`,
`NothingIsPrefilledTwice`, `RecurrencesAreLocal`, `LayoutsCross` and
`SummariesAreConsistent`, for any number of processes and instances, all traces,
all combinations of command lines and any losses. A process's steps are steps of
the managers, so `BenchInv` starts from the managers' `IInv` and adds

* `SettingInv`, `SampleInv`, `TurnInv`, `ResultInv`: a process's managers have
  the policy of its command line; its samples are those of the first turns of its
  schedule; only the manager of its turn is at work, on that turn's invocation;
  and what was returned came from the key it names. The next parts rest on these;
* `GpuInv`, for `LocalHitIsOnGpu`, which says nothing about the time between a
  manager's return and the restoring: there the returned state, and no other, may
  be missing on the GPU;
* `OriginInv`, for the checks: a state found under a key was published by a
  process of the key's policy for a layout of its own. A state of another layout
  is therefore found only under a graph's key and from another model, and one
  with other tokens only from another prompt length;
* `SavedInv`, for `PrefillsAreSaved`: until the store loses a record, it has all
  that any manager holds and all that was ever sampled, so a miss is a state's
  first turn;
* `StableInv`, for `StableStaysLocal`: a cache with room for everything placed on
  it holds nothing else, so it never evicts, and has all that was sampled there;
* `CountInv`, for the summary: every counted decision is that of a sample, or of
  the state that is just being delivered.

`LayoutsCross` is about the schedule alone: what `Place` does to one agent of one
request in as many repetitions as there are instances. That flattening the
turns of all repetitions loses none is proved by taking the least counterexample
(`FlattenProperties`).

**Graphs and traces.** `TopologyProofs` proves `GraphTypes`,
`ReturnedOrderIsSound`, `CycleVerdictIsRight`, `DefectVerdictIsRight` and
`ReturnedOrderIsLeast` of `topological_order`. The invariant `GInv` says that
`indegree` counts the passed edges into a role whose source is unvisited, that
`ready` is exactly the unvisited roles with none, and that a visited role stands
after the sources of its edges. A role that is left when `ready` is empty has an
unvisited predecessor, so the roles that are left form a knot; conversely the
first role of a knot in a returned order would have a predecessor before it. That
the order is the least one needs `LeastChoice` besides: whenever a role was
visited, no lesser one had all its sources visited. A lesser order would, at the
first place where it differs, have such a role. So the order is the value of
`AgentGraph`'s function `topological_order`, which the benchmark's plans use
(`ReturnedOrderIsNamed`). That a graph without a cycle has such an order is proved
in `BenchmarkProofs` (`LeastOrderExists`).

`TraceVerdictIsRight` and `GraphsOfTraces` are about `load_topology_trace`, for
every file. `LoaderInv` says that the requests so far are those of the lines
passed, each at the place its line has among those that are not blank, all valid
and with ids of their own; and that an error was raised only for a line that makes
the file ill-formed. Inside `create`, `GInv` holds of the present line's graph,
whose acceptance and rejection are right by the theorems above.

Only model-checked:

* all liveness (`LockIsReleased`, `EveryCallEnds`, `HandlersEnd`, `LoadEnds`,
  `EveryBenchmarkEnds`): fairness is out of the prover's reach;
* that `Ordered` is the library's sorting, on bounded lists (`OrderedSorts`):
  the library's operator is recursive;
* the violated properties, of which TLC has counterexamples.

## Not modelled

* Digests: SHA-256 over canonical JSON is taken as injective.
* Requests that no client of the repository sends: an unsupported operation, an
  `expected_version` that is no number, or metadata that is no mapping. The last
  would raise at `store.py:88`, after the bytes of the record to be replaced were
  subtracted; `TcpStateStoreClient.put` passes a dict.
* A client whose host vanishes without closing its connection: its handler
  thread would wait for ever, having no timeout. `HandlersEnd` is about clients
  that end or give up.
* The attention implementation, which no key names either (as the prompt length,
  which is modelled): no check of a loaded state compares it.
* Metadata, creation times, timers and byte counters of the statistics: nothing
  decides on them except an admission rule, which is arbitrary in the model.
* Calls of one manager from several threads: the class has no lock, and the
  repository gives each manager to one thread.
* Malformed JSON in frames, and which text of a trace is JSON.
* Floating point. Times are integers in `Metrics`. `percentile` computes its
  rank from `fraction * len` in binary; for 0.95, the only fraction the code
  asks for, the product is never above the exact one and the rank is right, but
  for others it can be one too high (0.28 of 25 values). TLC has no floats.
* What two writers that have one result file open at once leave in it. `Metrics`
  has such writers, but they tear each other's lines in more ways than it has
  (rows differ in length); nothing in the code promises anything of the result, and
  the properties exclude it (`clash`). A file reopened by a second writer after a
  first one, and one read while it is written, are covered.
* Of a summary, `SummaryIsExact` compares the percentiles, the medians, the number
  of samples and the total of the decisions; not sums or means, the largest
  `payload_bytes`, and the count of each decision.
* A benchmark without `--server`: its store is its own, which is `Benchmark`
  with one process and no faults.
* Tensors, `torch.save`, model and tokenizer, the provenance of a summary,
  command lines; the demo, which is one pass of `plan` and `acquire`; the shell
  script that runs the suite.

## Plan

Every safety property that a passing run checks is proved. What is left is with
TLC for good: the liveness properties, whose fairness the prover has no rules for,
and the counterexamples of the violated ones.
