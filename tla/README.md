# Paladin Core: TLA+ models, checks and proofs

Paladin Core is a configuration centre: a key-value store with a global
revision, a watch (long-polling) interface on top of it, a Raft cluster that
replicates it, an HTTP server, and a client SDK that mirrors a namespace.  This
directory holds TLA+ models of those parts, translated from the Go source, the
TLC runs that check them on small instances, and proofs checked by TLAPS.

## The system

| part | source | state | operations |
|---|---|---|---|
| BoltStore | `store/bolt.go` | two bbolt buckets (entries, current revision), the revision cached in memory, a mutex | Put, Get, Delete, List, Rev, Close, NewBoltStore |
| WatchCache | `store/watch.go` | ring buffer of events, count, closed flag, mutex and condition variable, one timer goroutine per wait | Append, WaitForEvents, Len, Close |
| WatchableStore | `store/watchable.go` | the two above | Put and Delete = commit, then append; Close |
| HTTP server | `server/server.go`, `server/watch.go` | none of its own | config GET/PUT/DELETE/list, watch, rev |
| SDK client | `sdk/client.go` | the mirrored map, the last revision, callbacks, a cache file | New (full pull or cache), watch loop, OnChange, Get, Close |
| Raft FSM | `raft/node.go` | a WatchableStore per node | Apply, Snapshot, Persist, Restore |
| Raft node | `raft/node.go` | hashicorp/raft and the FSM | Apply, Join, Leave, LeaderHTTPAddr, RegisterPeerHTTP, WaitForLeader, Shutdown |
| Raft server | `server/raft_server.go` | none of its own | PUT/DELETE through Raft or forwarded to the leader, join, leave, stats |
| cluster start | `cmd/paladin-core/main.go` | none | join over HTTP, self-registration of the bootstrap node |
| load generator | `bench/`, `cmd/paladin-bench` | shared counters, a histogram per worker, a request counter per scenario | Setup, Step per worker, warm-up, rate limit, interrupt, merge, report |
| metrics, logger | `internal/`, `sdk/metrics.go` | counters, output | not modelled |

A write in standalone mode goes HTTP handler -> `WatchableStore` ->
`BoltStore`, then `WatchCache.Append`.  In cluster mode it goes HTTP handler ->
(forwarded to the leader's HTTP address) -> `Node.Apply` -> the Raft log -> on
every node `FSM.Apply` -> `WatchableStore`.  A watch is an HTTP request that
blocks in `WatchCache.WaitForEvents` on the node it was sent to.  The SDK lists
once, then polls for ever; it applies each response under the write lock of
`c.mu` and runs the application's callbacks in there.  The load generator is a
separate program that talks to the same HTTP interface.

What is hard in it: a condition variable with an ad-hoc timeout; commit and
event being two critical sections; responses that pair data with a revision
read later; a cache file saved before the revision it belongs to; replays of
the log over a store that already holds its effects; restores that are loops of
separate commits; a restore that bypasses the watch cache; callbacks that run
under the lock their callers use; leadership that moves while a request is being
handled.  The complete list, with lines, is under `hazards` in `PROJECT.json`.

What makes each part correct:

- BoltStore: the file is what the committed mutations say, and a revision is
  never used twice, across failed commits and restarts.
- WatchCache: a call returns exactly the retained matching events in order; no
  wakeup is lost; every call ends.
- WatchableStore: the window is the most recent part of the history.
- SDK: the map is the updates received, in revision order; a pull or a poll skips
  an update only for reasons that can be named; the loop keeps catching up.  A reader sees
  whole batches, a callback is told everything once and in order, every call
  returns, and after `Close` nothing moves.
- FSM: the log determines the store; replays and partial restores do no harm,
  and a node's events stay in step with its store and its revision.
- Raft server: an answer is what the log says, as far as the answering node's
  store could commit it; a request is applied at most once; a request that may be repeated was not applied; everybody is answered.
- Load generator: the report accounts for the requests of the window and for
  nothing else, its latencies are those of the samples, and the run ends.

## Modules

| module | models | composes |
|---|---|---|
| `StoreOps` | entries, events and the pure operations on them | |
| `BoltStore` | `store/bolt.go` | `StoreOps` |
| `EventWindow` | abstract specification of the watch cache | `StoreOps` |
| `WatchCache` | `store/watch.go`; refines `EventWindow` | `StoreOps`, `EventWindow` |
| `WatchableStore` | `store/watchable.go` | `BoltStore` |
| `SDKClient` | `sdk/client.go` with `handleList` and `handleWatch` | `WatchableStore` |
| `RWMutex` | Go's `sync.RWMutex` (external) | |
| `ClientLoop` | `sdk/client.go` seen by the application: lock, callbacks, readers, `Close` | `RWMutex` |
| `FSM` | the FSM, snapshots, recovery and watch events of `raft/node.go` | `StoreOps` |
| `RaftServer` | `server/raft_server.go`, `Node`, `runCluster` | |
| `Hist` | `bench/hist.go` | |
| `LoadRun` | `bench/load.go`, `counters.go`, `scenarios.go`, the interrupt of `cmd/paladin-bench` | `Hist` |
| `BoltStoreProofs`, `WatchCacheProofs`, `WatchableStoreProofs`, `SDKClientProofs`, `ClientLoopProofs`, `FSMProofs`, `RaftServerProofs`, `LoadRunProofs` | theorems about the module of that name | the module, `TLAPS` |
| `MC...` | instances for TLC | |

A definition whose comment begins with "Mutant of" is not part of a
specification: it is a plausible wrong version of the definition that follows
it, kept to show that some property tells them apart.

### How state and actions correspond to the code

**BoltStore.**  `data` and `meta` are the two buckets on disk, `rev` is `s.rev`,
`open` says that a process has the file open.  Every operation holds `s.mu`, so
each is one action.  `s.rev` is assigned inside the transaction closure, before
bbolt commits: `PutCommitFails` and `DeleteCommitFails` are the writes whose
commit fails, after which the buckets are rolled back and `s.rev` is not.
`Close` is also a crash: nothing else survives.  `hist` is a history variable,
the committed mutations.

**WatchCache.**  `buf`, `count`, `closed` are the fields.  A pass of the loop in
`WaitForEvents` runs under `wc.mu` and is one action, except between starting
the timer goroutine and `cond.Wait`: there the timer may broadcast, since it
does not take the lock.  `Arm` and `Wait` are the two halves and `mu` is the
lock held in between.  `pc` says where a call is; "waiting" is the condition's
notify list.  `expired` is the clock, `timer` the goroutine of the current
wait, and `stray` stands for goroutines of earlier waits whose `select` may
still pick the timer although `done` is closed.

**WatchableStore.**  A writer's commit (`WatchablePut`, `WatchableDelete`) and its
append (`AppendPending`) are separate actions; `pend` is the event in between.
The ring appears as the sequence `window`, which `WatchCache` implements.
`floor` is a history variable: everything up to it was evicted or belongs to
an earlier process.  `Writers` has one element in cluster mode (the FSM
goroutine) and several in standalone mode (HTTP handlers).

**SDKClient.**  `cpc` follows `New` and `watchLoop`.  Both handlers read twice,
first entries or events, then `Rev()`; they are two actions each
(`HandleList`/`FullPull`, `WaitForEvents`/`WatchRespond`), and the second also
does what the client does with the response, up to its next externally visible
effect.  `SaveToCache` and `Adopt` are separate because the process may die in
between.  An error status of a watch request is a JSON body that decodes to no
events and revision 0, which changes nothing: `WatchFails`.  `seen`, `range`
and `delivered` are history variables.  Keys of the namespace are `Watched`.

**FSM.**  `log` is what hashicorp/raft has committed (external).  Each node has
its own file and its own position `applied`.  `NewNode` reopens the file, restores
the latest snapshot and starts again from there; `high` remembers how far the
node had been.  `InstallSnapshot` is a snapshot sent by another node.  The
`...Fails` actions stop the restore loop at a key, or lose one commit.  `window` is
the node's watch cache: `Apply` goes through the `WatchableStore` and adds an
event, `Restore` goes to the embedded `BoltStore` and adds none, a new process
starts with an empty one.  The history variables say which nodes a property
leaves out: `damaged` ones missed a commit, `overlaid` ones were sent a
snapshot over existing data, `installed` ones were sent any.

**ClientLoop.**  The same loop as `SDKClient`, split where it takes and releases
`c.mu` instead of where it talks to the server; `lpc` is where it is.  `RWMutex`
has the two halves of `Lock` (announce, then wait for the readers) because a
reader that arrives in between blocks, which is what can turn a second `RLock`
into a deadlock.  `call` is what an application goroutine is doing; a read copies
the keys one at a time.  `applyEvents` is `ApplyLock`, `ApplyEnter`, one
`ApplyEvent` per event, one `RunCallback` per callback, `ApplyUnlock`.  `Reenter` is
a callback that calls `Get`, `GetAll`, `OnChange` or `Close`: it leaves the loop
"stuck", waiting for itself.  A poll ends in a transport error (backoff), a body
that does not decode (no backoff), a refusal (`timeout=0`; the JSON error decodes
to an empty response) or an answer with up to two events.  `applied`, `views`,
`regAt`, `notified`, `closed` and `failed` are history variables.

**Hist, LoadRun.**  `Hist` translates the histogram: buckets, counts, sum, minimum
and maximum; the loop of `Percentile` is the smallest bucket whose cumulative count
reaches the rank.  In `LoadRun`, `wpc` is where a worker is, `mpc` where `Run` is.
Between a response and its entry in the histogram a worker takes three steps
(filters and `AddStatus`, `Observe`, the loop's condition), with the end of the
run or an interrupt possible before each.  Time is two phases: `measuring` is
"after `measureStart`".  A latency is chosen with the outcome of a request.
`reads` and `answered` are history variables.

**RaftServer.**  One request per client, and one per node for its registration.
`pc` is the handler: "handle" (before `IsLeader`), "apply" (before
`Node.Apply`), "wait" (on the future), "done".  `at` is the node that handles it,
which a forward changes; `ans` is what the sender was told.  `leader`,
`members`, `log`, `proposed` and the actions `Elect`, `StepDown`,
`CommitEntry`, `ApplyEntry`, `LearnLeader` are hashicorp/raft (external): the
real leader's proposals commit in order, an election keeps a prefix of them,
and a deposed leader keeps believing until it steps down, which fails the
futures that have no result yet.  A leader that removes itself with `Leave`
stops leading in the same way.

Each node applies the log to a store of its own, of which the model has the keys
it holds and `s.rev`, counted from the node's revision at the start (`keys`,
`rev`; `Base` says in which data directories the clients' key was there at the
start).  `FSMApply` is `FSM.Apply`: `ApplyFails` is a commit that fails, after
which `s.rev` is raised, the key unwritten, and the log moves on; `failed`, a
history variable, remembers it.  The result goes to the future of the request
that waits at this node (`result`): no error, key not found, or a store error,
with the previous entry and the revision.  `Node.Apply` returns the error, and
`Respond` answers 500, 404, or the result.  `LeaderHTTPAddr` reads the node's own
store, so a registration whose commit failed at a node is not known there.
`LostStatus` is the other error path, a future that fails itself.

Not in this module: restarts (`fsm_restart` shows that a restarted node, and so a
restarted leader, answers larger revisions), an unexpected response type, an
unknown operation, and an entry that does not decode (no caller produces them).

### Abstractions

Keys, values and addresses are opaque; a prefix is the set of keys that have it.
JSON and big-endian encodings of the store's own data round-trip and are left
out, as are metrics and logs.  Revisions are natural numbers: `uint64` cannot
overflow at one write per revision.  A bbolt transaction is atomic: a failed
commit changes nothing in the file (external).

## Runs

| run | instance | shows |
|---|---|---|
| `watch_cache` | 2 watchers, ring of 2, 3 appends | refinement of `EventWindow`, `NoMissedWakeup`, and three liveness properties |
| `watchable_store` | 1 writer, 2 keys, 2 values, window of 2, 6 revisions | the store: `RevisionDiscipline`, `DataMatchesHistory`, `LifeOfKey`, `CommittedRevisionsGrow`; the window: `WindowIsRecent`, `PrevEntryChains` |
| `sdk_client` | 1 watched and 1 other key, window of 2, 3 revisions, 1 crash of the client, any number of the server | `ViewMatchesDelivered`, `LossesExplained`, `CursorCatchesUp` |
| `sdk_loop` | 2 keys, 2 application goroutines, 1 callback that may call back, 2 events, poll timeouts 0 (the default) and 500 ms | `ReadsAreWholeBatches`, `CallbacksMissNothing`, `QuietAfterClose`, `CallsReturn` |
| `fsm` | 2 nodes, 2 keys, log of 3, window of 2, 1 restart, 1 failed commit | `LogDeterminesStore`, `ReplayIsHarmless`, `OnlyDeletedKeysLinger`, `RevisionNotBehind`, `EventsNotAhead`, `EventsTellTheStore` |
| `raft_server` | 2 nodes, 1 client request, 2 registrations, 2 elections, 1 failed commit; the bootstrap node's data directory holds the key, the other is empty | `AnswerMatchesLog`, `AtMostOnce`, `RetryIsSafe`, `RequestsAnswered` |
| `bench` | 2 workers, the 3 scenarios with and without a rate limit, 3 buckets, 4 outcomes, up to 3 requests | `ReportAddsUp`, `LatenciesMatchSamples`, `MixIsExact`, `RunEnds` |

Why the bounds are enough to be interesting: six revisions allow a key to be
created, updated, deleted and created again with a failed commit in between, and
evict from a window of two; three appends overflow a ring of two, so that every
slot is reused; two watchers are enough for one to steal a wakeup meant for the
other; a log of three with a restart allows a snapshot in the middle of a replay
that is then handed to another node; two elections depose a leader that still
handles requests; two events make a batch in the middle of which a reader or a
registration can come, and two goroutines let one wait for the lock that the
other wants to share; three requests of two workers fill a cycle of the mix and
put samples of both workers into one histogram, overflow included.  `MaxRev`,
`MaxCount`, `MaxCrashes`, `MaxLog`, `MaxRestarts`, `MaxFailures`, `MaxElections` and
`MaxSteps` are the only bounds.  In `fsm` and `raft_server` the bounds end every
behaviour, `LoadRun` ends by itself, and in `ClientLoop` a callback that calls
back is a deadlock the code has, so deadlock is not checked there.
The safety properties of `bench` were also checked once with four requests and
five outcomes (1.3 million states).
The run `raft_server` has one client request, beside the two registrations; that
answers stay true when several clients write the key one after the other rests on
the theorem, which bounds neither the requests nor the failed commits.

Symmetry is used in the runs that check only safety, and only over sets whose
members no definition tells apart.

### Fairness

- `WatchCache`: a runnable goroutine runs (weak fairness of `Wait`, `TimerFire`),
  time passes (`Deadline`), and Go's mutex, which hands itself over to a waiter
  that has starved for a millisecond, is fair to each waiter (strong fairness
  of `Pass`).  Neither `Append` nor `Close` nor a new call is assumed to come.
- `SDKClient`: the loop has no exit other than `Close` and retries every failed
  request, so its own steps are weakly fair; that one of infinitely many polls
  gets its response is strong fairness of `WatchRespond`.  Nothing is assumed of
  writers, crashes or the server.
- `ClientLoop`: goroutines run and a poll ends, since the HTTP client has a
  timeout (weak fairness of the loop's steps and of the steps of each call);
  Go's mutex hands itself over to a writer that has waited too long (strong
  fairness of `OnChangeLock`).  Nothing is assumed of the server's answers.
- `LoadRun`: goroutines run, time passes, and a request ends, since the HTTP
  client has a timeout.  Neither a tick nor an interrupt is assumed to come.
- `RaftServer`: handlers run, and raft commits and applies while it has a
  leader.  Elections and failed commits are not assumed; `RequestsAnswered` speaks of
  behaviours in which the leadership eventually settles.

### Where the code and its documentation disagree

Each of these runs has one property, taken from a sentence of the repository,
which TLC refutes on the model:

| run | sentence | what happens |
|---|---|---|
| `watch_timeout` | `store/watch.go:74`: blocks until events "or until the timeout expires" | the timer broadcasts between its start and `cond.Wait`; the call sleeps until the next append or close |
| `watchable_standalone` | `store/store.go:26`: "everything with Revision > N" | two writers commit in one order and append in the other; a poll in between returns the later event only, and the next poll starts after it |
| `sdk_empty_poll` | `docs/series/03-watch-ring-buffer.md:99`: a timeout erases nothing | `Rev()` is read after `WaitForEvents` returned; the client adopts the revision of a write it was not given |
| `fsm_restart` | `docs/series/04-raft-fsm.md:107`: a restarted node is back at its revision | the log is replayed over the file that already holds its effects, and every replayed put takes a new revision |
| `sdk_no_backoff` | `README.md:245`: "serialization errors with constant-backoff retries"; `docs/day6.md:61` | a body that does not decode, and a poll refused because its timeout is below a second, are followed by the next request at once |

Smaller disagreements noticed while modelling, without a run: a failed commit
has raised `s.rev` and a restart loads the older one, where
`docs/series/01-revision-kv-store.md:99` says that a restart does not move the
revision back (no committed revision is reused: `CommittedRevisionsGrow`);
`raft/node.go:346` says that `Restore` replaces the FSM state, but keys the snapshot
does not hold stay (`OnlyDeletedKeysLinger` says which); DELETE events
carry no `PrevEntry` (`store/watch.go:33` says it is nil for creations); the SDK
never pulls again after it fell out of the window (`README.md:361` says it must)
and `New` never returns an error for a broken cache (`README.md:362`); a failed
forward is answered 400 where `docs/day5.md:67` says 502; `X-Forwarded-By` is
set but nothing reads it (`docs/day5.md:61`); `Node.Apply`'s own leadership check
can still surface as a 500 (`docs/series/05-forward-consistent-read.md:42`); a
join whose second half fails leaves a voter without an HTTP address for good
(`server/raft_server.go:164` calls that state brief); a store write that fails is
returned in the `OpResult` and the node goes on with the next entry
(`raft/node.go:313`), where `README.md:264` says that the apply loop stalls.  After
the 500 that a client gets for such an entry, the other nodes may hold the write.

## Proofs

The theorems hold for all values of the constants that satisfy the assumptions
of the modules, which TLC evaluates on every run: `NoEntry` is neither an entry nor
a value, `NoEvent` not an event, `Zero` not an appended event, `Free` not a watcher,
the other placeholders (`Absent`, `NoNode`, `AnyKey`, `Nobody`, `Loop`) are not members of
the sets they stand beside, watched keys are keys, the FSM's keys are ordered as
bbolt's are, the bootstrap node is a node, neither a client nor the clients' key is one, the capacity is
positive, the bounds are naturals, the benchmark has finitely many outcomes, all of them faster than `MaxUint64` nanoseconds (a Go duration is a signed
64-bit number), and at least one worker (`Run` raises a concurrency below one to
one, `bench/load.go:62`).  Sets of keys, values, watchers, writers, nodes, requests and
callbacks are arbitrary.  Four theorems, `WindowIsRecentHolds`, `PrevEntryChainsHolds`,
`ViewMatchesDeliveredHolds` and `LossesExplainedHolds`, have the hypothesis
`SingleWriter`: there are no two writers, as in cluster mode, where the FSM goroutine
is the only one.  With two the first is false (`watchable_standalone`).

- **BoltStoreProofs.**  `BoltInv` = `BoltTypeOK`, `HistoryBelowMeta` (no committed
  mutation is newer than the file's revision), `RevisionDiscipline` and
  `DataMatchesHistory`.  `HistoryBelowMeta` is what makes it inductive: it is why the
  next write, numbered above `rev >= meta`, is the latest of its key even right
  after a restart moved `rev` back.  From it follow `RevisionDisciplineHolds`,
  `DataMatchesHistoryHolds` and the action property `CommittedRevisionsGrowHolds`.
  `LifeOfKeyHolds` adds that the history is finite, since `Version` is a
  cardinality.
- **WatchCacheProofs.**  `Inv` = `TypeOK`, `LockHeld` (the watcher between `Arm` and
  `Wait` is the one that holds the lock) and `NoMissedWakeup`.  `LockHeld` is what
  keeps `Append` and `Close` away from the gap.  `AppendIsPush` shows that
  writing slot `count % Capacity` and moving `Oldest` is a push onto the window;
  with it every step maps to a step of `EventWindow` or to a stutter
  (`RefinementNext`), and `Refinement` is `Spec => ImplementsEventWindow`.
- **WatchableStoreProofs.**  `WatchableTypeCorrect` needs no assumption on the
  writers.  `WindowInv` = `BoltInv`, `WatchableTypeOK`, `floor <= meta` and
  `WindowIsRecent`; an append that evicts raises the floor to the evicted event's
  revision, which by the order of the window removes that event alone.
  `PrevEntryChains` is not inductive alone: `ChainInv` adds that the latest event of
  each key in the window leaves what the store holds, except for the key whose
  write is committed but not yet appended, and that this pending event leads on
  from the window.
- **SDKClientProofs.**  `SDKTypeCorrect` for any writers.  `ClientInv` = `SDKTypeInv`,
  `WindowInv` and `MirrorInv`; the last says, for each place that holds a view (the
  client, its cache file, a list on the way), which committed mutations that view is
  the replay of, that each of them is at or below the cursor, below the window's
  floor or still in the window (so that a later answer repeats events only in
  order), and that a batch or a list on the way leaves out nothing of its range of
  revisions.  From it follow `ViewMatchesDelivered` and `LossesExplained`.  The latter
  speaks of the steps that move the cursor over mutations above it: a full pull
  steps over what was committed between its `List` and its `Rev()`
  (`server/server.go:228`), a poll over what had left the window or was appended after
  `WaitForEvents` returned.  It does not speak of a mutation committed at or below
  the cursor, which happens when a client adopted the revision of a failed commit
  and the server restarted and used it again.
- **ClientLoopProofs.**  `LoopTypeInv` needs `CountInv` (revision and applied changes go
  together, except while a batch is being applied).  `LockInv` is the lock's
  exclusion; with `ReadInv` (what a reader inside the lock has copied is what the map
  holds, and outside the writer's section the map is that of whole batches) it gives
  `ReadsAreWholeBatches`.  `CallbackInv` = `LoopTypeInv`, `LockInv`,
  `RegInv` (each callback is registered once) and `ToldInv` (a callback still to run
  for the current event is one change behind what is due to it, the others none)
  gives `CallbacksMissNothing`.  `QuietAfterClose` rests on `QuietInv`: closed means
  the loop has exited.
- **FSMProofs.**  `ShapeInv` has the types, that files and snapshots hold finitely many
  keys, and that a snapshot is not ahead of its node.  `EventsInv` (the window is in
  revision order, not above the store's revision, and tells what the store holds unless a
  snapshot was installed) gives `EventsNotAhead` and `EventsTellTheStore`.  `LogInv` says
  that the set of operations on a key has a least and a greatest element, so that the
  reference definitions are what they look like; with it `LogDeterminesStore` is
  inductive.  `ValuesInv` (files and snapshots alike hold, key by key, what the log said
  at some index of a range, or a key deleted in that range) gives `ReplayIsHarmless` and
  `OnlyDeletedKeysLinger`; it speaks of snapshots because either may be put over the
  other.  `RevisionInv` gives `RevisionNotBehind`: the delete that changes nothing is the
  step that could fall behind, and outside a replay the log has no such key either.
- **RaftServerProofs.**  `ServerInv` = `RSTypeOK`, `RequestInv` (where a request is in its
  life decides how often it may be in the log or among the proposals), `StoreInv` and
  `AnswerInv` (a final answer is that of an applied log entry of this request).  From it
  follow `AtMostOnce`, `RetryIsSafe` and `AnswerMatchesLog`.  `StoreInv` says that the
  keys and the revision of each node are what the applied part of the log makes of
  them without the entries whose commit failed there, and that a result in a future
  is true of its entry.  The reference (`Present`, `Changes`, `RevAt`) looks at the log
  alone and not at the stores; `MeaningStable` shows that later entries and failures
  do not change what an index means, `MeaningNext` what one more entry adds.
- **LoadRunProofs.**  The type invariant needs `BudgetInv`: the requests begun and the
  workers about to begin one never exceed the bound by a request per worker.  `MixInv`
  writes the counter as whole cycles and a rest, and says how many reads the rest has.
  `ReportInv` = `LoadTypeInv`, `GateInv`, `StatusInv` (what was met is counted or its worker
  is about to count it), `SamplesInv` (every counted status has its sample or its worker
  is about to take it) and `ResultInv`; together they give `ReportAddsUp`.
  `SampleInv` gives `LatenciesMatchSamples`: there is a number of samples of each outcome
  such that the merged histogram is the one of these samples, and these samples with
  the responses still on their way into a histogram are requests that met the outcome
  (`LatencyInv`).  It rests on `TotalObserve`, an observation of one worker is one of the
  merged histogram, and on `PercentileRight`, the bucket of a percentile is the bucket
  of the sample of that rank.  The property defines a percentile without a rank, as
  the smallest latency that the given share of the samples does not exceed;
  `RankIsShare` shows that the rank the code computes selects it.

Recursive functions and the folds of the community modules are reasoned about
without an induction theorem: a function is shown to be a run that satisfies its
step equation, and a property of it holds because a least natural number, or a
smallest set of a family of finite sets, at which it fails would not be least
(`LeastNatural`, `SubsetInduction`, `SinceIsRun`, `TotalIsRun`).

Only model-checked: the liveness properties (`EventsAreDelivered`,
`CloseReleasesWatchers`, `TimerWakesSleeper`, `CursorCatchesUp`, `CallsReturn`, `RunEnds`,
`RequestsAnswered`), since fairness is beyond the prover.  Every safety property of a
passing run is also proved.  The properties proved in `BoltStoreProofs` are checked by
`watchable_store`, whose store is a `BoltStore`.

## Not modelled

Metrics and logging (nothing in the system reads them); the benchmark's Markdown
report, environment description and result files; the CLI (one store call per
process); flags and routing; parsing of paths and queries and the 4xx answers
to malformed requests, except the refused poll timeout; the Raft protocol
itself, its log store and transport (hashicorp/raft, external); time as a
quantity: a timeout is an event that may come at any moment, a latency a value.
The throughput of a benchmark report (count over measured seconds) is a
quotient of such times and is left out.  `ClientLoop` and `SDKClient` are two views
of the same loop and are not composed: the one has the lock and the callbacks,
the other the server, the cache file and crashes.

## Plan

Done: the store, the watch cache and its abstract specification, their
composition, the client's view of it, its lock and callbacks, the FSM with the
events of each node, the Raft server, the load generator; the theorems above.
Next, in this order:

1. An abstract specification of the client's mirror, and of the replicated
   register behind `RaftServer`, with refinements and their proofs.
2. Membership left over by a join that failed halfway, and leaving nodes.
