# A TLA+ verification of rpcrouter

rpcrouter is a JSON-RPC gateway written in Rust on tokio. A request names a chain; the gateway
picks one of the chain's public endpoints, fails over to others, hedges slow reads, folds
concurrent identical reads, caches answers, and keeps score of every endpoint's health. Chains
come to life when they are asked for and go to sleep when nobody asks; a scanner enables chains
whose endpoints prove good; operators pin, disable and edit; all of that outlives a restart.

This directory holds TLA+ modules that model it, TLC configurations that check small instances,
and TLAPS proofs that hold for every value of the constants. Paths below are relative to the
repository; `registry.rs` stands for `src/registry.rs` and so on. `PROJECT.json` maps every
definition to the lines it stands for.

## 1. The system

| Component | State | Operations | Talks to |
|---|---|---|---|
| Endpoint health (`registry.rs` 27-600, `signals.rs`) | `HealthState` behind a mutex, `probing` flag, permits and tokens | `try_acquire`, `record_success`, `record_failure`, `record_degraded`, `begin_probe`, `end_probe`, `state`, `cool_for`, `reset_health`, `restore_health` | called by the forwarder, probe workers, the administrator, the chain-list refresh, every reader |
| Endpoint pool (`registry.rs` 780-850, 1160-1420, 1560-1640) | `ChainState.endpoints`, `rejected`, endpoint overrides, dirty marks, `restored_health` | `merge_chain`, `set_endpoint_override`, `remove_endpoint`, `apply_overrides`, `take_dirty`, flush | refresh, administrator, probes, requests, store |
| Hedge gate (`hedge.rs`) | two atomic counters | `record_primary`, `try_acquire` | forwarder |
| Response cache (`cache.rs`, `classify.rs`) | moka caches, `DashMap` of flights | `lookup`, `insert`, `clear`, leaders' `complete_*` and `Drop`, followers' `wait`, the plan of a request | `execute_raw` in `forward.rs`, administrator, the head of the chain |
| Forwarder (`forward.rs`) | locals of each request | `execute_raw`, `execute_uncached`, `try_fallback` | cache, hedge gate, registry, endpoints |
| Chain lifecycle (`registry.rs` 640-2200) | `chains`, `activation_locks`, `runtime_pinned`, `auto_pinned`, overrides | `resolve_for_request`, `materialize`, `demote`, `housekeeping`, `set_pinned`, `set_disabled`, `set_auto_pinned`, `apply_snapshot` | server, administrator, auto-enable, background loops, probes (broadcast of activations) |
| Probe scheduler and archive probes (`probe.rs`) | due times, bounded queue, set of keys, depth | kicks, due probes, workers, archive reads | registry, endpoints |
| Failure signals (`signals.rs`) | none | `classify_response`, archive and trace classes | forwarder, probes, scanner |
| Auto-enable (`autoenable.rs`) | progress of candidates, cursor | rounds of probes, `promote`, `preheat` | registry, store |
| Admin plane (`admin.rs`) | ten-second copies of the public pages | chain and endpoint commands, import, reset, manual refresh | registry, store, cache, chainlist |
| State store (`state.rs`) | memory, file, Redis, or Redis over the file | put and get of overrides, health, hot chains, auto-chains; export, import, reset, reconnect | main loops, administrator, auto-enable |
| Chainlist (`chainlist.rs`) | ETag and last catalog, `refreshing` flag, cache file | fetch, check, fall back, refresh | registry, store |
| Ingress guard and server (`guard.rs`, `server.rs`) | semaphore, gauge, rate limiters | admit, refuse, one call, batches | forwarder, registry |
| Configuration (`config.rs`) | `Config` | load, environment, normalise, validate | `main.rs`, then every part |
| Start-up, loops, shutdown (`main.rs`) | the connection's state | boot, flush, reconnect, refresh, drain | everything |
| Supervisor, metrics, mock upstream, load test | backoff; counters | restart after a panic; count; test doubles | |

What is hard in it: everything runs in tokio tasks that share state through `Arc`s, atomics
and concurrent maps, with few locks held across steps. A label is read, a lock is awaited, a
field is exchanged; a future may be dropped at any await; an `Arc` of a state that left the map
is still written to; Redis and a file are written one after the other, and either may fail. What
makes each component correct:

- *health*: upstreams' wishes (Retry-After) are kept until an operator or a refresh writes over them, a burst of failures is one strike, only
  consecutive successes bring an endpoint back, and it does come back;
- *pool*: whatever races for it, it ends as the overrides ask, and no change of health is lost
  between a dirty mark and a flush;
- *hedge gate*: hedges stay within their share of the primaries under lock-free concurrency;
- *cache*: a flight always has a leader that ends it, followers always wake up, and what is kept
  for good is final;
- *forwarder*: no permit is lost, no error while an attempt may still answer, the paid endpoint
  comes last;
- *chain lifecycle*: one activation at a time, no demotion of a chain just used, flags and
  endpoints that a race spoiled are repaired;
- *probes*: no endpoint is queued twice or forgotten, verdicts about archives are true;
- *auto-enable and operators*: a choice by hand comes before auto-enable, what memory has the
  store has too, a chain that stays qualified is enabled, and what qualifies it is honest;
- *store*: what was acknowledged is kept through failures, reconnects and crashes;
- *chainlist*: an empty or halved list is not believed, the newest one arrives in every copy;
- *ingress*: permits come back whoever goes when, each item of a batch is answered in its place;
- *configuration*: the word that is nearest wins, over file, list and variables, and what runs was validated with it.

## 2. The modules

| Module | Models | State in the module and in the code |
|---|---|---|
| `EndpointHealth` | one endpoint, driven by requests, probe workers, the administrator, imports, refreshes, readers | `health` = `HealthState`; `probing` = the flag; `stored` = what `restored_health` has of it; `request`, `worker` = where each task is and the instant it read; `streak`, `pause` = history |
| `EndpointPool` | the endpoints of one chain that stays awake | `pool` = `ChainState.endpoints` by URL, each an object of `object`; `override` = `runtime_endpoint_overrides`, `disk` = the store, `restored` = `restored_health`; `operator`, `sync`, `refresh`, `probe`, `record`, `flush` = where each task is and what it read before its await |
| `HedgeBudget`, `HedgeGate` | the abstract gate (one atomic decision) and the lock-free one (an action per atomic operation) | `primaries`, `hedges`; `attempt[r]` = what a caller loaded; the weak exchange may fail for no reason |
| `SingleFlight` | one cache key: lookups, flights, clear, expiry | `entry` = the cached answer, `flight` = the map's entry, `result` = `Flight.result`, `caller` = each task, split at every await and every lock |
| `CacheTiers` | which answers are kept for good, on a chain that grows and is reorganised | `head` = the registry's, `height` = each endpoint's, `asked` = the request with its plan, `kept` = the immutable tier; `outvoted` = history: no liar decided the head |
| `Forward` | `execute_uncached` and `try_fallback` of several requests | `request[r]` = the function's locals, `busy` = permits per endpoint, the gate's counters through `INSTANCE HedgeBudget` |
| `ChainLifecycle` | one chain: activation, demotion, pins, disabling, refresh | `chain` = the `ChainState` in the map, `lockMap` = its entry in `activation_locks`, `runtimePin`, `autoPin`, `task` = each task and the `Arc`s it holds |
| `AutoEnable` | pins, disabling and auto-enabled chains: operators, the scanner, the store, imports and resets, the reconnect, restarts | `disk` = the document of the store, `overrides`, `runtimePin`, `autoPin` = the registry's maps, `place`, `pinned`, `disabled` = each `ChainState`, `call[t]` = a task's `resolve_for_request` under way, with the pin it read, `op[o]` = a request of the administrator between its awaits, `scan`, `rounds`, `cursor` = `run_once` and `ScanState`, `sync` = the reconnect loop; `wish`, `overtaken` = history |
| `StateStore` | `ResilientStore` over Redis and the state file, await by await | `redis`, `connected` = is `primary` Some, `local` = `FileStore.inner`, `path`, `temp` = the two files, which may be torn; `owed`, `reached` = history |
| `ProbeScheduler` | the scheduler task, the bounded queue, the workers | `due` = due times, `kicks` = the broadcast channel, `queue`, `queued` = the set of keys, `depth` = `queue_depth` |
| `Signals` | `classify_response` and the classes of archive and trace reads | bodies are named for the first thing the code tells them by |
| `ArchiveProbe` | the reads of an archive probe and its verdict, against an upstream that is honest but fails | `status` = `archive_status`, `probe` = the locals; `node`, `empty` = the truth |
| `CandidateProbe` | the probes of one candidate and their verdict, against wrong endpoints | `task` = each spawned task; `round` = the `ProbeRound`; `kind` = the truth |
| `ChainlistRefresh` | the loader, the refresh loop, the manual refresh | `loader` = `LoaderState`, `disk`, `stored`, `catalog`, `merged` = the copies, `flag` = `refreshing` |
| `Ingress` | body limit, semaphore, handler, batches, signal and drain | `permits`, `inFlight`, `request[r]` = where the future is |
| `Config` | defaults, file, environment entry by entry, validation | `config` = the `Config` under construction, `stage` = where `main` is, `listed` and `left` = where the loops of `apply_env_overrides` are |
| `Parts` | the nine parts that share no state (the gate, `SingleFlight`, `Ingress`, `ProbeScheduler`, `ArchiveProbe`, `CandidateProbe`, `ChainlistRefresh`, `CacheTiers`, `Config`) side by side | an instance each, with constants, assumptions and variables of its own |
| `EndpointHealthProofs`, `EndpointPoolProofs`, `ForwardProofs`, `ChainLifecycleProofs`, `AutoEnableProofs`, `StateStoreProofs` | the theorems about the module of the name | |
| `ServingProofs`, `UpstreamProofs` | the theorems about `Parts`: those that serve requests (gate, folding, ingress), and the others | |
| `MC*` | the instances for TLC | model values, symmetry; `MCParts` runs one of the parts in `Chosen` |

How they compose. `Forward` uses `HedgeBudget` for the gate, and `HedgeGate` is shown to
implement that budget, so the one atomic step in `Forward` stands for the loop of loads and
exchanges. What an endpoint does with an attempt is any choice in `Forward`; `EndpointHealth`
has the other side, where requests come and finish at will. `ChainLifecycle` treats the pool of
endpoints as there or not there, `EndpointPool` treats the chain as awake. `AutoEnable` is the
other half of the registry: many chains, with the tasks that command them and the store they write to
first. A call of the registry is one step there, but for `resolve_for_request`, which reads the pin, waits
for the lock and installs the state in steps of its own; the refresh of the chainlist (`apply_snapshot`), which sets the flag
anew, is in `ChainLifecycle`. In `AutoEnable` the store is one document, and
`StateStore` shows what the two stores behind it make of a write. `AutoEnable` takes the verdict
of a round of probes as a choice, `CandidateProbe` says what it is worth. `ArchiveProbe` and
`CandidateProbe` read the upstream's answers through `Signals`. `Ingress` ends where the
forwarder begins; the probe a worker runs is an endpoint of `ProbeScheduler` and the worker of
`EndpointHealth`.

Actions are the code's steps between two points at which another task can run and see a
difference: an await, the taking of a mutex, an atomic operation. In `EndpointHealth` each
method takes the mutex once, so it is one action; the clock a caller reads beforehand is read
in an action of its own (`Finish`, `ProbeClaim`), so that late reports carry old instants. In
`ChainLifecycle` every load and store of an atomic field of the shared state is a step of its
own where another task can come between. In `StateStore` a save is a clone under the lock, a
truncation, a write and a rename, each its own step, and a crash may come between any two.

Abstractions: bodies and URLs are left out; token buckets and permits of an endpoint appear as
refusals; answers are usable or not; endpoints' order (P2C scores) is any order; instants are
small integers; a catalog is its version, and a version a number of chains. An `Arc` of a state
that left the map is "old", and what is written through it is lost, since no newcomer can see it.
`chain_action` does not touch `runtime_chain_overrides`, which `materialize` and
`set_auto_pinned` read; they stay empty in `ChainLifecycle` and are a variable of `AutoEnable`.
There a write to the store is done, refused, or ends in an error that leaves open whether it was
done.

## 3. The runs

| Run | Instance | What it shows |
|---|---|---|
| `EndpointHealth` | 2 requests, 2 workers, time to 4, strikes to 2, cooldowns 1 and 2, Retry-After 2, a stored snapshot of a cooldown to time 3 | a Retry-After is waited out (`RetryAfterHonoured`) until the health is overridden by the administrator, an import or a refresh; no outcome that anybody reports ends a cooldown or shortens it (`CooldownNeverCutShort`); stragglers are not strikes (`OneStrikePerCooling`); the passes that return an endpoint are consecutive successes (`ReturnIsEarned`); one probe at a time (`ProbeSlot`); an expired cooldown ends, provided probes do (`CoolingEnds`) |
| `Parts` | nine parts that share no state, the first state picks one | see below |
| `PartsFair` | five of them under fairness | see below |
| `Forward` | 2 requests, one of them hedged, 3 endpoints with 1 slot each, a paid one, 2 attempts, share 50 % | permits balance (`LeasesBalance`), errors only after all failed (`ErrorMeansAllFailed`), the paid endpoint last (`FallbackComesLast`) |
| `Lifecycle` | 1 client, 1 operator with every command, 1 sweep, time to 3 | the activation lock excludes (`OneInside`), a sweep spares what was just used (`RecentNotDemoted`) |
| `LifecycleFair` | 1 client, 1 operator with 3 commands (demote, pin and unpin by auto-enable, disable), the refresh | all who ask are served (`ResolveEnds`); flags and endpoints spoiled by a race are repaired (`PinSettles`, `PoolReturns`), but for the flag of a chain that was disabled meanwhile and that nobody pins |
| `AutoEnable` | 1 chain, 2 operators with 2 commands (pin, unpin, disable, settings), a reset and an import, 1 failure of the store, 1 restart | the flag `pinned` follows the choices, and only an activation that was under way when they changed takes it out of line (`PinFlagFollows`); memory has no auto-enabled chain that the store lacks, unless an import or reset overtook it (`AutoIsStored`) |
| `AutoEnableFair` | 2 candidates in batches of 1, 2 rounds to qualify, 2 failures of the store, 1 restart, 1 change of what the upstreams offer; demotions, but no request or command of anybody else | a chain that stays qualified is enabled, as long as rounds of probes end (`QualifiedIsEnabled`) |
| `StateStore` | an override and an auto-enabled chain, an operator with 2 calls, health of 2 versions, a reconnect, 1 crash; commands that fail, with effect in Redis or without | what was acknowledged is what Redis answers (`AcknowledgedIsKept`); a refused write never comes back (`RefusedLeavesNoTrace`); the file ends as the document in memory (`FileCatchesUp`) |
| `EndpointPool` | 1 endpoint, 3 of: commands, new catalogs, reconnects, changes of health, failed writes, restarts | every change of health is stored, marked or being stored (`UnsavedIsMarked`); the pool ends as the overrides ask (`PoolConverges`) |

The nine parts of `Parts`, and what is checked of each there and (in italics) in `PartsFair`:

| Part | Instance | Properties |
|---|---|---|
| `HedgeGate` | 3 callers, share 40 %, 6 primaries | `GateImplementsBudget`: the gate implements `HedgeBudget` |
| `SingleFlight` | 3 callers and 1 clear; fair: 2 and 2 | `LeadersBounded`: one more leader per clear at most; *`FollowersReturn`*: no wakeup is lost |
| `ProbeScheduler` | 2 chains with an endpoint each, a queue of 1, one worker, a broadcast of 1, 3 events; fair: two workers, 2 events | `QueuedOnce`: queued or probed once, exactly if its key is in the set; `DepthIsTrue`: the gauge comes out right though it is raised late; *`EveryEndpointProbed`*: again and again, whatever kicks were dropped and whoever else stalls, while a worker is free and its own calls end |
| `ArchiveProbe` | head 5 or 6, a window of 3, up to 2 empty blocks, 2 faults, honest nodes of every kind | `VerdictIsTrue`: faults and gaps give no wrong verdict; *`VerdictSettles`*: the right one comes |
| `CandidateProbe` | 4 endpoints, 3 sampled, 2 permits, 2 wrong ones, 1 fault, head to 4 with a tolerance of 1, `min_active_endpoints` 1 | `QualifiedOnHonest`: one wrong endpoint qualifies nothing; `HonestQualifies`: enough honest ones do, and never fewer than two |
| `ChainlistRefresh` | the loop and one manual refresh, 5 versions of which one halves the list and one is empty, 2 faults (fair: 1), 1 restart | `EtagIsOfCatalog`: a 304 is about the catalog in hand; *`CatalogConverges`*, *`NewestArrives`*: every copy comes to the newest list that is believed |
| `Ingress` | 2 requests (fair: 1), 1 permit, batches to 2 and one too large | `NothingLeaks`, `BatchAnsweredInPlace`; *`ShutdownEnds`* |
| `CacheTiers` | 3 endpoints of which one lies at any time, reports that grow old, 3 blocks, a reorganisation of 2, 1 confirmation | `FinalAnswersStay`: what is kept about a numbered block or a receipt is final, where the head of its plan was decided by no liar, or by three reports |
| `Config` | 2 chains, 2 URLs, 2 sections in the file, 2 entries of the list; the pinned and denied chains; or one number at each edge value | `FallbackIsNearest`: the paid endpoint is the one said last |

The parts share a run because each is small. Since they share nothing, a behaviour of the run is a
behaviour of one part, and the properties are those of that part. In TLC's statistics each appears as one
disjunct of `MCNext`; every action inside them is taken on these instances. The state space of a part is
explored to its end. The process of `Ingress` and the start of `Config` do end; `MCNext` lets them
stutter there, so that deadlock is checked for all. In `Forward` all requests come to an end, so it is not
checked there.

Bounds. Two requests and two workers are enough for every pair of late reports and for one
probe that finds the slot taken; the clock to 4 fits two cooldowns, the cap of the strike
counter and a Retry-After that outlasts a cooldown. In `SingleFlight` the third caller is the
one that leads beside the other two after a clear; the second clear of the fair run shows that
followers of a flight that left the map are woken too. In `Forward` three endpoints with two attempts
leave one untried, and one slot makes the requests compete. In `Lifecycle` client and operator are the
two contenders for the lock, each of which may come again while the other still holds an old one.
`AutoEnable` needs two operators, so that a reset comes between the steps of an import and of a
promotion, and one chain, since an import, which writes all chains, treats each alike; two candidates
and a batch of one make the cursor of `AutoEnableFair` matter, and there a second failure of the store
comes while it reconnects. Operators' commands are in `AutoEnable` only, where nothing is fair.
In `StateStore` one operator, the flush loop and the reconnect loop are three writers of one file,
enough for a save to take away another's temporary file; two calls are a write and what overtakes
it (another write, an import or a reset). Two operators at once are not in this instance. In
`EndpointPool` endpoints of a pool do not touch each other, so one is enough; four objects of it exist at a
time at most, and three events are a change, a replacement and a failure or restart. A queue of one and two endpoints
fill `ProbeScheduler`; the counter of its depth wraps at 4. With two workers in the fair run a call that never ends holds one, and the
other endpoint is still probed; in a larger instance `WorkersFree` is a premise that stalled calls can break. The versions of `ChainlistRefresh` are one that is
believed, a halved one, an empty one and a third good one. `CandidateProbe` has one endpoint more than
the sample and one more task than permits, and room for the chain to outgrow the tolerance. `Config` varies
one number at a time, since no check relates two but those of the probe interval, whose other end is then the
default. The theorems do not depend on any of these numbers.

Fairness. What the code bounds is fair; what only an upstream can end is not, and is a premise of the
property where it needs one. `post_json` (`probe.rs` 675-704) bounds the wait for the headers of an answer, `read_capped`
(`autoenable.rs` 206-215) nothing: a body that never ends keeps its probe, or the scanner, for ever. So
`EndpointHealth` assumes fairness of the clock and of what probe workers do without an upstream (the scheduler
probes a cooling endpoint when it is due); `CoolingEnds` has the premise `ProbesEnd`. `SingleFlight`: of leaders and
followers, since each upstream attempt has a deadline and tokio polls what is ready; not of
clients, who may never come or leave at any await. `ChainLifecycle`: of tasks under way and of
the periodic refresh (`main.rs` 259-323); strong fairness only for entering the lock, because
tokio's mutex serves its waiters in turn. A dropped client is never assumed. `AutoEnable`: of the
scanner's own steps and not of its probes (`RoundsEnd` is a premise of `QualifiedIsEnabled`), of the reconnect loop (with
a store that comes back), of activations and of requests of operators that were begun; not of commands, failures or restarts. `StateStore`: of the flush loop and of calls under
way; not of the reconnect. `EndpointPool`: of the refresh and of steps under way; not of commands, records or flushes.
`ProbeScheduler`: of its loops and of time (cooldowns run out, due times come), not of the end of a call;
`EveryEndpointProbed` has the premises that calls to the endpoint itself end and that a worker is free again and again
(`WorkersFree`). `CandidateProbe` has no fairness. `ArchiveProbe`: of the probe, of
growth and of time. `ChainlistRefresh`: of steps under way, and strongly of the loop's next refresh, because it finds
the flag taken only while another refresh runs, and its timer comes again and again. `Ingress`: of handlers
and of the deadline of the drain; a client may never finish its body.

### Where the code differs from its documentation

Two runs expect a violation; each checks one sentence of the documentation or of a comment.

- `OverrideForgotten`: `docs/DESIGN-v2.md`:178 says pin and disable are persisted. A command starts from
  the override in `runtime_chain_overrides`, which `set_pinned` and `set_disabled` do not update:
  pin, then enable, and the store has no pin any more.
- `RefreshForgets`: the comment at `registry.rs`:1161 says that a refresh reuses the objects of endpoints so that
  their health is kept. `merge_chain` restores `restored_health`, read at the start and never cleared,
  into all of them: after a restart every refresh sets an Active endpoint back to Probation, or to
  a cooldown of before the restart.

Others that the models exhibit, without a run of their own; those with a name are stated in the module.


Forwarding and cache:
- the second candidate counts as passed before the gate is asked (`forward.rs` 265); when the gate denies the
  hedge it is never tried, and with two candidates the client gets an error with attempts left
  (`ErrorMeansTried`; `docs/DESIGN.md`:85 promises failover until the budget is spent);
- a leader removes whatever flight is under its key, so after a `clear()` its successor's, and a third
  caller leads too (`cache.rs` 157; README.md:13 promises one leader); a caller whose look into
  the cache came before the insertion leads a second flight after it (`cache.rs` 195); followers of a failed
  leader all go upstream (`forward.rs` 182; `docs/DESIGN.md`:59 speaks of one call); a flight
  led across a clear is inserted after it (`forward.rs` 169);
- answers that can still change are kept for an hour or more: a null for a block hash, an account's state where the
  short address itself reads as a block number (`ImmutableStaysTrue`; `docs/DESIGN.md`:134);
- while fewer than three endpoints report lately, one that lies sets the head, and what is kept for good under it may change
  (`registry.rs` 2225-2237); `FinalAnswersStay` speaks of the other heads (`Outvoted`);
- the paid endpoint is asked when attempts run out, not only when the public pool does (`forward.rs` 318;
  README.md:71);
- a revert whose reason mentions a rate limit counts as a limit, since the text is looked at before the kind of error
  (`signals.rs` 96-112; `docs/DESIGN.md`:78).

Endpoints and probes:
- when a chain has no Active endpoint, requests go to those in Probation and their successes count as its
  passes (`registry.rs` 416; README.md:15 speaks of two probes);
- `dirty` is set before the change it announces; a flush in between loses the change (`registry.rs` 417, 444);
- `materialize` ignores `rejected`, though the comment near `registry.rs` 1047 says otherwise; `set_endpoint_override`
  brings back a rejected or configured-away endpoint until the next refresh; an endpoint that an operator removes during a merge returns for
  the grace of a day;
- two operators at once may leave the store and memory with different overrides;
- a body that never ends keeps a probe's worker and key, and its endpoint is not probed again (`probe.rs` 675-704, the time-out covers
  the headers; `docs/DESIGN.md`:99), and stops the scanner in the same way (`autoenable.rs` 206-215): the premises
  `ProbesEnd`, `WorkersFree` and `RoundsEnd`;
- a refresh may end or shorten a running cooldown, Retry-After included, of an endpoint that has a restored snapshot
  (`registry.rs` 546-568, 1319-1326; the run `RefreshForgets`): the `Overrides` of `EndpointHealth`;
- the second call of a probe goes to an endpoint that was cooled since the first (`probe.rs` 337);
- `queue_depth` is raised after the send and may wrap below zero for a moment (`probe.rs` 177;
  `docs/OPERATIONS.md`:66);
- a trace of an old block that fails falls back on the balance at block 1, so a full node that kept its first state
  may be "yes" until the next probe (`docs/DESIGN-v2.md` 16.1).

Chains, scanner and operators:
- pinning a demoted chain sets the flag only; no request materializes a pinned chain, until the next refresh
  of the chainlist (`PinnedHasPool`, repaired by `PoolReturns`; `docs/DESIGN-v2.md`:55);
- a request that read the label hot stores the second after a sweep exchanged it for 0, and the chain is hot
  while the sweep empties its endpoints (`registry.rs` 954; `docs/DESIGN-v2.md`:56), until the refresh; the server looks up
  the number of endpoints after it resolved the chain, and answers 503 if a demotion came between;
- a sweep or an activation that read a pin before it changed demotes or installs the chain with the old one
  (`registry.rs` 961, 1366; `InstallsOld`), until the refresh; a chain that was disabled since and that nobody pins is skipped by the refresh
  (`registry.rs` 1173-1190) and keeps the flag (`PinSettles`); the answer of the demote command activates the chain again
  (`admin.rs` 905); two tasks that leave the activation lock together leave its entry behind (`registry.rs` 119);
- a chain that an operator unpins or disables is no tombstone in memory before a later setting, reconnect or
  restart, so the scanner may take it as a candidate again (`registry.rs` 1439; README.md:217); a chain that was
  disabled at the start and enabled since is disabled again when it is demoted and asked for; the
  auto-enabled chains exceed `max_chains` once a tombstone among them, which is not counted, is lifted; a
  reconnect that read the auto-enabled chains before a promotion takes the promoted chain out of memory
  until a restart;
- an endpoint that invents a head far ahead vetoes its chain's qualification, and a chain that grows by more than the tolerance
  while tasks wait for permits may be refused; `min_active_endpoints` 1 is in effect 2, and
  `max_endpoints_per_chain` below 2 qualifies nothing; head plus tolerance wraps in a release build
  (`autoenable.rs` 188); a chain listed twice gives two candidates with one progress entry, so that two
  rounds may be met in one scan.

Store, list, start:
- the state file is truncated and written by saves that share one temporary file, so a crash may leave it
  torn (`FileIsWhole`; `docs/DESIGN-v2.md`:327); the next flush repairs it while the process lives;
- a reset leaves Redis without `meta` until the next flush, so a reconnect in between imports the local document over
  overrides put since (`docs/DESIGN-v2.md`:317); a flush between a reconnect's export and its end reaches Redis only
  with the next change (README.md:188); puts of one key by two callers may land in different order in Redis and in the file; the
  reconnect loop runs without pause while the connection is there and its ping fails (`main.rs` 403-425);
- a manual refresh stores a fallback catalog too, and ends before it applies the list when the store refuses
  (`admin.rs` 755-770); a list that really shrank by more than half is refused until a restart; two refreshes may be applied
  in the wrong order, which the next 304 heals;
- the limits of the rate limiter are checked with 64 bits and used with 32: a multiple of 2^32 is accepted and
  panics at the start (`guard.rs` 54, `config.rs` 277; no property covers it);
- the limit per IP counts a client's sockets, since the key is the address with its port (`guard.rs` 328; `docs/OPERATIONS.md`:90);
- the environment cannot repair an invalid file, which is validated before it is read.

## 4. What is proved

Each proof module extends the module it is about; the theorems hold for every value of the
constants that satisfies the module's assumptions.

Every safety invariant and action property that a passing run checks is a theorem, but for `DepthIsTrue`. `PROJECT.json` lists
the theorems; this is how each proof goes.

- `EndpointHealthProofs`: from `HealthAssumption`, the inductive invariant adds to the types
  that a claimed slot belongs to one worker, that a worker's or request's instant is not in the
  future, and that the passes are covered by the streak of successes; `RetryAfterHonoured` is
  inductive once the deadline of a cooldown is compared with the history variable `pause`. The
  action properties follow from the facts about `Succeeded`, `Failed`, `Decayed`, each
  stated once as a lemma. `Overrides` (commands, imports, refreshes) begin the history anew: the
  theorems say what outcomes cannot do, not what a stored snapshot does to a cooldown.
- `EndpointPoolProofs`: from `PoolAssumption` (the configuration speaks of known URLs; "nothing saved" is no
  state of health). `UnsavedIsMarked` is not inductive: an endpoint whose change is in the hands of the flush loop
  may be replaced, marked or restored before the loop ends. `HealthKept` says what each endpoint in the pool is
  when it is not marked: what the loop took, if it took something of it, and else what the store has. The other
  parts of `PoolInv` say what operators, reconnect, probe and refresh carry; `RefreshSound` is what leaves
  a free object for each endpoint that is made: a refresh has the old pool before it chooses and the new one after.
- `ForwardProofs`: from `ForwardAssumption`, for any requests, endpoints, slots and attempts. `ForwardInv` says of
  each request's record that what is queued was not tried (`Untried`), that attempts in flight and finished
  add up (`Counted`), and where in the function the attempts may be (`Placed`, `Raced`); with it
  `LeasesBalance` is inductive. A step moves one request, so each action has a lemma about one record, and one
  lemma carries it to the permits: the attempts of a step that starts or ends one are those of before with one
  more or less. `FallbackComesLast` and `ErrorMeansAllFailed` follow. Each step is one of
  `HedgeBudget` or leaves its counters alone (`UsesGate`), so the requests that hedged stay within their share.
- `ChainLifecycleProofs`: for any number of tasks, `OneInside`, `OneActivation` and
  `RecentNotDemoted`. None of them is inductive. The lock excludes because of `WaitTogether`:
  whoever waits for the lock, holds it or is about to clean up has the mutex that the map has,
  so that a removed entry is never one that somebody still uses (`CleanUp` removes it only
  when the two references are the map's and its own), and a newcomer who finds no entry may
  make one. An activation is unique because of `InstallsAsleep` and `ActiveInMap`: who is on
  the way to install a state found the chain asleep, nobody else is inside, and a chain that
  was activated and not demoted since is in the map with a second other than zero, or is just
  about to get it from the only task that is inside. `InstallsAsleep` also needs that the task
  that inserted the state still holds the current one when it stores the second. A sweep
  spares a recent chain because of `SweepsStale`: the second it carries to the mark was old
  when it was read and only gets older, and the mark compares. `LockIsFree`, which counts
  tasks and locks, justifies the model's fresh mutexes. The sets of tasks are assumed finite
  and disjoint, nothing else about them.
- `AutoEnableProofs`: for any chains, operators, documents and bounds, `PinFlagFollows` and
  `AutoIsStored`. One lemma per call of the registry shows that it brings the flag of each chain whose pins it changes
  in line with the choices and leaves the others as they are; an activation does so if it read
  what the choices still say. `AutoIsStored` is not inductive: what is
  on its way to memory must be in the store, or overtaken, already: the chain of a promotion
  whose write was done (`ScanStored`), the set a reconnect read (`SyncStored`), the document of
  an import (`OpStored`). `OvertakenKept` covers the write that replaces the document, and
  `ReplaceAuto`, which forgets what is no longer on its way, leaves in memory only chains of the
  document it applies.
- `StateStoreProofs`: from `StoreAssumption` (the roles of tasks and the two kinds of keys are apart) and
  `BackupsAssumption` (a backup is a document), for any operators, unlike the run, which has one.
  `RefusedLeavesNoTrace` is carried by `TraceInv`: everything that a document holds, in memory, in either file, in
  the hands of a writer, was in Redis once, and so was what a call repeats on the local document after Redis took
  it. `AcknowledgedIsKept` is carried by `AckInv`: nothing is owed for a key while a call writes it, two calls of which one is
  alone touch no common key, and a call that is alone finds in its scan all that it must delete and
  in Redis what it put there, or a failed command's. A command that fails may have had its effect; its caller was refused,
  and the history owes nothing for the keys it touched. The reconnect overwrites settings in Redis only
  when it seeds an empty one, and then nothing is owed (`NothingOwed`).
- `ServingProofs`, the gate: the share of hedges needs that what a caller loaded of the primaries is
  never more than there are, since they only grow; with it each step of the gate is a step of
  the budget or a stutter, and so the gate implements it.
- `ServingProofs`, the folding, from a finite set of callers: `LeadersCounted` bounds the leaders by the clears so far and
  one more while the map has a flight. A leader that outlived a clear takes its successor's flight out of the map, but
  then leaves itself, so the count still holds. `FlightHasLeader` is needed with it: a flight in the map has a leader at work.
- `ServingProofs`, the ingress, from finite requests and `MaxConcurrent`, `BatchLimit \in Nat`. A step moves one
  request; `GoesInside` says what this does to the set of requests inside, and three lemmas (one who stays,
  one who enters, one who leaves) what it must do to the permits and the gauge. Every action is one of the three,
  the client that goes away at any point among them. For batches, `BatchInv` says that only calls
  have tasks, and that every other place holds an answer under its item's id, at every moment between the first
  item and the answer joined from them.
- `UpstreamProofs`, the scheduler, from the finiteness of `Urls`. The equality of the set of keys with
  what is in the queue, with the pool and with the workers is inductive only with `Apart`: the three
  places share nothing and the queue holds a key once, so that a key that is taken from one place and
  put into the next leaves the count as it is, and one that is removed was there once.
- `UpstreamProofs`, the chain list: `EtagIsOfCatalog` needs that the flag excludes (`HoldsFlag`), and so that
  who is asking sends the ETag that memory still has (`AsksForMemory`): a 304 then is about that catalog.
- `UpstreamProofs`, the archive probe, from `ArchiveAssumption`: the window of a full node is shorter than the
  distance at which the probe asks. `ArchiveInv` bounds the block that is read by the height that was read first, and says that
  a balance that was found is inconclusive or the truth; so each read that can decide is beyond the window of a full node.
- `UpstreamProofs`, the candidate, from `CandidateAssumption`: heads and tolerance do not reach the largest u64. `min_active` is any
  number, since `validate` bounds only that of hedging (`config.rs` 363-369); below two it is in effect two, as two heads must
  agree, and `HonestQualifies` says so. `TaskSound` says which heads an endpoint of each kind may have brought:
  an honest one a height between that of the round's start and now. With at most one wrong endpoint and two that
  agree, one of the two is honest.
- `UpstreamProofs`, the cache, from `TiersAssumption`: one endpoint may lie, at any time, a reorganisation is no deeper and an endpoint in service no
  more behind than the confirmations allow. Where no liar decided the head (`Outvoted`: none reported, or three and more did), a block
  that the trimmed maximum of heights declares final is below an honest height, since the one that is trimmed away is as high as the liar's (`TrimmedBelow`); so a plan's final block
  is `Settled`, a settled block is never replaced (`LastingStays`), and every endpoint in service has it.
- `UpstreamProofs`, the configuration, from `ConfigAssumption` (a fallback of the environment is a URL, the defaults are
  numbers). For `FallbackIsNearest`, `Applied` says of each
  chain, after each assignment, whose word its first section with a fallback is: its own variable's, else that of
  its last entry so far, else the file's. `Assigned` shows that an assignment makes its URL the first, though the chain may have sections without one
  before, and moves no other chain's.

That no proof rests on contradictory assumptions is seen from the runs: TLC evaluates every ASSUME on
them.

Only model-checked: liveness (`CoolingEnds`, `FollowersReturn`, `ResolveEnds`, `PinSettles`, `PoolReturns`,
`QualifiedIsEnabled`, `FileCatchesUp`, `PoolConverges`, `EveryEndpointProbed`, `VerdictSettles`, `CatalogConverges`,
`NewestArrives`, `ShutdownEnds`), since fairness and ENABLED are beyond the prover, and `DepthIsTrue`, whose modulus is a parameter. The two violations are
TLC's, since a counterexample is a behaviour.

Proved and not listed in a run, as they say less than those that are or follow from them: `AttemptsBounded`,
`TriedOnce`, `HedgesAreSent`, `UsesGate` and the share of requests that hedged (`Forward`), `FlightHasLeader`
(`SingleFlight`), `AsksForMemory` (`ChainlistRefresh`), `WaitTogether` and `OneActivation` (`ChainLifecycle`),
`PassesCounted` (`EndpointHealth`), `HedgeShare` (`HedgeGate`).

## 5. Not modelled

- Supervisor (`supervisor.rs`): a loop of spawn, join and sleep with a local backoff. It shares nothing
  with the tasks it restarts; the panics it answers are failures in `ChainlistRefresh`.
- Metrics (`metrics.rs`): counters and their text, which nothing reads back. The two gauges that could drift
  are in `ProbeScheduler` and `Ingress`.
- The mock upstream and the load test: test doubles.
- Of the chain lifecycle: denied and unknown chains, and the cap over many hot chains beyond this chain being the one to go.
- Of the administrator: authentication, the pages that only read and their copy of ten seconds.
- Of the classifier: the set of read-only methods, a parameter of `Forward`, and the configuration's overrides of methods.
- Of the refresh: that `apply_snapshot` puts a pinned chain that is absent into the map without its runtime `disabled`.
- Of an import: that `activate_restored_hot` stores the `last_ingress` of the document, older maybe than the chain's
  (`registry.rs` 1549-1558).
- Of the store's disk: errors of writes (a full disk); races of writers, torn files and crashes are in. A command of a Redis
  connection that was given up and that arrives after the reconnect.
- Of the store: hot chains, catalog and audit, which go the way of the health; the parsing of old documents.
- Of the forwarder's scores: P2C and latency, which order endpoints; any order is allowed.
- Texts: TOML, URLs, JSON-RPC envelopes, Retry-After's forms, the patterns of error messages, the parsing of the chainlist.
- Capacities of the caches and token buckets, which belong to libraries.

What is left to do, in this order: a theorem that `StateStore` implements the one document of `AutoEnable`; the
safety half of the liveness properties (what a step of convergence may not undo) as lemmas; the cap over several
chains; two operators on one endpoint.
