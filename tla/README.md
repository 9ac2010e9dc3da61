# EVE online tooling: models, checks and proofs

EVE online tooling is a desktop application (Tauri 2: a Rust backend with tokio, a React
frontend in a webview) for players of EVE Online. It talks to EVE's public API (ESI), to EVE's
single sign-on (SSO), to market and killboard services, keeps a copy of the static data export
(SDE, a SQLite file), and runs user scripts and third-party WASM plugins.

This directory holds TLA+ models of the parts of the backend where the difficulty lies in the
*order* of things (credentials, caches, background loops, documents that several commands rewrite,
and what happens when their steps interleave, fail or are cut short) and of its searches and
plans, whose answers are compared with what defines them. `PROJECT.json` lists the components, the runs, the
lines of the source every definition stands for, the known hazards and the theorems. Paths below
are relative to `src/src-tauri/src/` of the repository unless they say otherwise.

* [Inventory](#inventory) - the system's parts, their state, and what makes them correct
* [How the program executes](#how-the-program-executes) - what is one step in the models, and why
* [The modules](#the-modules) - one section each: correspondence, run, bounds, what it shows
* [Fairness](#fairness)
* [Proofs](#proofs)
* [Departures from what the code says](#departures-from-what-the-code-says)
* [Not modelled](#not-modelled)
* [Plan](#plan)

## Inventory

| component | state it keeps | operations | hard behaviour | correct when |
|---|---|---|---|---|
| Credentials (`esi/token_cache.rs`, `esi/oauth_exchange.rs`, `esi/commands.rs`, `storage/mod.rs`) | access tokens and failure flags in memory, a lock per character, refresh tokens in the OS keychain, `roster.json` | `access_token_for`, `auth_login`, `auth_logout` | refresh tokens rotate: the old one is dead once the SSO answers; two `AuthState`s in one process; logout and login while a refresh is under way; answers and processes that get lost | one refresh per character at a time; no token is stored that is already retired; a dead stored token is always announced; a logout leaves nothing |
| Market service (`market/`) | timed caches for orders, history, aggregates; a mutex per key in flight | lookups by item, batch lookups | callers that miss at the same time; batches that overlap; a sweep in every put; stale values that stand in for errors | one fetch at a time and none before the last value expires; an error only when nothing servable exists |
| Script scheduler (`modules/scripts/`) | the document of scripts, each script's key-value store, the armed flag, the in-flight set | save, delete, run; a loop that parks, ticks, starts what is due | the flag is written by commands and by the loop; wake-ups between a check and a sleep; runs that outlive their deadline; a document rewritten in place | an armed script ticks; no lost wake-up; the in-flight set is the runs |
| Plugin runtime (`plugins/`) | registry, active set and its file, folders, warm WASM instances behind two levels of mutex | install, remove, activate, deactivate, rescan, invoke | an invocation reads the manifest, the active flag and the wasm at different moments; failing calls evict; installs swap folders | what was installed last is what runs; fresh instances survive others' failures; nobody waits for ever |
| SDE update (`sde/commands.rs`, `sde/download.rs`) | `sde.sqlite`, two `.part` files, the recorded md5 | check, download, decompress, verify, swap, record | crashes and failures between any two steps, a dump published meanwhile | the database is always whole; the md5 never claims more than the database holds; a database that is behind does not stay behind |
| SDE readers (`sde/mod.rs`, `sde/db/mod.rs`) | a pool of connections and whole-table caches, each with the generation it belongs to | queries, cached tables | a swap between the generation, the pool and the open | no answer older than the database the caller found; the pool does not grow |
| Conditional HTTP cache (`net/conditional_cache.rs`, `esi/cache.rs`, `esi/pagination.rs`) | an entry per key in memory and on disk | cached get, paged get, touch, prune | awaits between each read and write; pages of different moments; crashes while writing | whoever asked the server gets nothing older; freshness is only what the server granted |
| Live killstream (`zkill/live.rs`, `src/src/lib/useZkillStream.ts`) | count of leases, wake-up, connected flag, rolling index of kills | subscribe, unsubscribe, one connection loop | a count shared by features that mount, unmount and reload; check-then-sleep; idle wind-down | a mounted feature has a lease and gets the stream; an abandoned stream winds down |
| ESI network policy (`esi/net.rs`) | the error budget in two atomics | throttle, send, observe, retry | concurrent calls that load and store the budget separately; responses observed out of order | the margin kept back covers what is in flight; every call ends |
| Kill index (`zkill/live.rs`) | the killstream's events, in the order in which they arrived | push, prune, count | events that are late, or from the future; a cap | a kill of the window is there to be counted |
| Durable caches (`storage/mod.rs`, `zkill/mod.rs`, and the callers of versioned entries) | timed files; entries marked with the generation of the SDE; bodies with the hash of the last one written | get, put, prune | an update between reading the generation, opening the database and writing; two files written one after the other | no entry outlives its database; a served body can be read |
| DPS meter (`modules/dpsmeter/`, `src/src/modules/dpsmeter/useDpsPlaybackState.ts`, `dpsMeterShared.ts`) | a generation of captures, the log followed and how far it was read, buckets closed, amendable and being filled, the chart | start, stop, play back, seek, pause, resume; a task per capture | lines flushed late, a log that grows while it is read, a relog, captures that replace each other | the chart is the log, line by line; a replaced capture ends |
| Shopping lists and chat capture (`modules/shopping/`) | one JSON document: the lists and the keys of the messages imported | eight edits, a paste, a poll of a channel's logs | repeated polls over logs that overlap, vanish or are torn; crashes in the middle of a write | a message is imported once; a move conserves |
| Wormhole map (`modules/wormholes/`) | one document of connections with lifecycle | list, add, edit, delete, prune, two imports | imports await their feed between load and save | a hole is mapped once; a dying hole's clock runs; the user's rows stay |
| Travel trail (`modules/route/commands.rs`) | one document of systems visited | poll, view with back-fill, clear, nearest hole | polls await the location between load and save | a gap is the jumps between neighbours |
| Routing (`sde/graph.rs`, `modules/wormholes/commands.rs`, `modules/pochven/`) | none | route, distances, breadth-first search, Steiner tree, scan order | stale heap entries, parallel edges, early exit | least cost over all paths |
| Intel: faction warfare (`modules/intel/commands.rs`) | a cached answer, a history of samples | fetch | two fetches load, extend and save the history | a trend never crosses a change of owner |
| MCP bridge (`mcp/mod.rs`) | a server thread, its stop flag, a discovery file, settings | start, stop, restart, autostart, tool calls | the thread may end by itself; stopping joins while a mutex is held | a stopped server's token is dead; a stop returns |
| Fitting optimizer, capacitor (`modules/fitting/`) | none | one search; one simulation | a climb over modules whose worth depends on each other; clips and reloads that must line up | slots, budget and what the user fitted are kept; it ends at a local optimum |
| Production, mass production (`modules/production/`, `modules/massprod/`) | two saved lists | rank; plan | choices down a recipe tree, caps inside stacks | no more is paid than the cheapest plan; exactly the runs asked for |
| Industry jobs (`modules/industry/`) | jobs kept per character | the aggregate over the roster | jobs end and are cancelled between requests; two calls save over each other | a slot counted was held |
| Local lists and plain documents (`lists.rs`) | JSON documents | load, edit, save | as the shopping document's, without its second writer | (covered in shape by ShoppingLists) |
| Script engines, plugin packages and broker, capabilities | none of their own | execute, validate, dispatch | resource limits | (text and value processing) |
| Market aggregation, trading, appraisal, reprocessing, LP store, contracts, orders | none | one-shot computations on cached prices | floating point | (numeric) |
| Fitting: dogma engine, import and export | none | attribute arithmetic, text formats | floating point | (numeric) |
| Planetary, assets, character, accounting, notifications, PVP, killboard, hotspots, route activity, EVE-Scout feed | answers cached for a time, documents | one fetch, joined with static data | (as the caches') | (joins) |
| Feedback (`modules/feedback/`) | the document of submissions, an anonymous account's session | submit, retry the queue, forget; sign up, refresh, create | calls hold the document they loaded across requests; answers get lost | what is shown as sent was sent; what the user wrote is not lost |
| Folder sync (`src/src/lib/sync/`, `modules/sync/`) | a file in a shared folder, each device's copy and the time of it | touch, sync, push, pull; a scheduler and a card | everything is awaited, two runs at once, files written in place by several devices | the devices end up with the same setups; a newer copy is not taken for an older one |
| Login flow, shell | none that outlives them | once per press of a button or start | - | (wiring) |
| User interface (`src/src`) | React state | calls of commands | mount and unmount order of the stream's lease, polls and seeks of two panels | (see killstream, DPS meter, shopping) |

How they interact: commands of the webview call into the credentials, caches and stores. Plugins
and the MCP bridge reach the same modules through `capabilities.rs`; the plugin manager has an
`AuthState` of its own. Every ESI request passes the conditional cache and then the network policy.
The SDE update replaces the file under the readers, who learn of it from the file's mtime and size
only. Scripts and plugins run on threads of their own and write their stores while commands edit
what they belong to. The documents of the application modules are each a file that a command loads,
changes and writes whole; there is no lock, so an asynchronous command that awaits between its load
and its save works on an old copy.

## How the program executes

What is atomic in a model follows from how the code is scheduled:

* A **synchronous** Tauri command runs on the main thread: two of them never interleave, and they
  run in the order in which they arrive (`ScriptsSave`, `auth_logout`, `Subscribe`). An **async**
  command is a tokio task, a blocking one a thread; their steps interleave with everything.
* One step is what happens between two points at which another actor can act on the same state:
  an await, a file or keychain operation, a mutex released and taken again, one load or store of
  an atomic. Code under one lock is one step.
* A tokio mutex serves its waiters in order, a `parking_lot` one eventually (see Fairness).
* `notify_waiters` wakes only those `Notified` futures that exist; a future is created before the
  second look at the flag it is about, and this is what `Look`/`LookAgain` and `Arm`/`CheckAgain`
  separate.
* `File::create` on an existing path truncates the same file in place; `rename` replaces the path
  and leaves the file open elsewhere alone; a process that dies leaves files as they are.
* Failures are chosen, never assumed absent: keychain and disk errors, refused and lost requests,
  restarts. They are named in a `Faults` set or counted against a bound such as `MaxFaults`.

**Small components share a run.** The components of one `MC` module share no state, so nothing is
gained by their product: `focus`, chosen in the initial state, says which of them runs, and
everything else rests where it begins. `MCData`, `MCFeeds`, `MCTools` and `MCDocuments` extend their
components, so that what a run checks is the very formula the theorems state; a component's property
then holds of its initial states while another has the focus. `Production` and `MassProduction`
are instantiated on shared variables and their properties say nothing while they rest. `MCScriptScheduler` (with `FolderSync`) and
`MCMarketFlight` (with `ErrorBudget`) hold two components each.

Names follow the source. **Mutants**: a definition whose comment begins with "Mutant:" is not part
of a specification. It is a plausible mistake in the definition after it, kept to show that a
property of the run notices the mistake; `PROJECT.json` pairs them. Variables marked "history" are
not read by any guard of the program's actions (other than as bounds); they let a property speak of
what happened earlier.

## The modules

### AuthTokens - credentials

`Call` .. `CacheToken` are `access_token_for` of `esi/token_cache.rs` split at its awaits and
keychain calls: no valid token in memory, take the character's lock object from `refresh_locks`
(`gen`), queue, look again (`FindToken` or `StartRefresh`), load the refresh token, post it, compare
the answer, store it, mark or clear the failure flag, cache the access token. `LoginExchange` ..
`LoginCacheToken` and `LogoutReadRoster` .. `LogoutForget` are `auth_login` after the browser came
back and `auth_logout`. `Rotate` is the SSO (external): it honours the tokens in `live`, retires
what it replaces, and with the fault `grace` still accepts a token it has just replaced.
`lockGen[i][c]` numbers the lock objects a character has had, because `forget` drops the object from
the map while a task may hold it. The program starts with the roster and keychain of an earlier
session; `Crash` keeps those only.

* `feeds`, focus `refresh` - one `AuthState`, three concurrent callers, keychain and request
  failures, an SSO with grace. `RefreshSound`: `SingleRefreshPerCharacter`, and `UsableOrWarned`, that
  a stored token the SSO no longer honours is about to be replaced or announced. Three callers are the
  least that let one hold the lock, one be queued and one arrive late; four tokens are three rotations.
  No logins and no losses here: with a login `UsableOrWarned` does not hold (see Departures), and a
  lost answer leaves a dead token nobody knows of by nature.
* `documents`, focuses `logins` and `logouts` - both `AuthState`s of the process, one caller of the
  application's and two of the plugins', crashes, every failure, an SSO that also accepts the token it
  has just replaced; once with a login and no logout, once the other way round. Tokens are numbers,
  issued in order. `NeverStoresRetiredToken`: a token is honoured when it is stored. With such an
  SSO the order of rotations and stores hangs on the lock (without it TLC finds two callers of one
  `AuthState` rotating one token, and the older successor stored last), and a lock reaches no further
  than one `AuthState` and one entry of its map: the property excepts a character two refreshes of
  which overlap under two lock objects (`crossed`), and nothing else.
* `auth_logout_race` - expected violation, see Departures.

### MarketFlight and ErrorBudget - what stands between a lookup and ESI

`Ask`, `Enter`, `FetchOk`, `FetchFails`, `Return` are one lookup through
`deduplicated_cached_fetch(_with_stale_fallback)` of `market/flight.rs` and its batch counterpart in
`market/service.rs`: look, queue for the gate of the key, look again, fetch what is missing, put or
fall back. A batch's types share one gate; the history of each type has its own. `Put` is
`TtlCache::put` with the sweep it starts with, `Fresh` and `Servable` are `get` and `get_stale`. A
cached value is known by when it expires. The first look takes a snapshot of the whole batch in one
step although the code takes the cache's mutex for each type; nothing depends on two types being
seen at one moment.

`ErrorBudget`: `LoadRemain`, `Throttle`, `ThrottleEnds` are `throttle` with its two loads; `ObserveRemain`,
`ObserveReset` are `observe` with its two stores; `Return`, `Retry`, `LoseResponse`, `TryAgain` are
`send_retrying` and `send_once`. `Answer` is ESI (external) with a fixed window and a counted
budget. Pauses and windows are what is left of them, in ticks of one clock.

* `market_flight`, focus `flight` - two callers; a batch of two types behind the hub's gate and the
  history of each behind its own; only histories have a stale window; uneven jitter. `FetchedOnce`;
  `StaleBeatsError`; `LookupsReturn`. Two types per cache are the least for which one's put sweeps
  the other; lifetimes 1 and 2 and window 1 over three instants put every boundary on an instant.
* `market_flight`, focus `policy` - two calls, one of them `send_once`, a limit of five with
  `LowBudget` five, two attempts, one lost response. `MarginHolds`: errors never go more than n
  squared, plus the lost responses, below the margin, n being the calls in flight. One call lets at
  most n requests out at a healthy reading, and each of the n responses observed late may overwrite
  a low reading and let n out again. The code's margin (`LOW_BUDGET`, 10) tolerates three calls
  by this formula. The limit equals the margin so that TLC starts where errors begin to count; a
  larger one only adds states in which nobody throttles.

### ScriptScheduler and FolderSync - what a schedule runs

`Seed` .. `StartDue` are `spawn` and `wait_for_armed` of `modules/scripts/scheduler.rs`, split at
each look at the flag, each load of the store and the sleep. `ScriptsSave`, `ScriptsDelete`,
`OpenFile` .. `WriteFails`, `ClearKv`, `SetArmed`, `NotifyWaiters` are the two commands. `ScriptsRun`, `KvSet`,
`RunEnds`, `RunDetached` are runs: `execute_watched` gives up on one that is deaf to the interrupt,
and the loop then considers it ended. The document is `torn` between its truncation and its being
filled; `Loaded` then reads no scripts, as `load_data` does. A write that fails leaves the old
document if it could not open the file, and none once it had truncated it. The ticker keeps every deadline it
missed. The clock (`Minute`) advances only while the loop sleeps: its own steps take no time that
matters at a scale of minutes.

`FolderSync` is a module of data (the planner's setups stand for any) on devices that share a folder.
`Edit` and `Touch` are a saved setup and the call after it; `ReadFolder`, `Decide`, `Apply`, `SetMeta`
and `Export`, `Truncate`, `Fill` are `syncNow`, `pushAll` and `pullAll`, split at their awaits;
`Schedule`, `Press` and `Push` start the scheduler's and the card's run, of which one each may be under
way. A version of the data is the edit that made it. `DecideSync` is `decideSync`.

* `schedules`, focus `scripts` - one script that runs every other minute or not at all, three edits, two minutes, one run besides
  the loop's, restarts: `NoLostWakeup`, `InFlightIsTheRun` (also across delete and create under one
  name), `ArmedTicks`. One id is enough for each of these: they are about one script's entry or
  about the flag, which is the disjunction of all.
* `schedules`, focus `sync` - two devices, any three of edits, failures and restarts, a press of a button
  counting for two. `Converges`: the devices come to hold the same setups, the newest if nobody forced
  another's, for edits that do not fall between a run's decision and its `setMeta` and are touched before
  the app dies (`SyncsOverlap` is off; for what happens otherwise see Departures).
* `sync_touch` - expected violation, see Departures.
* `scripts_parked` - expected violation, see Departures.

### PluginRuntime - registry and warm instances

One plugin; plugins share nothing but two mutexes no step holds across another. `ReadManifest`,
`CheckActive`, `Lookup`, `Build`, `Insert`, `StartCall`, `CallOk`, `CallFails`, `EvictOwn` are
`run_plugin` and `PluginManager::invoke` of `plugins/manager.rs`; the commands are `Activate`,
`Deactivate`, `Discover`/`Rescan` (the look at the folder, which no lock protects, and the swap of
the registry), `Remove` .. `Delete` (evict, registry, active set, folder); `SwapOut` ..
`InstallEvicts` are `install_dir` followed by the eviction. A failed persist leaves the old active
set on disk or, once the file was truncated, none. `Drop` is the user's hand in the plugins folder (not during an install). An
instance remembers which wasm and which grants it was built from and how many evictions had been
when its invocation began (`since`).

* `plugins_runtime` - two invocations, two of any commands (`MaxCommands`), a changed folder, restarts, two
  instances. `FreshInstanceKept` (a stale failure never evicts another's fresh
  instance); `BuiltSinceIsCurrent` (what an invocation that began after the last eviction builds is
  what is installed: swap, register, evict is the right order; not after an install that overtook a
  rescan, which puts back what it read before, see Departures); `InvocationsReturn`. That an
  instance never runs two calls at once, and that what is active is installed, is proved, not run. Two
  instances let one be replaced while an invocation holds it.

### MCData - what is computed from the static data, cached and evaluated

The run `data` has six components: `versioned`, `body`, `conditional`, `making`, `massive`,
`industry`; the readers of the database are in the run `feeds`, focus `readers`. The two threads are symmetric; where a component has faults, there is one.

**FreshReads** is the abstract specification: a client asks, and is answered from a database that
was installed at some moment between its question and the answer. Nothing is cached in it.

**SdeReaders** implements it (`ReadsFresh`). `Lookup` .. `Store` are `get_or_build`,
`ReadGeneration` .. `HandBack` are `open_from_dir`, `checkout_pooled_connection`, the query and
`Drop` of `sde/mod.rs` and `sde/db/mod.rs`. A version is the number of the swap that brought it.
Generations (mtime and size) are taken to differ between versions, as the code takes them to.
`PoolSelfSizes`: idle and used connections are never more than there are readers. Two versions are
one swap, which is all that can come between two steps with an effect of its own.

**CacheVersioned** implements it too (`VersionedReadsFresh`): `cache_get_versioned` and
`cache_put_versioned` of `storage/mod.rs`. `Ways` is how a caller goes about it; the run and the
proof have those that read the generation first (see Departures for the other).

**CacheBody** is `cache_put_if_changed` and `cache_get_if_changed` with the batches of
`zkill/mod.rs`: body and marker, each truncated and then filled in place, with failures and crashes
between. Two puts that fill the body at once may leave it `Garbled`, when their values differ; a put
cut off between the two files leaves the marker of another body. `upset` remembers either, until a
put begins to write its body alone. `MarkerVouches`: otherwise, while nobody writes, the hash in the
marker is that of what the body's file holds, so that a put that skips the body is right to.

**ConditionalCache** is one key of `net/conditional_cache.rs`. `LoadHit`, `ReadFile`, `InsertRead`
are `load`; `ServeFresh`, `Ask`, `NotModified`, `FetchPage`, `Keep` are `get_json` and `get_paged`;
`Touch`, `TouchReads`, `TouchRead` are `touch`; `CreateFile`, `WriteFile`, `InsertStored` are
`store`. `Sweep` is what another key's store does to the memory. A walk's entry carries page one's
ETag. Two pages that change, three instants, a lifetime of one and no retention: an entry is fresh
at the first, stale but usable at the second and abandoned at the third. Of `ConditionalHonest`,
`AnsweredIsCurrent` holds for any overlap of calls; `FreshIsGranted` and `MemoryIsDisk` hold as long
as calls for the key come one after the other and no
write fails (`~disturbed`), which is what the sequential code is written for.

**Production** is `modules/production`: the filter read from the two saved lists, then for each
blueprint the recipe tree (`TreeDepth`, `BuildDepth`), its price, stock, invention and fee, the
ranking, and the repricing at the best hub. `PlansSound`, of the two planners: `CheapestSourced` compares what a
row without missing materials pays with the cheapest of all build-or-buy plans over its tree, and
`RankedSound` asks that a row's profit be what its price brings less its cost however it got the
price, that rows be in that order, and that none be blacklisted in the lists the command read. The instance
has two blueprints, one of them invented, four books of recipes among which is a cycle, and markets
with and without prices; prices are multiples of what they are divided by, so integers are exact.

**MassProduction** is `massprod_plan`, the other planner: `CapsExactly` (the runs used are those asked for, or all
there are, on copies that are owned, the most efficient first) and `BuysPerCopy` (materials are
enough to install each copy as a job of its own, and not a unit more). Three stacks
per blueprint out of originals, copies and empty ones, and caps below, inside and above a stack.

**IndustryJobs** is `modules/industry/commands.rs`: per character the personal jobs, the load,
merge and save of what is kept, then the corporation's jobs. `SlotsHeld`: a slot an
answer reports in use was held by that character's own job at some moment of the call, unless the
job was cancelled and ESI lists it no more; and a job is named once, under who runs it. Two characters, a
personal and a corporation job, two calls, three instants.

### MCFeeds - what follows the outside world, and the ways through it

The run `feeds` has `stream`, `index`, `sde`, `updates`, `readers` (see MCData), `refresh` (see AuthTokens) and
`paths`.

**ZkillStream**. `Mount`, `Unmount`, `Reload`, `Lose` are the webview and its
`useZkillStreamLease`; calls arrive in order. `Subscribe` and `Unsubscribe` are the commands,
`Check`, `Arm`, `CheckAgain`, `Woken` are `wait_for_consumers`, `Connect` .. `Pause` are `spawn` and
`run_once` of `zkill/live.rs`. Time is counted in idle checks. Two features, four mounts, a reload,
two broken connections, one lost call. `NeverMissing` (at least one lease for each mounted feature,
whatever reloads left behind) and the `FeaturesServed` half of `StreamServes` are stated for as long
as no call was lost; `WindsDown`, the other half, without condition.

**KillIndex** is the index behind it: `push`, `prune`, the cap. `RecentKept`: an event in the
window is dropped only by the cap, and the cap takes the oldest arrival. Delays of 0, 2 and 4 ticks
against a window of 2, events 2 ticks ahead, a cap of 3.

**SdeUpdate** is `sde_update` and `download_sde`, step by step over the three paths and the *files*
behind them: `CreatedAt` returns the file that is there, truncated, or a new one, and `Fill` says
whether what is in it is one dump. `remote` is read before the download, `fetched` is what the download
brought, `Record` stores the former. `Fails` and `Restart` leave what is there. Updates are retried,
forced or not, on three files (database, archive, new database): one of them with three dumps and
three faults (focus `sde`), and two with two dumps and one fault (`updates`), as `auto_refresh` and the
user's button may be under way together. `DatabaseSound`: `DatabaseWhole` and `SidecarNotAhead`, until
two updates have been *downloading* at once (`overlapped`; that one asks while the other downloads does
no harm), of which nothing is claimed and where the run stops. `StaysCurrent` is claimed while nothing
has failed or overlapped; a lost md5 ends it for good (see Departures).

**Routing** is one step per vertex popped: `wh_route` over gates and the holes that let the hull
through, `engine::distances` under each preference, the breadth-first search, the tree and the order
of `pochven`'s scan. `WaysSound`: `RouteIsCheapest` and `DistancesAreLeast` compare what the loop
answers with the least cost over all ways of at most as many hops as there are systems (`Ways`), by
gates and by the connections that hull and pilot accept. `ScanSound`: `TreeIsMinimal` asks for the
smallest tree among the systems the code considers, which are those of one shortest path per pair, and
bounds it by joining the terminals pair by pair (`PairByPair`); `ScanNumbersAll`: each
candidate in range gets a number of its own. Three graphs of six systems (a ladder, one in two
parts, a ring), three chains of holes with one that is parallel to a gate and one too small.

### MCTools - what a player leaves running, and the fitting tool

The run `tools` has `dps`, `bridge`, `trail`, `fit` and `cap`.

**DpsMeter** with **BucketFold**: `BucketFold` are the operators of `modules/dpsmeter/bucket.rs` (a
fold is its accumulators; a closed one stays amendable for a while), `DpsMeter` the commands and
loops of `modules/dpsmeter/commands.rs` and the webview's chart. The game writes a line in two
halves, as late as `Lags` says; a relog starts another file; a capture picks the newest log of its
character, reads what was appended, feeds whole lines, closes buckets after `Grace`, rescans. A
replay does the same on a virtual clock with pause and seek. Each claims a number in `generation`
and ends when it finds another there. `MeterHonest`, its `FollowsTheLog`: a
capture reads the whole lines of the log it follows, in order, each once; its `GridIsLog`: the chart
has a bucket for every stretch and each line read is in the bucket of its stamp, or, when that one is
no longer amendable, in the oldest that is (said of a chart to which one capture wrote). `SupersededEnds`: a capture whose number was taken ends, paused or not. Buckets of two seconds,
one amendable, lags 0 and 4 (a line that comes two buckets late), two sessions of one character, one
capture and one other claim: what a line can do to a bucket depends on two neighbouring buckets.

**McpBridge** is `mcp/mod.rs`: `start` binds, writes the discovery file and spawns; `stop` takes the
server, sets its flag and joins on the main thread; the serving thread looks at its flag (`Look`,
`SeesStop`), waits a second for a request (`NoRequest`, `Receive`), reads its body, calls the tool and
answers (`ReadBody`, `CallEnds`, `Respond`), and ends on an error of the listener. A crash leaves the
file. `BridgeHonest`: no request is served with the token of a server that was stopped, the server
that runs is on the configured port, and the file names it unless a file operation failed.
`StopReturns`: the join ends, also when a tool is being called, unless the client of the request being
served stalls for ever (see Departures). Three servers are a start, a restart on another port and one
more.

**TravelTrail**: `route_location` polls (ask, load, append, save), `route_breadcrumb` fills in gaps,
`route_clear`; the nearest public hole. `TrailHonest`: whatever overlaps, an entry's gap is the jumps from the entry before it, or
unknown, and no entry repeats the one before. Two polls, a trail capped at two, one clear or view, a lane of
three systems and one in wormhole space, distances searched up to one jump, so that a jump of two is
out of reach.

**FitOptimizer** is `optimize_fit`: what it clears, the candidates of a slot, a weapon rack per
hardpoint class, the greedy fill, the climb by swaps, the fallback, drones and ammo. What a fit is
worth, whether it fits its hull, holds its capacitor and what it costs are the dogma engine's and
operators of the instance. `FittingSound`, its `ResultSound`: what the user fitted and the objective does
not rework stays in its place, a fit that was valid after the clearing is valid in the end, and what the
search ends with meets the constraints if any fit that was tried did; its
`LocalOptimum`: when the climb ended, no single swap of an added module is better. `SearchEnds`. Twelve modules with stacking and mutual
dependencies, six starting fits, four budgets, two objectives.

**Capacitor** is the discrete simulation of the fitting engine, one step per activation; in `FittingSound`
its `PeriodRealigns`. Durations are floating point in the code: here they are multiples of a `Fine`th of a
millisecond, which every finite set of them is for some `Fine`. `LcmPeriod` is over the full periods rounded to
whole milliseconds (`Rounded`, `capacitor.rs:402`), while activations advance by the unrounded cycle. So: a
module that starts a clip has fired as often as the factor says by which the steady drain is derated; if all
full periods are whole milliseconds, every module is due again with a full clip after each common period; and
if not, rounding alone puts a module out, by at most half a millisecond for each clip. What is left out
is the rounding of the additions themselves. Up to three modules out of seven cycles in quarters of a
millisecond, with and without clips, whole and not. **Fitting** is the two side by side; the search takes the simulation's verdict as an
operator (`CapStable`).

### MCDocuments - documents that several commands rewrite

The run `documents` has `logins` and `logouts` (see AuthTokens), `shopping`, `wormholes`, `war` and
`feedback`.

**ShoppingLists** is every command of `modules/shopping/commands.rs` on its document and the poll of
the chat capture: the logs of the channel that can be read, the messages in the window, those not
imported yet, the quantities, and the keys kept for the next time; `ChatCapture.tsx` is the panel
that polls. A message may be in two logs; a log may be unreadable for a while; a save is a truncation
and a write. `CaptureHonest`: a message is imported once since a poll last did not see it (or the
document was lost), and a message the capture is done with was imported, older than the session, of
the same second as another of its sender, or a repetition within the cooldown. `MovesConserve`: what a
move takes from one list arrives in the other. Two logs of a channel, two messages, two edits, a cooldown and a window of
two seconds over four instants.

**WormholeMap** is `modules/wormholes/store.rs` and the commands on the map. `Command` loads, its
alternatives change and save; `Saves` of `wh_connections` writes back what it pruned. The two imports
load before their feed answers or after, as the code does, and merge. `OneRowPerHole`: no two rows are
of one hole, whoever added them, unless the user changed the signatures of one. `EolClockRuns`: nothing
starts the end-of-life clock of a hole again whose row has an id of its own. A row's label is its two
signatures, filled one by one by a refresh; the history field `edited` marks a row whose label the user
changed. Two pairs of systems, three signatures and none, two edits, two imports.

**FactionWarfare** is the warzone map of `modules/intel/commands.rs`: the cache in front of the
fetch, the classification by neighbours, the samples and the trend. `WarSound`: a front has two
sides, and a trend compares samples of one occupation. Four systems of a lane, two fetches.

**FeedbackQueue** is `modules/feedback`: a submission and the retry of the queue each load the document
(`held`), wait for their deliveries and save what they loaded with the outcome; `feedback_forget` loads
and saves. A save truncates the file (`OpenFile`) and fills it (`FillFile`): in between it reads as an
empty document, a death there leaves it so, and `SaveFails` is a file that cannot be opened, which
stays, or not be filled, which is torn. `Ladder`, `SignedIn`, `SignInFails`, `Create` are one delivery of `firebase.rs`: the cached
session, else the keychain's, else a new account, then the document. The collection is external.
`QueueSound`: an entry shown as sent is in the collection, whatever overlaps (`SentIsFiled`), and as long
as no call saves a document that was changed since it loaded it, what was answered is in the document or
on its way there, in the collection, dropped by the user, or in what a save that was cut off held
(`QueueKeeps`; `cutOff`). Two submissions, two visits of the page, a history
of two entries and one retry per visit, so that the caps bind.

* `wormhole_import` - the wormhole map alone; expected violation, see Departures.
* `feedback_lost` - the feedback queue alone, with three submissions, of which none is dropped, each
  document written at once (`InTurn`); expected violation, see Departures.

Deadlock is not checked in runs whose environment (edits, commands, mounts, messages) is bounded,
or whose computations end: then the program rightly rests.

## Fairness

* Callers of a tokio mutex get **strong** fairness for taking it (`Enter`): the mutex is first come, first served, so a waiter is not overtaken for
  ever, though the lock is taken again and again in between. `StartCall` gets it because
  `parking_lot` hands a mutex over fairly from time to time.
* What has begun goes on (weak fairness): requests complete or time out, file and keychain calls
  return, the runtime polls tasks that are ready (`Loop` of the stream and of each capture), the main
  thread executes commands that arrived (`Commands`), the bridge's thread waits a second at most, tool
  calls end and the flag is seen (`NoRequest`, `CallEnds`, `SeesStop`), a `join` returns when its thread
  has ended (`Stopped`, `Restarted`), and the optimizer's loop runs on. Nothing is assumed of the
  bridge's clients: reading a request's body and writing its answer have no timeout.
* The commands on scripts go on (`CommandGoesOn`). A run of the folder sync goes on, and a saved edit is
  touched (`Touch`, `Runs`): their calls return; and the scheduler's next run comes, as it is repeated
  every few minutes.
* The clock of the script loop advances (`Minute`) and the engine's limits end script runs.
* An update of the static data is tried again and again (`Update`): `auto_refresh` runs at each start
  that is a day after the last.
* Nothing assumes that anybody calls, logs in, mounts, installs or edits, that requests succeed, or
  that a failure or crash ever happens or stops happening, except through the bounds that count
  them.

## Proofs

Checked by TLAPS, for every value of the constants that satisfies the named `ASSUME` of the module.

* **AuthTokensProofs.** `TypeCorrect`. `SingleRefresh`, with one `AuthState` and no logout:
  `LockExclusive` (two refreshing tasks never share a lock object) is inductive, and without a
  `forget` there is only one object per character (`OneLock`); both assumptions are needed, see
  Departures. `StoresAreFresh`, whatever the SSO accepts, for any number of `AuthState`s, callers,
  logins, logouts, failures and crashes. The property alone is not inductive: it says nothing of the
  token between the answer and the store. From `LockExclusive` follows that a refresh which met no
  other under another lock is alone with its character (`AloneUnlessCrossed`), so that what it was
  answered stays honoured (`AnswerInHand`): who has it retired presents another token of the character,
  and would be refreshing it. What a login was given is known to nobody else (`LoginInHand`), over
  `Issued`: tokens are issued once, and nothing replaced what was not issued.
  `RefreshSoundAlways`, for any characters and callers of one `AuthState` that nobody logs in or out,
  without a crash and without an answer lost (`Undisturbed`), whatever the keychain and the SSO
  refuse: `AtWork` (who refreshes works on the stored token, what it was answered is honoured) makes
  `Accounted` inductive, that a dead stored token is announced or about to be replaced.
* **MarketFlightProofs.** `TypeCorrect`. `FetchedOnceAlways` from `OneFlightPerGate` and the
  assumption that lookups with a type in common share a gate. `QuietAlways` and
  `StaleBeatsErrorAlways` from `KeptWhileServable`: the map holds the last value fetched as long as
  it could be served. `AnswersServable` from `InHandServable`, which also speaks of the values a
  queued caller already took. `MarginAlwaysHolds`, of `ErrorBudget`: for any calls, window, limit and
  reserve, the errors left are never fewer than the reserve less n squared and the lost responses.
  The invariant `Overdrawn` is a debt: below the reserve, an error is made by a call that is already
  sure to send, or because an older response hides that the budget is low. A response on its way
  hides it at most twice (by its remain, and by a reset that is over) and is one of the n calls' own;
  `Worth` counts the errors that the calls can still make by the responses that hide twice and once.
  The bound is exact for two calls: with one less, `market_flight` finds a counterexample.
* **ExtensionProofs**, of `ScriptScheduler`, `PluginRuntime` and `FolderSync`.
    * `SchedulerTyped`, `WakeupsNotLost` (inductive as it stands, because the second look comes after
      the future exists), `InFlightExact` (inductive with the type invariant).
    * `TypeCorrect`. `OneCall` from `LockExclusive`, which also covers the eviction that is done with
      the lock held. `ActiveInstalled`, with `SomeVersion` because an install must not register
      version zero. `FreshKept` from `EvictingFailed`: who evicts holds what failed. `BuiltSince` from
      `CurrentInv`. The property speaks of instances that were built; the invariant must also speak
      of what an invocation holds in its hands: a manifest read since the last eviction is the
      registry's (`ReadCurrent`), as long as no command is between its swap and its eviction
      (`Quiet`), and the folder agrees with the registry whenever no install is under way
      (`StagesAgree`, `RegistryAgrees`).
    * `TouchesAreKept`, for any devices, edits, failures and restarts: what `sync_touch` refutes holds
      as long as nothing falls between a run's decision and its `setMeta` (`~Overlapping`). A run
      that is going to set the manifest has a time that is not before the last touch (`RunTimes`):
      an import's is newer than the manifest was when it decided, an export's is the manifest's, a
      push's is the clock. Only a touch needs the device to itself, and only a pull, which does
      not compare, goes back.
* **FeedProofs**, of `SdeReaders`, `SdeUpdate`, `KillIndex`, `ZkillStream`, `FactionWarfare` and
  `Routing`.
    * `TypeCorrect`, `AnswersAreFresh`, `KeptAreCurrent` from `NotOlder`: nothing is older than the
      generation it is kept under, in the pool, in the slot and in each reader's hands; a generation
      is always read before what is kept under it. `ReadsAreFresh` is the refinement: the initial
      states map to initial states of `FreshReads`, a swap to `Replace`, the first step of a reader
      to `Ask`, its last to `Reply`, every other to a stutter; `Reply` needs `NotOlder`.
      `PoolBounded`, for finitely many readers: a connection is idle or in the hands of one reader,
      so counting them is a lemma on cardinalities.
    * `DatabaseKept`: any failures and restarts keep `DatabaseWhole` and `SidecarNotAhead`, for any
      number of updates, dumps and files, until two updates have been downloading at once. What has
      to be known besides them, as long as that has not been: the one that downloads is alone
      (`Alone`), the three paths are three files (`PathsApart`), what it reads and writes is at the
      paths and of the dump it got (`OnItsWay`), and the md5 was read before the dump and the
      recorded one before that (`NotAhead`).
    * `RecentAreKept`: for any delays, window and cap, a push drops nothing recent, except the oldest
      arrival when the cap is reached. `prune` stops at the first event that is recent, so what it
      drops is a prefix of old events, whatever the order of their times.
    * `StreamNeverMissing`: for any features, mounted, unmounted and reloaded in any order, each
      mounted one has its lease once the calls have arrived, unless one was lost. The count alone is
      not inductive: an `unsubscribe` of no lease is swallowed (the code stops at zero), so what the
      calls under way add up to depends on where they are. The invariant names the count after each
      call of the queue (`IsLevel`); without a loss it never goes below zero, a reload cuts it
      anywhere, and at the end of the queue it is at least the number of mounted features.
    * `WarAlwaysSound`, for any systems and overlapping fetches: the histories in the document, and
      those in the hands of each fetch, are in the order of their times and of one occupier
      (`Even`), because a sample of another starts the history anew; so no trend compares two
      occupations, also when one fetch saves over another's samples.
    * `WaysAreSound`, for any finite graph, chain, hull and preference: the router's loop answers
      cheapest ways. Its invariant is Dijkstra's argument (`RouteInv`): what a system is reached for is
      what some way costs and its predecessor's cost with the hop's; a system whose entry has left
      the heap has had all its edges tried; and nothing in the heap is cheaper than it. The reference
      counts ways of at most as many hops as there are systems, so two more facts are needed: the
      predecessors lead back to the origin in that many (`Rank`: each is strictly cheaper to reach),
      and no way at all is cheaper than what the loop found, by induction over its hops.
      `NoWayIsCheaper` states the latter for ways of any length.
* **DurableProofs**, of `CacheVersioned`, `CacheBody`, `IndustryJobs` and `ConditionalCache`.
    * `VersionedIsFresh`: with `GenerationFirst` the versioned cache implements `FreshReads`. An
      entry is never newer in name than in value, because its name is read before its value.
    * `MarkerAlwaysVouches`, for any batches, failures and crashes: puts that are under way and not
      `upset` hold one value, the body is empty or that value while one of them writes it, and a put
      past it found it there (`PutsAgree`).
    * `SlotsAreHeld`, for any roster, jobs and overlapping calls, if `JOB_RETENTION_SECS` is no longer
      than ESI lists a job that is over (both are ninety days): what a call still remembers of a
      kept job that ESI listed no more is one that ran meanwhile, was cancelled, or is over for
      longer than it is kept (`SnapSound`), and the rows of an answer are each added in their
      installer's turn (`RowsSound`).
    * `AnsweredCurrent`: for any callers, pages and overlaps of calls, nothing a caller asked the
      server for is older than its question. `HasCurrent` says what a call has of the server's pages
      at each of its steps, pages already walked and versions only growing. `CacheIsHonest` adds, as
      long as calls do not overlap and no write fails (`~disturbed`), that a fresh entry, in memory or
      on disk, was granted its lifetime by the server (`IsGranted`), and that memory holds nothing but
      what the disk has, except between the two writes of one call (`CallAlone`).
* **DocumentProofs**, of `McpBridge`, `TravelTrail`, `FeedbackQueue`, `WormholeMap` and `ShoppingLists`.
    * `BridgeIsHonest`, for any ports and number of servers: who waits on the main thread for a
      server has told it to stop, one that runs was not told and is on the configured port
      (`BridgeConsistent`), and at rest the file names it (`FileTrue`).
    * `TrailIsHonest`, on any map and for any overlap of polls, a view and clears: the trail in the
      file and the one in the hands of each call have true gaps (`TrueTrail`); cutting, appending and
      filling a gap keep them so.
    * `QueueIsSound`, for any reports, failed and torn saves and restarts: without an overlap at most
      one save is under way, a call that is not out of date holds the document itself, and one that
      saves holds the document with its outcome (`CallFits`); submissions are numbered in order
      (`InOrder`), so at most as many entries exist as were begun, and nothing but what the user
      drops leaves a history that has room.
    * `HolesMappedOnce` and `EolClockAlwaysRuns`, for any systems, signatures, feeds and overlap of
      commands and imports: in the document and in the rows in the hands of each command and import,
      of two rows that match the user relabelled one, and a row at its end of life has its time
      (`HolesInv`). By `MergeSound`, an induction over the feed, a merge keeps both: what matches a
      refreshed row matches the feed's (`RefreshedAlike`: filling a signature in can only separate
      it from others), and a row is only new when neither the rows kept nor those replaced match it,
      with an id above all of them (`Above`). To match is not transitive (a row without a signature
      matches two that differ), which is why the invariant is about every pair of rows and not about keys.
    * `CaptureAlwaysHonest`, for any channels, logs, messages, polls, edits and faults: what was
      imported since it was last out of sight is among what the document has seen (`ImportsSeen`),
      and every cooldown is the time of a message that was imported (`CooldownsTrue`), so what a
      cooldown silences repeats a real import. `LastAcceptedIs` is an induction over the seconds of
      `LastAccepted`: what it remembers is the kept cooldown or a second it accepted when it came.
    * `MovesAlwaysConserve`, for any lists, items, edits and chat: moving items between lists neither
      makes nor loses a unit of anything, as long as no list is filled above `MaxQuantity`
      (`RoomToMove`, a condition on the states before each step: beyond it the code saturates, which
      is a loss by intent). The total is a sum over the set of lists by a recursion that takes them
      out one after the other in an order `CHOOSE` fixes, so what has to be known first is that the
      order does not matter (`SumTakes`) and that lists nobody touched add up as before (`SumKept`);
      the invariant (`ListsInv`) is that there are finitely many lists and quantities are naturals.
* **ToolProofs**, of `DpsMeter` with `BucketFold`, and of `Fitting` (`FitOptimizer`, `Capacitor`).
  `MeterAlwaysHonest`, for any number of files, lines, captures, replays and amendable buckets,
  however lines are flushed in halves, relogs start files and captures are paused, replaced and
  stopped: both halves of `MeterHonest`. The property is far from inductive, since the fold forgets
  what it closed and the chart never sees what is still being filled. `MeterInv` says that every
  capture has a whole grid (`full`) of which the fold holds the end (`Keeps`), a chart of its own
  all but the last bucket, sorted (`Charted`), and in which each line read is in one place
  (`Holds`); and that this chart is the one shown once what waits to be sent arrives (`Charts`),
  while nobody else wrote to it. Pushing a line and closing buckets turn one such grid into the next
  (`Grown`, `AddedAt`), and the sort is a rearrangement (`IsReordered`). Of the log: what a live
  capture got is the lines between where it began and its offset, after lines of older files, each
  once (`Follows`); a replay's is a stretch of its log (`Replays`).

  It assumes `OneFollowed`: a character is named, or all logs are of one, which the code calls
  "single-boxer behavior" (`pick_newest_gamelog`, `modules/dpsmeter/commands.rs`). With nobody named
  and two characters in play, a capture goes over to the log written last and reads it from its
  beginning each time it comes back to it, so lines are counted twice. Of one character that cannot
  happen, as its newest log is the one written last (`Newest`).

  `SearchIsSound`, for any hull, candidates, engine, prices and request: `ResultSound` and `LocalOptimum`.
  The invariant (`SearchInv`) is per phase: the fit extends what was kept and is valid if that was
  (`Sound`), its score is the current one while it is valid, the fallback is a fit that extends it too
  and met the constraints (`FallbackSound`), and, in a round of swaps in which nothing improved yet, no
  added item before the cursor has a better module (`Tried`, `Settled`): a swap that helps voids this by
  setting `improved`, which sends the climb round again. That the trial taken is really the best, and
  the fallback the best of those that met the constraints, rests on `FirstBestIs`, an induction over
  the number of trials without which the `CHOOSE` of `Best` and `Noted` says nothing; that a list of
  candidates keeps exactly what passes its filters is `OnlyKeeps`, another.

  It assumes what the engine is (`EngineAssumption`): a metric is a natural number, and drones and
  charges do not change whether a fit is valid, since `evaluate` resolves the modules alone. TLC
  evaluates both for the instance, on short fits.

  `CapacitorRealigns`, for any modules with a cycle and any `Fine`: `PeriodRealigns`. Every module is on
  time (`OnTime`): it made `q` whole periods and `j` shots of the one it is in, is due after them and not
  before the last event, and its clip lacks `j` (`CapInv`); whole clips have been fired only when `j` is
  none (`ClipStarts`). The common period is a multiple of every module's as rounded
  (`PeriodIsCommon`, an induction over the modules, on `GcdDivides`, one over the second argument of
  Euclid's recursion, whose definedness is `GcdDefined`); so, where nothing had to be rounded, a multiple
  of it after the last event and not after the next can only be when each module begins a period
  (`OnTimeAligned`), and elsewhere `n` clips are off by `n` times what rounding one takes (`RoundedIs`,
  `DriftIs`). That the divisor is the greatest is not needed. `FittingAlwaysSound` puts the two
  together, as the run checks them.
* **StepLemmas** is what these proofs need of recursion and is about no component: induction over the
  naturals and over finite sets as facts about sets (`SetInduction`, `SubsetInduction`), since the library
  states them for predicates, which no prover here can instantiate; that a recursive definition has a
  function that satisfies it (`StepsDefine`, `StagesDefine`, `SumDefined`), without which its `CHOOSE`
  says nothing; and sums over finite sets.

Only model-checked:

* liveness under fairness, which the prover does not reach: `LookupsReturn`, `ArmedTicks`, `Converges`,
  `InvocationsReturn`, `StreamServes`, `StaysCurrent`, `SupersededEnds`, `StopReturns`, `SearchEnds`;
* `PlansSound` and `ScanSound`: what `Production` and the Steiner tree compute is compared with a
  minimum over all plans and trees. These recur over trees and subsets several times over, `Production`
  by `RECURSIVE` operators, which the prover does not take.

Proved and not run are `QuietAlways`, `AnswersServable`, `OneCall`, `ActiveInstalled`,
`AnswersAreFresh` and `KeptAreCurrent`.

## Departures from what the code says

Five are runs of their own, expected to fail:

* `auth_logout_race` / `LogoutForgets`: `auth_logout` does not wait for a refresh under way, which
  then stores its rotated token and caches an access token for a character that is gone
  (`esi/commands.rs:359-360` promises all three are removed).
* `scripts_parked` / `SaveTakesEffect`: a tick loads the scripts and then sets the flag from what it
  loaded (`modules/scripts/scheduler.rs:137`). A save that arms a script in between sets the flag
  first and the tick clears it; the loop parks with an armed script stored. The run's specification
  leaves out failed writes, loads of a half-written file and commands before the first load, none
  of which it takes.

* `wormhole_import` / `ManualKept`: "Manual holes are preserved" says `modules/wormholes/commands.rs`
  of the EVE-Scout import. It loads the map before its request and saves what it merged after the
  answer: a row the user added meanwhile is gone.
* `feedback_lost` / `WordsKept`: "the user's words are never lost to a dropped connection" says
  `modules/feedback/commands.rs:349-351`. `feedback_retry_pending` saves the document it loaded before
  its requests: what the user submitted meanwhile, and could not be sent, is gone.
* `sync_touch` / `TouchedIsNewer`: "call this everywhere a synced module's data changes [...] so the next
  sync knows this device has the newer copy" says `src/src/lib/sync/manifest.ts`. `pushAll` and an import
  fix a time, await and then set the manifest to it: a touch in between is set back.

The others were met while modelling. The models contain the steps, and the properties that run say
under which condition they hold:

* *Credentials.* The plugin manager builds an `AuthState` of its own (`plugins/manager.rs:120`), and
  `forget` removes a lock that is held (`token_cache.rs:244`): in both cases two refreshes of one
  character overlap, and if the SSO accepts a replaced token both rotate, and the token stored last
  may be the one that was retired, which is what the comment at `token_cache.rs:175-179` says the lock
  prevents: without its exception for such refreshes `NeverStoresRetiredToken` fails in either way. A re-authorization can be overwritten by the successor of the older grant, as
  `auth_login` does not take the lock. Login (a task) and logout (the main thread) edit
  `roster.json` without one: a logout of one character can drop another that was just added. The
  login clears the warning flag some steps after its store, also when a refresh set it in between.
* *Scripts.* After a pause the ticker fires every missed deadline at once (tokio's default, Burst):
  a script with interval one is started over and over. A run given up on (`engine.rs:225`) goes on
  next to the one the next tick starts; it can also make the key-value store of a deleted script
  again, which the next script of that name inherits. A process that dies while a document is
  rewritten in place (`storage/mod.rs:366`) leaves one that reads as empty.
* *Plugins.* An instance built across a deactivation or a reinstall is put in the map after the
  eviction (`manager.rs:169`). A call queued on an instance that then fails runs on it next. A rescan
  reads the folders before it locks the registry (`plugins/mod.rs:154-156`): an install that ends in
  between is in the folder, but the registry goes back to the manifest read before, or to none, and
  what is built from then on runs the new wasm under the old grants, until the next rescan, install
  or launch.
* *Static data.* Two updates that download at once share the `.part` paths: one may rename a file the
  other is still writing, or record the newer md5 beside the older database; without `~overlapped`
  `DatabaseSound` fails in either way. A database without a recorded md5 is never found out of date.
* *Versioned entries.* `fitting_target_profiles` (`modules/fitting/commands.rs:1517-1518`) opens the
  database before it reads the generation it stores the result under: an update in between leaves an
  old answer under the new generation ("so an SDE update invalidates it immediately", says its
  comment). With `"connection first"` in
  `Ways` the refinement fails.
* *HTTP cache.* `touch` loads the entry again after a 304: the deadline granted to one body can be
  given to another caller's. Two stores of a key can end in opposite orders in memory and on disk.
  A store whose write fails leaves the older entry on disk; when memory is swept before the next
  304, `touch` prolongs that older one.
* *Hash-marked documents* (`storage/mod.rs:481`): body and marker are two writes; a put cut off in
  between, or two of different values at once, leave a marker that is not that of the body, or a body
  that does not parse under a marker that says it is current. It is then not written again until the
  provider's answer changes: every batch fetches anew, and the comparison finds nothing to write.
* *Killstream.* Unsubscribing after a subscribe call that failed takes another feature's lease
  (`useZkillStream.ts:16`): with the lost calls dropped from `NeverMissing` and `FeaturesServed` both
  fail. The grace period is sampled: a lease taken and released between two checks does not restart
  it. The index of kills is pruned only when an event arrives.
* *Error budget.* The last response *handled* is what counts, not the last one sent: an older one
  hides that the budget is low. `MarginHolds` says how far that can go.
* *DPS meter.* A seek skips every event of the second it seeks to (`commands.rs:436-442`). A new seek
  clears the chart before the backend claims its generation (`useDpsPlaybackState.ts:381`), so the
  old replay may write into the new chart; `dps_playback` claims only after the log is loaded.
  Switching back to an earlier log reads it from its start again. The log's language is detected
  once, and the caches of ore volumes and weapons keep a zero that was read while there was no SDE.
* *Shopping.* A log that cannot be read for a while, or is quiet for a day, loses its keys: its
  messages are imported again when it is back, although the poll is documented to import once. The
  panel clears "since now" before the first poll is sent (`ChatCapture.tsx:63`), whatever becomes of
  that poll; its text (line 120) says otherwise. Two messages of one sender in the same second are
  taken for one; a paste that names an item on two lines counts the first. A document torn by a crash
  reads as empty, and the next save makes that final.
* *Feedback.* A save that is cut off loses the whole queue, without any overlap: `save_data` truncates
  the document in place and `load_store` (`commands.rs:219`) reads a torn one as empty. A document whose creation was not answered is sent again, and is then in the collection
  twice. Not in every case does "the same install" keep "the same `uid`" (`firebase.rs:11-13`): any failure of the refresh, also
  one of the network, is taken for a revoked token and signs up a new account.
* *Folder sync.* An edit whose app dies before it touched the module is not exported until the next edit.
  A file another device is still writing reads as none, and the reader writes its own.
* *Wormholes.* Ids can be given twice when one feed's row becomes two. A change of signatures can
  make two rows describe one hole (`wh_update_connection` asks nothing of them; the row is `edited`).
  A refresh fills in the source's and the target's signature each for itself, so that a row a feed lists
  the other way round may get a pair that no hole has.
* *Travel trail.* A poll under way brings back what a clear removed.
* *Routing.* The scan's tree looks at one shortest path per pair and so need not be the smallest. A
  candidate out of range that lies on the tree takes a number, so the numbers shown may have a gap.
* *Faction warfare.* Overlapping fetches lose samples, or cache the older answer with the later
  time. The pilot's own statistics cache a failure for ten minutes.
* *MCP bridge.* Reading the body (`mcp/mod.rs:246`) and writing the answer (263) have no timeout: with a
  client that stalls in either, a stop or a change of port does not return, and with it the main thread,
  which holds the lock. An error of the listener ends the serving thread while `running` stays set. A restart
  on a port that is taken leaves the bridge off. A crash leaves the discovery file.
* *Capacitor.* The doc of `lcm_period_ms` says that after the period "every module's clip/reload cycle lines
  back up simultaneously" (`capacitor.rs:390-391`), as durations are whole milliseconds. They are after bonuses (`stats.rs:1317`) and need
  not be; then modules drift apart, by up to half a millisecond per clip. The period only sizes the chart.
* *Optimizer.* The fit it starts from is never a fallback; drones and ammunition are added after the
  last look at the budget; the climb may break the uniformity of a rack when it fills empty slots
  only; an infeasible remainder is returned cleared when everything is reworked.
* *Production.* The repricing at a hub does not clear "missing prices". A component that is itself
  invented costs no invention. A missing adjusted price counts as nothing in the fee. Stock is netted
  per row, and at the top of the tree only. `BuildDepth` (8) never binds below `TreeDepth` (5). A plan
  for mass production ignores the runs of a later line with the same blueprint.
* *Industry jobs.* A corporation's invention marks the first roster member as busy. A cancelled job
  that ESI lists no more holds its slot until its retention ends.

## Not modelled

Each is a component in `PROJECT.json` with its reason. In short: text formats and parsers (chat and
combat logs, EFT and DNA, manifests, archives), numeric engines in floating point (the dogma engine,
trading, aggregation), read-only SQL, joins of cached answers, one-shot requests, cryptographic
formatting of the login, wiring and most of the frontend.

Within the modelled components: the loopback server and PKCE, the choice of the active character, the
length of backoffs, the once-a-day gate of `auto_refresh`, progress events, the parsing of cache
headers, of killmails and of log lines, manifest validation, job times and display fields, pasted
signature lists, the payload of feedback and who may send it, the choice of the shared folder and schema
versions, the jump planner's mass budget, the reference tables and the Tripwire account of the
wormhole module, the tables of activity around the routes.

**How much of the code this is.** The definitions stand for about 8,900 lines. A third of the Rust
sources are unit tests inside them, and of the rest the greater part is of the kinds named above:
`fitting/stats.rs` alone is three thousand lines of attribute formulas in floating point, the parsers
of the logs and of the fits another four thousand, and most `commands.rs` spend their length on
building the rows of an answer out of one SQL query and one cached response. A model of these would
repeat the formula it is to be checked against; unit tests with known values, which the repository
has, say more about them. The large part of what is left that has an order of its own, or a
definition to be compared with, is in the plan.

## Plan

Done: 28 modules of model, proofs about twenty-six of them, the refinement of `FreshReads` twice. Left, in
order of weight:

1. **Compositions.** `SdeUpdate` under `SdeReaders` (what a reader sees is one whole dump through
   every crash of the update); `ConditionalCache` on top of `ErrorBudget`; `ZkillStream` feeding
   `KillIndex`; a tool call of `McpBridge` entering `PluginRuntime`.
2. **The roster document** as a second small machine beside `AuthTokens`: its unlocked
   read-modify-write by a login and a logout is in the steps, and no property is about it yet.
3. **More abstract specifications**: a register of one version per type that `MarketFlight`
   implements; a set of leases that `ZkillStream`'s count implements while no call is lost; a vault
   (token or nothing, warned or usable) that `AuthTokens` implements with one `AuthState`.
4. **Pure operators**: walks over an order book limited by volume, the first-in-first-out ledger of
   trading, the jump planner's mass budget, the merging of pasted signatures.
5. **Proofs**: `ScanNumbersAll` of the Steiner tree, whose numbering is a fold; the type invariants of
   the modules without proofs.
