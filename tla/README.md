# ACE-Lite: a verification project in TLA+

ACE-Lite is a Python program that plans code changes: for a query and a
repository it runs a pipeline of stages (memory, index, repository map, ...,
source plan, validation) and returns a plan payload.  Around the pipeline are
caches, journals and databases shared by command line runs, a long-lived MCP
server, worker threads and child processes.  This directory holds TLA+ modules
that model the parts of it where interleaving, kills, retries and stale state
decide whether the answer is right, the configurations TLC checks them with,
and proofs, checked by TLAPS, that the most important properties hold for every
value of the constants.

Paths below are relative to `src/src/ace_lite/` unless they start with `src/`.

Contents: 1 the system, 2 what is modelled, 3 the runs, 4 what is proved,
5 assumptions and abstractions, 6 where the code departs from its documents,
7 what is not modelled, 8 plan.

## 1. The system

| Part | State it keeps | Operations | Talks to | Hard behaviour | Correct when |
|---|---|---|---|---|---|
| Timed plan call (`plan_timeout.py`) | a process-wide thread pool, a future per call | submit, wait, time out, cancel, dump a stack | orchestrator, in a worker thread | a timed-out worker is not stopped and runs beside its retry | late workers spoil nothing a later call reads; every worker ends |
| Orchestrator lifecycle (`orchestrator*.py`) | a context (dictionary of stage payloads) per plan | nine stages in order, contract checks, finalization | stages, hooks, replay cache, agent loop | contract errors before, at and after the source plan; partial reruns over a shared context | the payloads a plan is built from belong together |
| Plan replay (`orchestrator_replay.py`, `plan_replay_cache.py`, `orchestrator_source_plan_replay_service.py`) | source plans under a fingerprint of their inputs | key, lookup, store | stage artifact cache | key computed from payloads read earlier and files read now; repository edited meanwhile | a replayed source plan is the one the payloads beside it would give |
| Agent loop (`agent_loop/`, `orchestrator_runtime_post_source.py`) | counts, history, query refinement | select action, rerun a suffix of the stages, record | orchestrator stages | bound, errors within an iteration, refinements left over | bounded, every action accounted for, no stale refinement |
| Stage artifact cache (`stage_artifact_cache*.py`) | SQLite row, payload file and temp file per key; hot tier per process | put, get, bounded collection, vacuum, verify, temp sweep | SQLite, file system | no common lock; writers share temp paths; collectors work from earlier reads | hits are whole payloads of the key asked for; garbage goes in the end |
| Resumable index build (`indexing_resilience.py`) | state file, journal | batches, child process with timeout, retries, resume | parsers, file system | killed between or within writes; resumed with other settings; child blocked on its pipe | no file past the checkpoint is lost; counts add up; a run ends |
| Git-aware index cache (`index_cache.py`, `indexer.py`, `vcs_*.py`) | index file with commit id and `.aceignore` state, cached git status | load, incremental refresh, full build, save | git, file system | git's view of what changed against the index's; git late; file written in place by several processes | a refresh returns what a full build would |
| Index stage signals (`index_stage/parallel_*.py`) | shared executor of two workers | submit, await under one deadline, cancel, give up | docs and worktree collectors | abandoned tasks keep workers busy | every call goes on in time; no worker serves a call that has gone on |
| Runtime statistics (`runtime_stats_store.py`) | invocations, rollups by scope | record, add to or rebuild rollups, read a snapshot | SQLite | incremental rollup against rebuild; a snapshot of several queries | rollups are those of the recorded invocations |
| Runtime database (`runtime_db*.py`, `runtime_stats_schema.py`) | schema and its version | open, migrate | SQLite | processes of different releases open at once | an open database has what its release needs |
| Local memory providers (`memory/local_cache.py`, `local_notes.py`, channels) | file of rows by query and handle | search, fetch, prune, save | memory service | load, call, save without a lock; one temp name for all | no text is older than its time to live |
| Embedding index (`embeddings_index_store.py`, `chunk_cache_contract.py`) | file of vectors and hashes by path, with the chunk contract they were made under | load, compare contracts and hashes, encode, save | reranks of the index stage, embedding providers | saved in place by threads past their time budget; hashes taken over between states of the repository | a vector is that of its file's text |
| Long-term memory and feedback stores (`memory_long_term/`, `feedback_store.py`, ...) | SQLite, JSON | record, search, retain | | | retained as configured |
| Reward log (`router_reward_store.py`) | list of pending futures | submit, flush | a thread pool | list rebuilt without a lock | every reward written once |
| Config watcher (`runtime/hot_reload.py`, the `watch-config` command) | fingerprint and pending change per layer | poll, debounce, reload | file system | edits between stat and read, in the debounce time, within a reload | the last load is what the layers hold |
| Settings store (`runtime_settings_store.py`, `cli_app/runtime_settings_support.py`) | current and last known good record | persist, load with fallback, inspect | file system | commands share the temp files, may be killed; bytes that do not decode | one of the two stays loadable; no command fails on its files |
| Scheduler and runtime manager (`runtime/scheduler.py`, `runtime_manager.py`) | jobs and next ticks; services | tick, start, stop | all of the above | | |
| MCP server (`mcp_server/`) | in-flight counters under one lock | dispatch | the plan call | none of its own | |
| Plugins and hooks (`pipeline/`, `plugins/`) | slot contributions of a stage | before and after a stage | orchestrator | contract errors | contract errors end the plan in the documented way |
| Retrieval, ranking, parsing (`retrieval*`, `rankers`, `chunking/`, `repomap/`, `source_plan/`, `parsers/`) | none | scores and text | | floating point | not in reach of TLC in a faithful form |
| CLI, configuration, reports, benchmarks | none | argument handling, offline evaluation | | | |

Who runs what, and when: a command line run or an MCP request calls
`execute_with_timeout`, which submits `orchestrator.plan` to a thread.  The
orchestrator runs its stages in that thread; before the source plan it looks
the plan up in the replay cache, which is the stage artifact cache under the
stage name `source_plan`; after validation the agent loop may rerun a suffix of
the stages.  A session's shutdown hook runs the bounded collector of the
artifact cache.  `ace-lite index --batch` runs the resumable index build on its
own.  All of this may happen in several processes on one repository.

`PROJECT.json` lists every hazard of this code we know of, at its line, with
the properties that catch it going wrong, or the reason why none does yet.

## 2. What is modelled

| Module | Models | Kind |
|---|---|---|
| `HotTier` | `_StageArtifactHotTier`: an ordered dictionary with two limits | pure operators |
| `LossyCache` | what the artifact cache promises its callers | abstract specification |
| `StageArtifactCache` | put, get, collectors, kills; one action per system call or SQLite transaction | component; implements `LossyCache` |
| `IndexingResilience` | the resumable index build with its child process | component |
| `IndexCache` | `build_or_refresh_index` with load, git, update, build and save | component |
| `PlanLifecycle` | timed call, nine stages, replay, agent loop; uses `LossyCache` for the replay cache | component, composed over the abstract cache |
| `PlanReplayStore` | the replay cache itself: artifact cache first, a file of entries behind it | component; uses and implements `LossyCache` |
| `ParallelSignals` | the docs and worktree signals on a shared executor | component |
| `RuntimeStats` | facts, rollups and snapshots | component; the rollups as functions of the facts |
| `RuntimeDb` | opening and migrating the database | component |
| `ConfigWatcher` | `ConfigWatcher` and the loop of `watch-config` | component |
| `SettingsStore` | persist and load of the settings records | component |
| `LocalCache` | the file cache in front of a memory provider | component |
| `EmbeddingIndex` | `build_or_load_embedding_index` and the contract it compares | component |
| `MC*` | small instances for TLC | |
| `*Proofs` | theorems and TLAPS proofs | |

`StageArtifactCache` and `PlanLifecycle` meet in `LossyCache`: the first is
shown, by TLC and by a proof, to implement it, the second is built on it.  So
the plan lifecycle's properties hold whichever way the cache loses, collects or
is interrupted.  `PlanReplayStore` closes the gap between them: between the
lifecycle and the artifact cache is a file of entries, and the store built of
both keeps the same promise.

The hot tier, `RuntimeStats`, `ParallelSignals`, `ConfigWatcher`,
`SettingsStore`, `PlanReplayStore`, `RuntimeDb`, `LocalCache` and
`EmbeddingIndex` share no state with each other.  `MCServices` puts their small instances into one
specification: the first state chooses the part that runs, the others stand
still, so TLC explores the sum of the nine state spaces and not their product.

### 2.1 Hot tier (`HotTier`, checked by `MCHotTier` within `MCServices`)

A tier is `[order, held, total]`: the `OrderedDict` split into the order of its
keys and what they hold, and `_token_total`, which the code maintains beside it.
`HotTouch` is `get`'s `move_to_end`; `HotPut` is `put`: pop the old entry,
refuse what can never fit, insert, evict.  The eviction loop is stated without
recursion as the smallest number of oldest entries after whose removal the tier
fits.  Every operation runs under the tier's lock, so it is one operator.

### 2.2 Stage artifact cache (`StageArtifactCache`)

| State | In the code |
|---|---|
| `row[k]` | row of the metadata table: digest, `expires_at`, `orphaned` |
| `dbLock` | a collector's `BEGIN IMMEDIATE` is open |
| `payload[k]`, `temp[k][w]` | the files; each is its bytes and the threads that hold it open for writing |
| `hot[p]` | hot tier of process p |
| `op[t]` | local state of a call: where it is, the row it loaded, the bytes it read |
| `gc` | local state of the one collector that runs |
| `clock`, `faults`, `written` | time, a bound on kills, and the history of what `put_artifact` was given |

A put is `PutLoad`, then `PutKeep` or `PutBegin`, `PutOpen` (`open("wb")`, which
truncates a temp file another writer may hold), `PutWrite`, `PutReplace`
(`os.replace`, which may move the other writer's half-written file),
`PutCommit`, `PutFill`.  A get is `GetLoad`, `GetHot`, then `GetTouch` or
`GetStat`, `GetRead`, `GetOrphan` or `GetRefresh`, `GetFill`.  `GetTouch`,
`GetOrphan` and `GetRefresh` write back the row loaded at the start, over
whatever is there by then, as the code does.  The `Gc` actions are the four
collectors: bounded, vacuum, verify, and the temp sweep.  `Crash` kills a process, `GcCrash` a
collector (its open transaction rolls back, its unlinks do not), `GcExhaust`
ends its time budget, `Abort` is an exception that leaves a call.

### 2.3 Resumable index build (`IndexingResilience`)

`saved` is the state file; `entries` is what reading the journal would give, for
each file the version of its last legible line; `torn` says that the journal
ends within a line and `garbled` that it holds bytes that are not UTF-8.  A run
is `StartFresh` (write the state file), `Truncate` (empty the journal; a
separate write), or `StartResume` or `RejectResume`; then per batch `Parse`, or
`Spawn`, `ChildExit`, `ChildFlush`, `JoinExited`, `BatchTimeout`;
`AppendJournal`; `CheckpointBatch`; then `BeginRetries`, `CheckpointRetry`, and
`Build`.  `Crash` may come between any two of them and `CrashInAppend` within an
append.  Files are created, modified and removed at any time.  `Flaws` names
what may go wrong besides kills: `"tear"` (an append cut within a line),
`"split"` (within a character), `"blank"` (a failure without a message), `"big"`
(events that do not fit the pipe, so that the child's exit waits for a reader).

### 2.4 Plan lifecycle (`PlanLifecycle`)

| State | In the code |
|---|---|
| `plan[c].out` | the context's stage payloads, each abstracted to the refinements in its query (`level`), the pass that wrote it (`pass`) and the version of the world it read (`saw`) |
| `plan[c].made` | what the source plan was made from |
| `plan[c].pc`, `.next` | where the lifecycle is and the next stage |
| `.key` | the replay key of the lookup that missed |
| `.error` | the stage whose contract broke |
| `.action`, `.requested`, `.executed`, `.stop`, `.refinement`, `.level` | the `BoundedLoopController` and `ctx.state` |
| `caller[c]` | what `execute_with_timeout` has returned |
| `world` | version of the repository and the memory store |
| `given`, `answer` | the abstract cache |

`Submit`, `Deliver`, `Timeout` are the caller; `Timeout` cancels a worker that
has not begun and leaves any other running.  `Start`, `RunStage`, `RejectStage`
are the stages; `SkipReplay`, `LookupMiss`, `LookupHit`, `Reuse`, `Store` the
replay; `Select`, `Iterate`, `Exhaust`, `RecordIteration` the agent loop;
`Finalize` and `Raise` end `plan()`.  `Edit` changes the world between any two
steps.  What validation asks for next, where a contract breaks and whether the
cache still has an entry are left open.

Facts about this code that reading and modelling brought out, and that the model
has:

- after a contract error in a stage before the source plan the lookup is made
  all the same, and a hit is dropped;
- a timed-out worker goes on to store its source plan, and later callers may be
  answered with it; `SourcePlanIsCurrent` is why that is harmless;
- only the source plan of the first pass is stored; those of reruns are not;
- with `max_iterations` 0 and an action selected, the loop stops with
  `max_iterations` and one action requested but not executed;
- a request for more context without hints reruns the stages with an unchanged
  query;
- a `TimeoutError` raised inside `plan()` is reported as the call's own timeout.

### 2.5 Git-aware index cache (`IndexCache`)

| State | In the code |
|---|---|
| `past[p]` | every content the path has had; the position of one is its version and stands for modification time and size |
| `trees` | the commits; the last is HEAD |
| `disk` | the index file: none, bytes that do not parse, or an index labelled with a commit and the `.aceignore` state |
| `memo[c]` | the git status process c remembers |
| `op[c]` | a call: the commit id and ignore state it began with, the index it works on, what git told it, the files still to do |
| `writers`, `crossed` | who holds the index file open for writing |
| `sure` | history: every git status so far was fresh, and no commit fell within a call |

`Begin` reads HEAD and the ignore state.  `Load` takes the index of the right
commit; `Bridge` takes that of another with what `git diff` says of the commits in
between, and `BridgeFails` goes for a full build.  `Status`,
`StatusRemembered` and `StatusFails` are `detect_changed_files_from_git`: fresh,
from its memo, and timed out, which the code treats as a clean worktree.  The
decision is `KeepAll`, `IgnoreChanged`, `NoneEffective` or `Update`; `Skip`,
`Drop` and the two steps of `parse_file` (read, then stat) are the loops of
`update_index` and `build_index`; `SaveOpen` truncates, `SaveWrite` writes, in
place.  `Edit` and `Commit` come between any two steps, and `Kill` ends a call
anywhere.  `Flaws` adds what the passing runs leave out: `"undo"` (a path gets
an earlier content back), `"race"` (an edit between the read and the stat of one
file), `"unborn"` (a repository without commits); `Nested` are files alone in an
untracked directory.

### 2.6 Runtime statistics (`RuntimeStats`)

`facts` is the table of invocations, `rollups` the tables of counts and
latencies by scope: a count for each mark (status, contract error, replay,
reason code, ...) and a summary for each latency line; the line `"total"` carries
`invocation_count`.  `Begin` is `BEGIN IMMEDIATE` with the look-up of the
invocation, `Commit` adds the report to its scopes if the invocation is new, and
replaces the fact and rebuilds the scopes it was in and is in now if it is not.
`Rollback` is an error or a kill.  `Look`, `ReadScope`, `Return` are
`read_snapshot`, one query per scope, the session first.

### 2.7 Runtime database (`RuntimeDb`)

`schema` is the committed version and which of its pieces exist; a piece is what
one migration adds.  `ReadVersion` reads the version in a transaction of its
own; `BeginMigrating`, `Apply` per migration, `CommitMigrations` are the one
transaction of the rest.  SQLite's rules are external: the transaction sees the
database as of its first statement, and its first write is refused at once
(`Refused`) if another has committed since, or waits and may give up
(`GiveUpLock`).  The openers are of releases 1, 3 and 3, on a database left at
version 0, 1 or 2.

### 2.8 Plan replay store (`PlanReplayStore`)

`artifact` is what the artifact cache was given, of which a look-up may get any
or none; `stamp`, `body`, `whole` are the JSON file of entries; `recall[p]` is
`_PLAN_REPLAY_MEMORY_CACHE` of a process.  A look-up is `Get`, then `Stat` and
`Parse` of the file.  A store is `Put`; on success it replaces the file by a
marker, on failure it loads the entries, pushes its own and writes them
(`OpenFile`, `WriteFile`, `Remember`).  The file is written in place without a
lock, and remembered under the stat of whoever wrote last.

### 2.9 Parallel signals (`ParallelSignals`)

`stage[c]` is where a call of `collect_parallel_signals` is, `signal[t]` what it
has taken for a task, `queue`, `running`, `ended`, `dropped` the executor.
`SubmitDocs`, `SubmitWorktree`, then for each of them `Await` with its cases
`Unwanted`, `Result`, `Late`, and `Cancel`, which has an effect only on a queued
task.  `Take` and `Finish` are the workers; a task that hangs is chosen in the
first state.  A call without parallelism runs the two collectors itself.

### 2.10 Config watcher and settings (`ConfigWatcher`, `SettingsStore`)

In `ConfigWatcher` a poll is two steps, `PollStat` (time and stat) and
`PollRead` (bytes, and the decision); after a round with a change `LoadLayer`
reads the layers again, one at a time, and `EndRound` ends the command if what
it loaded is invalid.  `EditConfig` and `Tick` come between any two.

In `SettingsStore` a process runs one command after the other.  Every command
resolves the settings: `StartCommand`, `LoadSettings` (one file after the other,
as far as the first valid record), `UseDefaults` if there is none, and
`CheckSettings`, the governance payload, which reads both files.  It then ends
or persists: `Persist`, and `Open`, `Write`, `Replace` for the current file and,
when it may, for the last known good one, both through temp files with fixed
names; afterwards it reads both files again.  A rename moves the file another
command holds open, so names and files are modelled apart.  A file is whole, cut
(no load takes it) or garbled: the record is written with `ensure_ascii=False`,
so bytes may be cut within a character, and the `UnicodeDecodeError` of
`read_text` is none of what `load_runtime_settings_record` catches.  `crossings`
and `seen` count how often commands came to persist beside another, since both
files were whole and none persisted.

### 2.11 Local memory cache (`LocalCache`)

A row has a query, a handle, a text version and the time of its last update.
`Search` and `Fetch` load, prune and, if rows were evicted, save; what is not in
the cache is asked of the provider between the load and the save (`Searched`,
`Fetched`, `UpstreamFails`).  `OpenSpare`, `Close`, `Supplant` are `_save_rows`,
through a temp file whose name all processes share; `Loaded` is a read that may
meet a file still being written; `KillClient` leaves part of the rows.  `Revise`
changes a memory upstream, `Pass` is a day.

### 2.12 Embedding index (`EmbeddingIndex`)

`listing` is the code index, `vectorIndex` the file, `building[b]` a call in a
thread.  What a version of a file is, is given by two constants: `TextOf`, the
text that is embedded, and `Sees`, its fingerprint in the chunk contract.  They
differ because the contract counts a repeated import or reference once, and the
text has it as often as it occurs, while a symbol that only moves to another line
changes the contract and not the text.  `BeginBuild` takes the code index as it is, `TakeIndex` reads
the file and decides, or `BuildAll` when there is none of the provider's;
`Encode`, then `OpenIndex`, which truncates, and `WriteIndex`.  `Relist` changes the code
index between any two steps, and a rerank past its budget
(`index_stage/rerank_timeouts.py`) is a builder that goes on beside the next.

## 3. The runs

| Run | Instance | Distinct states | Shows |
|---|---|---|---|
| `cache_race` | 2 processes, one temp path, 2 payloads, bounded collector and vacuum | 2.0 M | `HitsWhole`: no answer of bytes nobody put under the key; `LossySpec`: refinement of `LossyCache`; `TypeOK` |
| `cache_publish` | 2 processes, own temp paths, verify and sweep, one kill | 97 k | `PayloadWhole`: the payload path always holds one whole payload; `ReadyHasPayload`: rename before commit |
| `cache_reclaim` | one process, bounded collector, 2 faults | 49 k | `ExpiredReclaimed`, `OrphanFilesReclaimed`, `TempsReclaimed` (liveness) |
| `cache_spares` | as `cache_race` | violation | the collector unlinks the payload of a row committed since it read the rows |
| `index_resume` | 2 files, 2 versions, 3 runs, four settings, full pipe | 0.18 M | `CheckpointCovered`, `CompleteIsWhole`, `TalliesAddUp`, `FreshReadsAll`, `TypeOK`, `RunsEnd` (liveness) |
| `index_resume_stale` | 2 files, no timeouts | violation | killed between the reset of the state file and of the journal, then resumed |
| `index_torn` | 2 files, torn appends | violation | killed within a journal line, then resumed |
| `index_cache` | one caller, 2 files of which one imports the other and one is hidden by some versions of `.aceignore`, 4 edits or commits | 1.7 M | `RefreshIsBuild`: a refresh returns what a full build would; `FilesCurrent` |
| `index_shared` | 2 callers in processes of their own, one file and `.aceignore`, 2 edits or commits, git late or failing | 0.72 M | `LabelReached`: an index is never behind the commit on its label; `FilesCurrent`: a timely, undisturbed call returns every file as it is; `TypeOK` |
| `index_undo` | as `index_cache`, 2 edits, with `"undo"` | violation | a file indexed while dirty and then restored |
| `plan_lifecycle` | 2 calls of one query, agent loop bounds 0 and 2, 2 versions of the world, contract errors in the stages 7 and 8 | 0.32 M | `PayloadsBelongTogether`, `SourcePlanIsCurrent`, `StoredUnderItsInputs`, `ActionsAddUp`, `RefinementIsCurrent`, `TypeOK`, `PlansEnd` (liveness) |
| `services` | the nine parts of 2.1 and 2.6 to 2.12, below | 0.34 M | below |

`services`, part by part:

| Part | Instance | Shows |
|---|---|---|
| hot tier | 4 keys, 5 weights (0 and one above the limit included), 3 entries, 5 tokens | `HotAccounting`: the running total is exact and both limits hold; `HotKeepsRecent`: eviction is least recently used |
| `RuntimeStats` | 2 invocations, 3 reports that share a scope or do not, 3 records, one viewer | `CountsAreFacts`, `LatenciesAreFacts`: rollups are those of the facts, added to or rebuilt; `SnapshotNested`: no snapshot shows a session with more calls than all sessions |
| `ParallelSignals` | 2 calls, 4 kinds of request, one worker, any set of tasks hangs | `NoWorkForNobody`: no worker begins a task whose call has gone on; `SignalsEnd` (liveness): a call with a budget goes on whatever hangs |
| `ConfigWatcher` | 2 layers, 3 edits of which one is invalid, debounce of 2 ticks | `WatcherSettles` (liveness): no edit is missed for good; `EmitsAreDebounced` |
| `SettingsStore` | 2 processes that run commands for ever, 4 that persist, or 3 and 1 kill | `SettingsReadable`: a command raises only if commands crossed in persisting, and finds no record only if they crossed twice |
| `PlanReplayStore` | 2 processes, 2 keys, 2 stores, one entry | `ReplayLossy`: refinement of `LossyCache` |
| `RuntimeDb` | releases 1, 3, 3; database at version 0, 1 or 2 | `SchemaUsable`: the version never says more than there is, and an open database has what its release needs |
| `LocalCache` | 2 processes, one memory, one query, one revision, 2 days, 2 calls | `TextsAreRecent`: no fetch returns a text replaced longer ago than the time to live |
| `EmbeddingIndex` | 2 files, 3 versions that differ in text, in contract or in both, 2 providers, 2 builders, 2 changes, 2 calls | `VectorsFollowTexts`: the vectors returned are those of the files and the provider asked about, and of their texts, up to what the contract cannot tell apart |

Every property of a passing run has a mutant in `PROJECT.json`: a definition of
the model changed as a plausible bug would change the code, which makes TLC
refute the property.

**Why the bounds are enough.** One key suffices for the cache because no action
relates two keys but the hot tier, which is checked with four keys by itself.
Two writers are the least that share a temp path, and a third adds no new pair of
file operations.  `MaxDelete = 2` lets the collector's budget run out within and
between phases.  Two files make a batch of two, two batches of one, and a torn
line followed by a good one; three runs make a run killed, resumed, and started
afresh.  In `index_cache` four edits are enough for a change, a commit, a rewrite of
`.aceignore` and a change after it, with as many calls as one likes between
them; in `index_shared` two callers make every crossing of two writers.  Two
calls make a late worker and its retry; an iteration bound of 2
makes a rerun after a rerun, which `RefinementIsCurrent` needs; two versions of
the world make every payload fresh or stale.  In `plan_lifecycle` only the call
without agent loop has an impatient caller (`Impatient`), which keeps the run
within minutes; the proofs have no such restriction.  One worker and two calls
make a call wait behind another's abandoned task, which two workers and three
calls only repeat.  Three records make a new invocation, one recorded again in
other scopes, and a rollup that is added to after it was rebuilt.  In
`SettingsStore` four commands that persist are the least with which two
processes cross twice and ruin both files, and three and a kill make an
abandoned temp file that a crossing meets; `MaxPersists` bounds both kinds
together.  Two changes of
the code index make a call that finds one contract changed and another text
changed under an unchanged contract.  Where a theorem covers a
property (section 4) the bounds do not matter for it at all.

**Fairness.** `FairSpec` of the cache: calls that began go on and the bounded
collector's steps go on (both are run by the operating system), time passes, and
the bounded collector keeps being started, because the shutdown hook of
`runtime_manager.py` starts it at the end of every session.  No thread is
obliged to begin a call.  `FairSpec` of the index build: weak fairness of the
run and of its child; that a batch timeout occurs follows from the run's own
weak fairness, since `BatchTimeout` is a step of the run.  `FairSpec` of the
plan lifecycle: weak fairness of each worker's own steps; nothing is assumed
about callers, timeouts, edits, the cache or what validation asks for.
`SignalsFair`: threads run, clocks advance, and a task that does not hang ends.
`WatcherFair`: the loop polls at its interval for ever, and time passes.  In
`MCServices` both apply only while their part runs.  All fairness is weak.

**Deadlock.** It is not checked in the index runs, where the bounds on runs and
edits stop the model (`RunsEnd` says that a run does not stop midway), nor in
`plan_lifecycle`, where each call is made once (`PlansEnd` likewise), nor in
`services`, whose parts bound their calls (`SignalsEnd` likewise).

## 4. What is proved

All theorems are `Spec => []...` or refinements, for every value of the
constants that meets the named assumptions.

**Stage artifact cache** (`StageArtifactCacheProofs`).  The inductive invariant
is `Sources`: bytes have four places they can come from (payload files, temp
files, hot tiers, calls in progress) and in each of them, under key k, is a
payload put for k, or, in files only, bytes that do not parse.  `HitsWhole`
itself is not inductive, as it says nothing of the files the next hit reads.
From it follow `TypeCorrect`, `HitsAreWhole` and `ImplementsLossyCache`: every
step is a step of `LossyCache` or invisible to it.

**Atomic publication** (also there).  If no two threads
share a write token, `PayloadWhole` is invariant.  The strengthening `Publish`
adds that a published file is open in no writer, that an open temp file is
open in its own writer only and empty, and that a writer about to rename finds
its temp file closed and whole, or gone.  The premise is needed: the callers in
this repository pass their stage name as token and so do share a temp path;
what they are left with is `HitsAreWhole`.  `RowsHavePayloads` adds to it
`Backed`: as long as no collector removes payloads, whatever the threads share, a
ready row has a payload and so has every call that is about to commit one.

**Resumable index build** (`IndexingResilienceProofs`).  `Shape` relates the
memory of a run to the state file, and the events at hand to the batch at hand;
it is an invariant by itself.  On it rest `TalliesCorrect` (with `AddsUp`, the
arithmetic of the two kinds of checkpoint over cardinalities of disjoint sets);
`CheckpointsCovered` (with `Covered`: the journal has what the next checkpoint
will claim) and `CompleteIndexIsWhole` (with `Unlisted`: each file left behind
has been counted once), both under `Untroubled`, that no append is cut within a line and
no failure is without a message, without which TLC refutes them; and
`FreshRunsReadAll` (with `Recent`), under no such condition.

**Git-aware index cache** (`IndexCacheProofs`), without flaws and nested files.  The
invariant is `TypeOK`, `WorldOK` (no content comes back, and commits
name versions that exist), `GoodIndex` of the index file, and `OpOK` of each
call.  `GoodIndex` says that an index holds of each file that is never hidden a
content at or past the commit on its label; it is why a refresh that asks only
for the changes since then misses none.  `OpOK` says of a call in progress which
files its index may still have wrong: those git has told it of, or those on its
list.  `IndexReachesItsLabel` and `RefreshIsCurrent` follow for any number of
callers, edits and files.
`SureInv` adds what `.aceignore` hides, for histories in which git answered every
call in time and no commit fell within a call.  An index then belongs to a version
of `.aceignore` at or past its commit, the one its label names, and each of its
entries was filtered by that version or a later one (`Filtered`).  So either git
reports `.aceignore` as changed or its text has not moved since, and the filter
behind the index is the present one or the call builds anew; `Undisturbed` carries
this through a call that the user leaves alone.  `RefreshReturnsABuild` states
`RefreshIsBuild` for any number of callers, where the run has one.

**Plan lifecycle** (`PlanLifecycleProofs`).  The invariant speaks of one plan at
a time: `Ordered` (the stages before the next one have payloads of the current
query, and the payloads are sorted by pass, with one break at the next stage),
`Placed` (which stage may be next in each phase), `Made` (from the source plan
on, it is the one its payloads give; between the missed lookup and the store,
the key kept is the key of those payloads) and `Counted` (the agent loop).  Two
parts relate plans to the cache: `StoredUnderItsInputs` and `Answered`, which
together say that what a late worker stored is what any later plan with that
key would have made.  One lemma per worker step shows that it preserves the
four parts (`StageGood`, `RejectGood`, ...), and `OnePlan` carries it over to
all plans.  From `IInv` follow all six safety properties of the run, for any
number of calls, queries, iterations, edits and impatient callers.

**Runtime statistics** (`RuntimeStatsProofs`).  `CountInv`: one writer at a
time, its transaction holds the fact that is there, and the counts are those of
the facts; adding a new member to a scope and counting its members afresh agree
by `FS_AddElement`.  `LatencyInv` adds the latency lines, each of which is the
count, sum and extremes of the facts' latencies in its scope: a new fact adds one
term, a replaced one leaves the scopes it was in to be summed afresh.  `ViewInv`: a
session that a viewer has read has at most as many calls as there are facts,
which only grow, until all time is read.

**Sums** (`SumsProofs`).  What a sum over a finite set is, is the community
modules' `SumFunction`, a fold that picks one member after the other.  `SumWith`,
`SumWithout` and `SumSplit` say what it is with a member more, with one less, and of
two disjoint sets.  That the order of picking does not matter would be an
induction over sets, and an induction theorem takes an operator that the provers
cannot instantiate; so it is shown by a smallest counterexample, a finite set of
least cardinality in the set of those for which it fails.

**Hot tier** (`StoresProofs`).  `TierInv`: each key that is held is in the order
once, and nothing else is; the total is the sum of the weights, each at least 1;
both limits are kept.  `HotTierAccounts` follows with the sums; that the eviction
has a least number of entries to remove needs that the empty tier fits.
`HotTierKeepsRecent` adds `RecentEnd`: what was used since an entry was is
after it in the order, so what is evicted first is what was used longest ago.

**Settings store** (`StoresProofs`).  `SettingsStayReadable` holds for any
number of processes, commands and kills.  `SettingsInv` has three layers.
`OwnFiles` says which files two names or commands can share.  `FilesOK` speaks
of the files by the number of crossings since they were last sound: with none,
each file is intact and each temp file has one writer (`Uncrossed`); with one,
at most two commands persist, and of the two files one is intact or about to be
(`CrossedOnce`): for the last known good file to be at risk as well, a command
must have renamed the current file's temp file, and then the other finds none
and stops (`RuinedByOther`, `RuinGuarded`).  `LoadsOK` carries this to a load
between its two reads, by what the command has `seen`.  With two crossings
nothing is claimed: TLC reaches a command that finds no record.

**Plan replay store** (`StoresProofs`).  `ReplayInv`: whatever the
file, a process's memory, a call in progress or an answer holds under a key was
handed over under it.  With it every step is one of `LossyCache` or invisible
to it.

**Other services** (`ServicesProofs`).  `SchemaStaysUsable`: the invariant
speaks of an opener's transaction as it would commit it, and of the one holder of
the write lock.  `QueueServesTheWaiting`: a call has taken something for a
signal only after its task began, ended or was dropped.
`FetchedTextsAreRecent`: a row with a text was renewed when the text was the
provider's current one, in every file, in every call between load and save, and
in every answer.  `EmbeddingsFollowTexts`: in the file and in every call that has
looked at it a vector is that of the hash beside it, and a hash is the text of
some version that fits the contract beside it; so a hash that is taken over is
of a version with the contract of the present one, however often it was.
`ReportsAreDebounced`: an edit number comes only once, so a file that has the
edit some fingerprint saw has had it since, and has been still for as long; two
equal fingerprints cannot have an edit between them unless the file is gone.

**Only model-checked**: the liveness properties (`ExpiredReclaimed`,
`OrphanFilesReclaimed`, `TempsReclaimed`, `RunsEnd`, `PlansEnd`, `SignalsEnd`,
`WatcherSettles`), which need fairness and `ENABLED` and are beyond the prover;
and the four violations.

## 5. Assumptions and abstractions

- *Files.* A system call is atomic; `os.replace` is atomic.  Kills are of
  processes, not of machines, so `fsync` has no effect in the models.
  `mkdir` is part of the step before the file operation that needs it;
  `_prune_empty_dirs` is one step that may make a writer in between fail.
- *Bytes.* A payload written over a longer one does not parse
  (`Torn`).  It is followed by the longer one's tail, which a JSON parser rejects.
- *Time to live* is read from a clock that only goes forward.
- *One collector* at a time, and a `max_delete` of 2.
- *The index cache.*  Two contents of a path with equal modification time and
  size are left out.  HEAD moves forward by commits; a checkout of an older
  commit brings old contents back, which is the `"undo"` case.  The copy of the
  index in memory is used only while the file is unchanged, so it is the file.
  Crossing writers leave one whole index or bytes that do not parse.  A
  repository without `.git` is never refreshed and left out; so are an
  unreadable HEAD, the mismatch of the language filters, and the cut of
  `max_extra` in the expansion by reverse dependencies, whose depth is the
  default 1.  A file that vanishes under `build_index` ends it like a kill.  A
  remembered git status may be used for any length of time, because each use
  renews it.  `RefreshIsBuild` needs every status to be fresh and no commit
  within a call: otherwise the ignore state on the index may be newer than the
  filtering behind it.
- *Statistics.*  Scope keys, joined with `::` in the code, are taken to be
  injective; ids are numbered in the order of their text.
- *The replay store.*  The artifact cache is what `LossyCache` promises;
  crossing writers of the file leave one body or bytes that do not parse.
- *The database.*  Piece 2 stands for the column and for the update that
  relabels old rows.
- *Signals.*  The executor serves its queue in order; a hung task never ends.
  A budget of 0 is none, and such a call waits for ever.
- *The config watcher* starts before any file exists.  Without
  `--fail-on-invalid` no edit counts as invalid.
- *The memory cache.*  Scores, limits and previews are left out, and with them
  which of equally recent rows counts.  The provider's answer counts from when it
  arrives.  A row lost to a crossing writer is only a lost copy.
- *The embedding index.*  A hash is its text.  A provider returns as many
  vectors as it was given texts: the zero vectors that pad a short reply
  (`embeddings_providers.py:451`) are left out, so `VectorsFollowTexts` says
  nothing of a provider that answers short.  Crossing writers leave the whole index of one
  of them or bytes that do not parse.  An index without hashes, which this
  release does not write, the limit of 100,000 hashes, and the SQLite mirror,
  which nothing reads, are left out; which `index_hash` a call has is left open.
- *One index run at a time* on a state file.  The journal is what a read of it
  gives; an append cut just before its newline counts as cut earlier.
  `next_index` is the set of files from it on.
- *Payloads* of the plan lifecycle are what the properties tell apart.  A
  payload determines what it contributes to the replay key, as the fingerprints
  of `orchestrator_replay.py` are digests of the payloads.  A stage that left no
  payload counts in a key as one that read version 1; such a lookup happens only
  after a contract error, and its answer is dropped.
- *The world* is one version for repository and memory store, so the
  contents of the candidate files are its version.  A stage reads it in one step.
- `None` is a value distinct from all others (`NoneIsNothing`, `NoneIsNoPlan`,
  `NoneAssumption`, `Sentinels`).
- *Bounds* of the models, all of them constants: `MaxClock`, `MaxFaults`,
  `MaxDelete`, `MaxVersion`, `MaxRuns`, `MaxWorld`, `MaxEdits`, `MaxRecords`,
  `MaxConfigEdits`, `MaxPersists`, `MaxKills`, `MaxStores`, `LastDay`, `MaxRevisions`,
  `MaxCalls`, `MaxRelists`, `MaxBuilds`, and the sets of threads, files, calls and processes.

## 6. Where the code departs from its documents

The four runs that expect a violation:

1. `cache_spares`.  `stage_artifact_cache_store.py:66` says that the collector
   only reclaims orphaned payloads.  The bounded collector
   (`stage_artifact_cache_gc.py:342`) unlinks files that had no row when it read
   the rows; a put that commits in between loses its payload.  The next lookup
   marks the row orphaned and misses.
2. `index_resume_stale`.  A fresh run replaces the state file
   (`indexing_resilience.py:386`) before it empties the journal (`:110`).  Killed
   in between and resumed, it keeps the entries of files that are gone and
   reports itself complete.
3. `index_torn`.  Events are appended (`indexing_resilience.py:445`) after
   whatever a killed run left.  The first line of the resumed run merges with a
   torn one and is lost, and its file, counted as parsed, is not in the index.
4. `index_undo`.  The design document has changed files applied as an
   incremental update.  A file indexed while dirty and then given its committed
   content back is reported by git no more (`index_cache.py:904`), so later
   refreshes return the content it no longer has.

Met on the way and modelled as the code has it, without a run of their own:

- with `"race"` an edit between the read and the stat of `parse_file` is never
  seen again, since the fingerprint is of the new content (`FilesCurrent`);
- with `"unborn"` an index of a repository without commits is taken whatever
  its label; with `Nested` files, git reports only the new directory, and its
  files are not indexed until they are committed;
- with `"blank"` a batch whose worker fails without a message is forgotten on
  resume, and the index is reported complete (`CompleteIsWhole`);
- `latency_ms_last` is the last latency *recorded* when an invocation is added,
  and that of the invocation that *finished* last when its scope is rebuilt, so
  recording an invocation again may change it, against the "idempotent" of
  `runtime_stats_schema.py:207`; `LatenciesAreFacts` says of it only that it is
  some member's;
- two overlapping persists may leave one of the two settings files unreadable
  and end the slower one with an error.  If the file does not parse, a load falls
  back or goes on; if it does not decode, every command that resolves the
  settings ends with `UnicodeDecodeError`, the one that would repair the file
  included (`runtime_settings_support.py:261` resolves before it persists), until
  the file is removed by hand.  Two crossings, at once or one after the other,
  may ruin both files;
- the same `UnicodeDecodeError` leaves a lookup or a store of the plan replay cache
  (`plan_replay_cache.py:302`), a lookup of the artifact cache (`Raises`), a
  search or fetch of the memory cache, whose load comes first, a refresh or
  build of the index (`Kill` covers it) and the end of a resumed index run (`garbled`), when a torn
  write or two crossing ones have cut a character in two; the embedding index
  alone catches it;
- opening a database while another process migrates it fails at once instead of
  waiting (`Refused`), and nothing tries again; an older release may set the
  version back, which the next open repairs;
- a fetch renews every row of a memory but not its previews, so a preview may
  outlive its time to live (read from the code, previews are not modelled);
- the vector of a file whose text has changed under an unchanged chunk contract
  is brought up to date when no file's contract has changed, and left as it is
  when another's has (`embeddings_index_store.py:59`); `VectorsFollowTexts` says
  which of the two a call may rely on;
- a `get` never verifies `payload_sha256`; a `put` keeps an expired row as it
  is, so the key misses until a collector removes the row; the hot tier is not
  told of collections;
- an index run over an empty list of files skips the block that empties the
  journal (`FreshReadsAll` exempts it); without any timeout a run waits for ever
  for a child blocked on its pipe (`RunsEnd` is checked with settings that bound
  the join).

Read from the code and not modelled, as each is a step by itself:

- the LSP broker's cache turns the return code 0 of a clean file into 1
  (`lsp/broker.py:74`: `int(cached.get("returncode", 1) or 1)`), so a repeated
  diagnosis of it reads as failed.

## 7. What is not modelled

Section 1 names every part; `PROJECT.json` gives each its status.  Left out for
good: scores and ranking (floating point over text, no state), parsers
and grammars, the CLI and configuration merging, reports and benchmarks, the
calls of git, language servers and sandboxed commands themselves; they are most
of the repository's lines, and hold no state that two steps could disagree
about.  The reward log, the scheduler and the lanes have their hazards only
under a concurrency no caller in the repository uses.  The long-term memory and
feedback stores are single SQL statements or sequential code; the notes file and
team sync are one more load, change and save without a lock.  Of the
modelled parts: what a stage computes, the branch validation archive, the
contributions of plugin slots, and the statistics row written at the end of a
plan.

## 8. Plan

| Module | Question | Composes | Proved |
|---|---|---|---|
| `HotTier`, `LossyCache`, `StageArtifactCache` | are hits whole, is garbage collected | implements `LossyCache` | refinement, publication, the tier's accounts |
| `IndexingResilience` | is a resumed index whole | | coverage, tallies |
| `PlanLifecycle` | do payloads and replayed plans fit together | uses `LossyCache` | all safety properties |
| `IndexCache` | does a refresh return what a build would | | labels, current files, refresh is build |
| `PlanReplayStore` | is a replayed plan one that was stored | uses and implements `LossyCache` | refinement |
| `RuntimeStats`, `RuntimeDb` | are rollups those of the facts, is the schema usable | | counts, latencies, snapshots, schema |
| `ParallelSignals` | do calls go on in time | | queue |
| `LocalCache` | are texts recent | | all |
| `EmbeddingIndex` | are vectors those of the texts | | all |
| `ConfigWatcher`, `SettingsStore` | is no edit missed, is a record loadable | | debouncing; readable settings |

Worth doing next: two index builds on one state file
(`indexing_resilience.py:308`), of which the code promises nothing yet.
