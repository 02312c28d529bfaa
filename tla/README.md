# Formal model of bagelquant-data

TLA+ modules, TLC runs and TLAPS proofs about `src/src/bagelquant_data/`, a
data lake for daily market data: providers are polled day by day, responses are
validated and published as immutable Parquet generations, and a SQLite file
keeps declarations, versions, the update ledger and the completion flags that
downstream jobs rely on. Paths below are relative to that package
(`pipeline/update.py` is `src/src/bagelquant_data/pipeline/update.py`).

Many processes may open one lake. Everything durable is in SQLite
(`storage/data_meta.py`) or in immutable files; there is no server. What makes
the code hard is therefore what several callers, dying processes and late
answers do to the same rows between two transactions.

## 1. Inventory

Each part: what it keeps, what it does, whom it meets, what is hard, what makes
it correct.

**Update ledger and lifecycle** (`pipeline/update.py`, `pipeline/scopes.py`,
`pipeline/initialization.py`, the ledger tables of `storage/data_meta.py`,
`_RawUpdater` in `management/lake.py`).
State: `update_scopes` (one row per day and variant: pending, running, success,
empty, failed, invalid), `update_leases` (one writer per dataset),
`ingestion_runs`, `node_completions` (the completion flag),
`datasets.update_incomplete`, `dataset_initializations`; in memory `_RunState`
(counters, buffered responses) and the request queue.
Operations: plan (synchronize scopes, choose requests, group them into ranges),
acquire the lease, `begin_run`, claim, harvest, split, commit, fail, finish,
certify, release, finish an initialization; from outside: register, reset
scopes, reopen an initialization, abandon an owner.
Hard: the plan precedes the lease; scopes can be reset or redefined under a
working update; a process may die anywhere; cleanup loops raise half-way; the
flag is written from counters read earlier.
Correct when: at most one update works on a dataset, no claim is lost track of,
an update leaves nothing running, outcomes are decided only by the claimant,
and a flag that reads as current covers only days whose outcome is terminal and
was obtained under the flag's definition.

**Fetch scheduler** (`_run_fetches`, `execution.py`, `pipeline/native.py`).
State: futures, ready queue, prefetched responses, byte counters, the native
permit. Operations: submit, refill during a commit, harvest in order, heartbeat,
cancel. Meets: the ledger (claims), the provider, the commit executor. Hard: a
future finishing during a commit is consumed once; bounds on bytes in flight;
parking of conversions behind a commit. Correct when: each claimed request is
harvested exactly once or cancelled, bounds hold, and the loop ends.

**Version publication** (`pipeline/versions.py`, `pipeline/ingest.py`,
`storage/parquet.py`, `storage/atomic.py`, `storage/immutable_metadata.py`).
State: `version_commits` (prepared, committed), `version_segments`,
`version_checks`, `visibility_segments`, `partition_manifest`, generation files.
Operations: prepare a commit, write files, publish manifest, coverage and
visibility in one transaction, roll back, read at a boundary. Hard: process
death between the file and the database steps, parents that moved, readers with
a pinned boundary. Correct when: a reader sees whole commits only, every visible
segment has its file, and a failed commit changes nothing visible.

**Completion and currentness** (`items/completion.py`, `storage/currentness.py`,
`storage/record_lookups.py`, `completion_statuses`, `dependency_state`).
State: flags with dependency digests, the currentness index. Hard: chains of
Raw datasets and Items where a parent changes between reading and certifying.
Correct when: a flag reads as current only if its whole input state is the one
it was computed from.

**Item lifecycle** (`items/api.py`, `items/incremental.py`,
`items/initialization.py`, `items/preparation.py`, `items/output_reuse.py`).
State: `item_builds`, `item_initializations`, `item_dependencies`, leases of
source `items`. Operations: declare, initialize in windows, update, resume,
recertify. Hard: the kernel runs outside any transaction; definition, policy,
inputs and lease are compared again at publication.

**Availability and point in time** (`items/availability.py`, `items/timing.py`,
`items/pit.py`): pure rules on dates (offset, cutoff, selection of the version
known at a decision date).

**Frozen inputs** (`inputs.py`, `input_index.py`, `general_key_appends.py`,
`general_intervals.py`): receipts that pin the versions a calculation read, and
the proofs by which a later calculation may reuse them.

**Recovery and integrity** (`storage/recovery.py`, `management/maintenance.py`,
`management/storage_usage.py`, `storage/rejected.py`): health of visible
generations, orphans, prepared commits, cleanup while writers may work.

**Snapshots and backup** (`management/backup.py`, `storage/snapshot.py`): copy
of the database first (retried while its signature changes), then of every
registered immutable file.

**Item removal** (`management/item_removal.py`): a frozen plan, a detaching
transaction with a journal row, exact file deletion, repeatable after death.

**Declarations, catalog, sources** (`management/datasets.py`,
`management/declarations.py`, `management/catalog.py`, `management/sources.py`,
`core/registry.py`, `core/dataset.py`, `core/schema.py`): definitions and their
hashes, batch receipts, the category tree.

**Metadata connections** (`storage/data_meta.py` 55-565): writer sessions,
nested transactions, read sessions, context-bound owners.

**Request planning and pagination** (`pipeline/planning.py`, `core/request.py`,
page loops of `pipeline/update.py`), **queries** (`query/`, `exploration.py`,
`transforms.py`), **status** (`management/status.py`), **provider adapter**
(`sources/`): see `components` in PROJECT.json for what is modelled of each.

How they meet: `raw.update` plans with the ledger, takes the lease, lets the
scheduler fetch, lets publication commit content and coverage in one
transaction, and lets completion certify. Items read committed versions through
frozen inputs, publish through the same publication code under their own lease
and certify with the digest of what they read. Recovery, snapshots, removal and
maintenance look at the same tables from other processes.

## 2. Modules

| module | models | uses |
|---|---|---|
| `UpdateLedger` | update ledger and lifecycle of one by_date dataset | - |
| `UpdateLedgerProofs` | type correctness, exclusion and claim accounting; who decides an outcome; what the flag certifies behind one caller | `UpdateLedger`, TLAPS |
| `PublicationProofs` | type correctness; whole versions, cleanup, definitions, inductively; that `Publication` implements `AtomicPublication` | `Publication`, TLAPS |
| `MaintenanceProofs` | removal, cleanup and copies, inductively | `Maintenance`, TLAPS |
| `ItemUpdateProofs` | what completions certify, what a plan leaves out, what flags are written over and advertise, inductively | `ItemUpdate`, TLAPS |
| `FetchSchedulerProofs` | the places of requests and the byte bounds, inductively | `FetchScheduler`, TLAPS |
| `PaginationProofs` | where each row of a request is, inductively | `Pagination`, TLAPS |
| `PointInTimeProofs` | what counts as verified; history as it was known, inductively | `PointInTime`, TLAPS |
| `DeclarationsProofs` | the catalog's soundness and what a batch adds, inductively | `Declarations`, TLAPS |
| `FetchScheduler` | one fetch phase of an update: pool, queues, byte bounds, commits, native gate | - |
| `Pagination` | how one claim is acquired from a provider: pages, bisection, attempts, splits | - |
| `VersionContent` | rows, responses, differences and the resolution of versions | - |
| `AtomicPublication` | what publication promises its readers, with no files, leases or failures | `VersionContent` |
| `Publication` | version publication of one by_date dataset; implements `AtomicPublication` | `VersionContent`, INSTANCE `AtomicPublication` |
| `ItemUpdate` | initialization, update, reuse and certification of computed Items over a graph of inputs | - |
| `PointInTime` | what an Item shows for a day as known on a later day | - |
| `Declarations` | the catalog: datasets, Items, categories, batches of declarations | - |
| `Maintenance` | removal of Items, cleanup of temporaries and backups beside builds | - |
| `MC<module>` | instances for TLC: model values, ranges, graphs, symmetry | the module |

`UpdateLedger` is the middle of a Raw update. `FetchScheduler` and `Pagination`
look into two of its steps: which request is in flight (`ClaimScopes` to
`HarvestDaily`), and what one request makes of its days (the response a harvest
receives). `Publication` is its `CommitBuffer`. `ItemUpdate` stands on whole
publications, as a log; `PointInTime` refines one build of it into the versions
it publishes. `Maintenance` and `Declarations` act on the same metadata from
other clients.

Definitions whose comment begins with "Fault:" are not part of a model: each is
the definition next to it with a plausible bug, and the mutants of PROJECT.json
show that a property notices it.

### UpdateLedger

| state | code |
|---|---|
| `spec` | `datasets.spec_hash` |
| `row[d]` | the `update_scopes` row of day d: `status`, `active_run_id` (`run`), `spec_hash` (`hash`), whether it was ever claimed (`tried`, from `attempt_count`), the kind of its last error (`why`) |
| `lease` | `update_leases.run_id` |
| `runs` | `ingestion_runs.status` |
| `flag`, `incomplete` | `node_completions`, `datasets.update_incomplete` |
| `init` | `dataset_initializations` |
| `history` | the modes found in `version_commits`, and "verified" for `version_checks` |
| `seen` | the declaration an update has read |
| `work`, `held`, `buf` | requests not claimed, requests in flight or waiting, `_RunState.buffered` |
| `report` | the counters and flags of `_RunState`, as "some or none" |
| `pc` | where a call of `raw.update` is |
| `got` | history variable: the definition a day's last outcome was requested under |

An action is one metadata transaction or one read, with everything the handler
does around it. `ReadDeclaration` is `raw.get` with `prepare_initialization`;
`SynchronizeRequests` is `synchronize_requests` with the transactions of
`synchronize_update_scopes` and `remove_obsolete_update_scopes`;
`ClaimScopes` is one request of `fill_ready`; `HarvestFailure` and
`HarvestDaily` are `_harvest_request`; `CommitBuffer` and `CommitFails` are
`_commit_admitted`; `FailBuffered`, `FailRunning`, `CountRemaining`,
`FinalizeRun` and `CompleteNode` are the except and finally blocks with
`_finish_state`.

What is abstracted. One by_date dataset, full node updates (no `ids` or
`params`, an end date), the variants of a day taken as one. Content is only
"rows or no rows". `publication_revision` is left out: every committed version
raises it together with `update_incomplete`, so a flag that is not marked
incomplete is at the current revision unless a concurrent version was
published, and there `update_incomplete` is set as well. (A consequence seen
while modelling: since `begin_run` itself marks the dataset incomplete,
`write_completion` never finds a standing flag on this path and windows are not
united there; `NextFlag` has the rule as the code writes it.) The order of the
repair phase before the forward phase, the monthly window of range requests and
`max_scopes` choose among requests and are covered by the free choice of
`ClaimScopes`. The synchronization of scopes, the removal of obsolete ones and
the reading back are one step. Registration is one step because it holds its own
lease. Not in the model: General datasets, removal of a dataset, initialization
scans, the refusal to reopen over a prepared version.

### Publication

| state | code |
|---|---|
| `lease` | `update_leases.run_id` |
| `definition`, `active` | `datasets.spec_hash`, `datasets.active` |
| `commits` | `version_commits`; the index is `seq`, `delta` the changed rows the version was prepared for |
| `segments`, `manifest`, `checks` | `version_segments`, `partition_manifest`, `version_checks` |
| `temps`, `files` | `.data-*.tmp` and `data-*.parquet` on disk |
| `call[w]` | the frame of one call of `commit_versions` with its caller: program point, what it read (`parent`, `hash`), the partitions not submitted (`todo`), the running tasks (`flight`), the returned writes (`writes`) |
| `stray` | history variable: files whose registration or unlinking raised |

`DatasetWriter` and `LeaveWriter` are `_leased` with `dataset_writer`; `Compare`
is the query of the content and the comparison by natural key and payload;
`RecordCheck` is the transaction of an unchanged response; `PrepareCommit` is
the insertion of the prepared row with the grouping by month; `SubmitBatch`,
the five task actions and `SettleBatch` are the thread pool with `_write_version_partition`; `Publish` is
`commit_dataset_metadata` with `_write_manifests`; `UnlinkWrite` and
`RolledBack` are `rollback_partition_writes`. Writers in `Enclosed` are updates,
which hold the lease around the call (`EnterUpdate`, `CloseUpdate`). Outside the
call: `Register`, `Remove`, `CleanupTemporary`, `AbandonOwner`, `Die`.

`Die` may strike between any two steps, so a prepared row, a temporary file, an
unregistered file or a registered segment may be left over. `AbandonOwner` may
take the lease of a writer that still runs, since the code only checks that the
operator confirmed it; the fences of the two publishing transactions are what
protects the readers then. `RegisterFails`, `PublishFails` and `CheckFails`
stand for the refusal by a fence and for any database error.

What is abstracted. One by_date dataset, one call for each writer, rows as a
map from natural keys to payloads (the code compares `_payload_hash`). The
latest version is the one of the greatest `seq`; the code orders by source time,
ingestion time and `_commit_seq`, which is the same order for one key as long as
the clock does not go back. A dataset may begin with one version (`Earlier`), so
that a revision and an unchanged response are reached with two writers. Left
out: visibility event files, General snapshots, schema widening, and the scope
transitions and coverage of the publishing transaction (they are
`UpdateLedger`'s `CommitBuffer`).

### FetchScheduler

| state | code (`_run_fetches`) |
|---|---|
| `rest`, `ready` | `task_iter`, `ready`: requests to draw, requests claimed |
| `future`, `size` | `futures`, with the stage of each on its thread; the bytes of its response |
| `prefetched`, `pending`, `buffered` | `prefetched`, `pending_results`, `state.buffered` |
| `queue`, `writing` | the queue and the threads of the `ThreadPoolExecutor`, shared by fetches and partition writers |
| `left`, `inline`, `after` | the partitions of the commit under way, whether the coordinator writes them itself, where it goes on |
| `mixed` | the writer-preferring native gate: an Item that wants it exclusively |
| `at`, `snapshot`, `stop`, `starved`, `refused` | the coordinator's place, the result of its last `wait`, `stop_submission`, a draw others had claimed, `MemoryError` |

Actions of the coordinator: `FillSubmit`, `FillDone`, `Loop` (the wait),
`Collect`, `SplitRange`, `MakeRoom`, `Harvest`, `HarvestDone`, `LoopDone`; of a
commit: `EnterGate`, `NextChunk`, `WriteInline`, `Publish`, `CommitFails`; of the
callback a commit calls while it waits (`refill_during_commit`): `Prefetch`,
`RefillSubmit`, `RefillStop`; of the threads: `TakeJob`, `Receive`, `Convert`,
`WritePartition`. A draw that others have claimed to the last request ends the
round as if the phase were done (`Starve`, pipeline/update.py:500); the ledger
keeps such requests for another update. Left out: heartbeats, the order of
phases and of datasets, time.

### Pagination

`options` and `history` are chosen once: every combination of request kind
(range, daily, scan), paging, empty bisection and required days, over every
subset of the rows a provider could have. `scopes` is the request in hand,
`calls` what is still to ask for it, `pages` what came, `outcome` what each day
has become, `held` how often each row was harvested. `Begin` is
`_fetch_and_prepare_response`, the `Call*` actions are one attempt of
`_fetch_one`, `RangePage` is `_fetch_adaptive_date_range` with its two halves,
`OffsetPage` is `_fetch_offset_pages`, `Final` is the byte bound, `SplitRange`,
`Refuse`, `RefuseDates` and `Harvest` are what `_run_fetches` and
`_harvest_request` do with it. The provider serves in row order, at most
`RowLimit` rows a call; it may fail, repeat a page, ignore the assets asked for,
or leave a wide range empty. Left out: parameter templates, normalization,
validation of keys and nulls, `require_nonempty` of a scan,
`minimum_window_days` above 0, a provider whose history moves or that ignores
the dates asked for. The requests of one claim run one after another; their
concurrency is `FetchScheduler`'s.

### ItemUpdate

| state | code |
|---|---|
| `spec` | definition hash of a node |
| `log` | `version_commits` and `version_checks`, in sequence; an entry names its node, its days and the receipt it was computed from |
| `incomplete`, `flag` | `datasets.update_incomplete`, `node_completions` |
| `receipts` | `frozen_inputs`: a boundary in the log, a cutoff, the definitions captured |
| `builds`, `rows` | `item_builds` with a completion proof or of a unit; those of published rows alone |
| `initial` | `item_initializations` with the pinned builds |
| `lease`, `call` | `update_leases`, and the stack of calls of each process: an update runs the updates of the Items it reads |

A value is the definition that made it and what it was made of, so that two
results are equal exactly when they came from equal inputs under one definition.
`PlanUpdate`, `FreezeInputs`, `RecheckPlan`, `PublishRows`, `Settle`,
`RepairRows`, `CertifyUnit`, `FinishUpdate` are the phases of
`_incremental_update` and `_build`; `DecideReuse`, `Rebind`, `RefreshFlag` those of
an update that has nothing to compute; `AdmitInitialize`, `InitializeUnit`,
`FinishInitialize` those of `initialize_many`; `StartResume`, `FinishResume` are
`resume_update`. `CompletedActions` is the planner of items/incremental.py,
`CurrentReceipt` is `inputs.is_current` with its authorities, as a recursive
function over the registered receipts. Around the calls: raw commits and their
completion, rows ingested into an Item, redefinitions, cancellation, interrupts
and death. Left out: availability dates (a revision of a day is known on that
day), pending outputs, scope policies, completion without output, `publish`,
`force`, timing attestation, the cache of `update_many`.

### PointInTime

`raw` and `item` are sets of versions: an observation day, the day the version is
known from, a value, whether that day is only the baseline of an initialization,
the commit. `Committed` is the comparison of `commit_versions` with the attested
copies of raw.py; `Boundaries`, `Output`, `Changes` are revision_dates, calculate
and reconcile of items/pit.py; `Reconcile` consumes one result; `Publish` is one
commit of `_ingest`; `Repair`, `Withdraw`, `Complete` end a build. `Tick`,
`InitializeRaw`, `UpdateRaw` and `Ingest` take place between builds: a build reads
only what it froze, so that nothing it reads changes inside it. A foreign row is
ingested only into an Item that has rows. Left out: General inputs and Item
inputs, several assets, redefinition, pending outputs; a rebuild is always
allowed (`force`).

### Declarations

`catalog` holds the declaration tables, `receipts` the batch receipts, `call`
what a client has looked up before the transaction that uses it, `plan` the
batch plan it holds. `RegisterRaw`, `EnableRaw`, `RemoveRaw`, `RegisterItem`,
`RemoveItem`, `CreateNode`, `UpdateNode`, `RemoveNode`, `Assign` are the calls;
`PlanBatch`, `ApplyBatch`, `RetryBatch` those of management/declarations.py. Foreign
keys are enforced (data_meta.py:320). Left out: sources and their credentials,
the Raw category tree (the same code), definition fields.

### Maintenance

`meta` is the whole metadata database, `disk` and `temps` the files, and one
record for each process: a build per Item, the remover with its plans, the
cleaner, the copy. `Detach` is the transaction of `remove_items` (blockers,
journal, deletion of definitions, commits, builds and receipts), `Unlink`,
`CompleteRemoval`, `ReleaseRemoval` what follows it, `Resume` its repetition with
the same receipt. `CopyDatabase` takes one committed state, `CopyFile` one file of
its list. Builders and removers may die anywhere; `Abandon` is the recovery of
their lease. Left out: the cleaner's death, the pages of `copy_database`, the
digest checks of a copy.

## 3. Runs

Bounded callers stop, so the configurations disable the deadlock check; that
nothing blocks is `UpdateEnds`, `CallEnds`, `PhaseEnds`, `EveryDaySettles`,
`RemovalEnds` and `EventuallyFresh`.

| run | shows |
|---|---|
| `LedgerConcurrent` | two overlapping updates of windows {1,2} and {2}, a redefinition, a reset, a process death, interrupts without text, range requests: `ExclusiveUpdate`, `LiveClaimIsLeased`, `ClaimsAccountedFor`, `UpdateMarksIncomplete`, `OutcomeByClaimant`, `TerminalIsKept` (1.9 million states) |
| `LedgerLifecycle` | three calls one after another (two baselines, a refresh of the tail) with a redefinition, a reset, a reopening and a process death: `CertifiedRangeTerminal`, `CertifiedRangeCurrent`, `NoStrandedClaim`, `InitializationCompletesTerminal` (3.5 million states, symmetry of the two baselines) |
| `LedgerLiveness` | two concurrent updates and a process death under fairness: `UpdateEnds`, `LeaseIsReturned`, `ClaimIsSettled` |
| `PublicationConcurrent` | an ingest and an update that publish at the same time, over a new dataset and one with a version; one registration or removal, one death or abandonment of a live owner, failures of every task and transaction: `VisibleIsWhole`, `NothingLeftBehind`, `OwnDefinition`, `BoundaryIsStable`, `Implements` (1.07 million states) |
| `PublicationLiveness` | the same two writers and one accident under fairness: `CallEnds`, `LeaseComesBack` (193 thousand states) |
| `ItemUpdates` | one Item on one raw dataset: a range and its extension initialized, updated, reused, resumed, with one foreign row, two definitions, revisions, cancellation, exceptions and death: `CompletionHolds`, `RepairsArePlanned`, `AdvertisedIsCertified`, `PinnedFlagIsFresh` (385 thousand states) |
| `ItemLiveness` | an Item on an Item on raw data, both asked for again and again: `EventuallyFresh` (53 thousand states) |
| `FetchScheduler` | seven requests (one a range of two) on two threads: `ConsumedOnce`, `BudgetHolds`, `EndsComplete`, `PhaseEnds` (792 thousand states) |
| `Pagination` | every request kind over every history of four days and two assets: `SettledAsProvided`, `EveryDaySettles` (610 thousand states) |
| `PointInTime` | three days, two values, two commits, two builds, a foreign row: `PointInTime`, `HistoryStands`, `NoPromotion` (2.0 million states) |
| `Declarations` | one raw dataset, two Items, two categories, two clients, three batches: `CatalogHolds`, `BatchAddsOnly` (1.3 million states) |
| `Maintenance` | two Items, one of which reads the other, a death: `NothingDangles`, `OriginalsKept`, `CopyIsWhole`, `RemovalEnds` (1.2 million states) |

The type invariants (`TypeOK`) hold on the same instances. No run lists them: they
keep the definitions honest, and those of the ledger, `Publication`, `Maintenance` and
`PointInTime` are proved.

`CertifiedRange*` and `NoStrandedClaim` are checked for callers that make one
call at a time (`Serial = TRUE`) and for exceptions with a text
(`SilentInterrupts = FALSE`), because without these conditions they fail; see
the observations below. Under them a process may still die in the middle of a
call.

### Bounds, and why they are enough

Ledger. Two days: a window, its tail, one mandatory day beside an optional one,
and a range of two to bisect. Two or three runs: one that works, one that
overlaps or follows, one that comes after both. Two definitions, one
redefinition; one reset, reopening and death: each hazard needs one of them at an
arbitrary moment. The known exception is a redefinition that is taken back
(A, B, A), see the observations.

Publication. Two months with one row each, so that a version has two files
and can be half written; two writers, since a fence compares one caller with
whoever came in between; two payloads, so that a response can be new, a
revision of one month, unchanged or empty; two workers, so that one task can
fail while the other still writes. One declaration change and one accident at
an arbitrary moment. Batches smaller than the set of months need more months
and are reached here only by an interrupted submission.

Items. Two days give a range, an extension, a day of an Item that reads all
earlier days, and a plan with one day to repair and one to keep. Two events
(`MaxEvents`) of any kind at any moment: a revision while a build computes and a
second one, an interrupt and the redefinition after it. `MaxCalls = 3`: a
first range, its extension, a repair. One caller: see the observations for two.
Windows with a gap between them need three days and are not reached here: that the
union never covers one is `WindowsAreCertified`, for every number of days.
In `ItemLiveness` calls are unbounded and one event strikes at any time.

Scheduler. Two in flight and two threads are the least that separates them; a
budget of 4 with reservations of 2 and responses of 1 or 2, so that a response
may release room or not; a batch of three and three partitions, so that a commit
outlasts a chunk; one mixed Item.

Pagination. Four days bisect twice; two assets and a row limit of two make one
day exactly full, and a day and its neighbour saturated; five pages, two
attempts and one fault let every bound be met; claims of four days in a row and
of two with a gap.

Point in time. Three days and a window of two: an observation, one that reads
it, one after a revision; one of two values makes a row, so that rows come and
go; two builds: a build and its extension, rebuild or repair after one more
commit. With three commits and no foreign row the same properties hold over 4.1
million states.

Declarations: six calls are enough for two clients to build two Items in a tree,
plan, change, apply and repeat. Maintenance: one death, two builds, one frozen
consumer and the removals of `Maintenance.cfg`; a recreated Item and a repeated
old removal are within them.

### Fairness

Ledger: `WF` of `Advance(r)`: the coordinator is a plain thread, every provider
call has a timeout and every future ends, so a step that stays possible is taken.
Starting a call (`ReadDeclaration`), cancelling, interrupting and dying have no
fairness. `WF` of `AbandonOwner(o)`: the documented procedure after a process
death; without it a lease is kept for ever by design ("Expired heartbeats do not
grant permission").
Publication: `WF` of `Step(w)` for each writer (its thread, its pool, which
ends every task with a result or an exception, and the `finally` clauses), and
`WF` of `AbandonOwner(w)` after the death of `w`. Receiving a response,
registering, removing, cleaning up, dying and abandoning a live owner have no
fairness.
Scheduler: `WF` of the coordinator, of the pool taking jobs, of each request's own
thread and of each partition; the mixed Item gets the gate and leaves it. What
a commit does while it waits (`Pump`) and cancelling have none: the phase ends
without them.
Pagination: `WF` of the worker of the claim; attempts and pages are counted in
the code, so this is enough.
Maintenance: `WF` of builders, of the working remover and cleaner and of
recovery; `SF` of repeating an interrupted removal, since the lease it needs
comes and goes.
Items: `WF` of a running call, of raw updates completing and of recovery; `SF` of
starting an update of each Item: the property is about a caller that keeps
asking, and another call may be in the way each time.

## 4. Proofs

Every theorem holds for every value of the constants its module's assumptions
allow: any number of days, runs, writers, rows, Items, requests or threads. Each
proof module follows one pattern: one inductive invariant, a lemma for each
action (or for a family of actions that share a shape), a lemma for what other
callers cannot disturb, and the theorem from `Init`, the steps and PTL.

The head of a proof module states the facts about numbers and finite sets it needs
and cannot take from the library, whose theorems need an operator as a parameter: a
set of numbers with an element has a least one and, if bounded, a greatest one; the
elements of a bounded one can be counted off in order; a family of finite sets has a
minimal member; the recursive function with which the community modules define a fold
over a finite set exists and obeys its equation. They follow from
`WellFoundedInduction` and `FiniteSetTheorems`. The history of committed versions, the
windows of a provider's rows and the boundaries of a build rest on ranks, `Greatest`
in `Publication` and `Weigh` in `FetchScheduler` on the fold, the planner of
`ItemUpdate` on least and greatest days.

### UpdateLedger

`UpdateLedgerProofs` proves, from `LedgerAssumption` alone (the constants have
their shapes and the null run is no run), `TypeCorrect == Spec => []TypeOK`, the
lemmas about rows (what settling, synchronizing, planning and certifying return),
and

- `Exclusive`: at most one update is between acquiring and releasing the lease;
- `LiveClaimsLeased`: a claim whose run has not returned is under its lease;
- `MarkedIncomplete`: from `begin_run` to the end the dataset is marked;
- `AccountedFor`: every claim is in a held request or in the buffer, or settled
  before a run that did not raise ends.

The argument. `Exclusive` is inductive with the types: the lease is only taken
when nobody holds it, only dropped by its holder or by recovery, and recovery
needs all runs of the owner to have ended. `MarkedIncomplete` follows from it,
since only a certification clears the mark and no other run is then in its
section. `LiveClaimsLeased` is not inductive alone: a run that has given its
lease back could still die, and would then be a dead run with claims and no
lease. It needs that a run that returns normally has no claims, hence that the
fetch loop ends without claims, hence `ClaimsAccountedFor`: while fetching, every
claim is in a request or in the buffer. `SafetyInv` is the conjunction, with
`ClaimHasRun` (a running row names a run). Each action is one lemma; steps that
keep the lease share `SectionStep`, steps of the fetch loop `FetchStep`, steps of
other callers `EnvironmentStep`.

It goes on to outcomes. For any concurrent callers:

- `ClaimantDecides`: the outcome of a claim is decided by a step of its own run, by
  the recovery of its owner after that run died, or by a new definition;
- `TerminalStays`: an outcome is only taken back by a claim under the lease, a reset,
  a reopening or a new definition.

Both follow from a description of what any step of an update does to a row
(`UpdateRows`: kept, renewed, claimed or settled) and from `OutcomeInv`, which
adds to `SafetyInv` that only a running row names a run, so nothing settles a row
twice, and that a run whose row recovery may still find running has no claims
once it has returned.

Behind one caller at a time (`Serial`):

- `NoneStranded`: no scope stays running once the lease is dropped;
- `InitializationCompletes`: an initialization is declared complete only over
  scopes with an outcome;
- `FlagCertifies`, `CertifiedTerminal`, `CertifiedCurrent`: a flag that planners read
  as current covers only scopes with an outcome, each obtained under the
  definition the flag binds.

`SerialInv` is why: with no other call under way the plan made before the lease still
describes the rows when the run that holds it ends. It says of the one running
call that its requests, in the queue and in flight, share no day with each other or
with the buffer (`Apart`; that planned ranges share no day is `RequestsApart`), that
what is in flight or buffered is claimed (`OwnClaims`), so that no transition of
its own can fail on a lost claim and a failing run settles all it holds (`Clean`), that
the definition it read is the registered one (`Known`), and that every invalid day
is still to be requested or shows in the report (`Covered`). `HonestInv` adds what the
end of a run reports: an exception makes the run row failed, the row is the status of
the report, nothing counted as settled becomes open again before the run returns.
Then a run that certifies has left its window with outcomes (`CertifiedWindow`), and
`FlagInv` keeps this for the flag: it was written over that window alone, since the
mark keeps it from being united with an earlier one.

The hypotheses are the ones the code needs. Section 5 has a behaviour that
breaks the conclusion without each of them: with two callers; with an exception
without text, which `~SilentInterrupts` excludes from the last three; and with a
definition that comes back while a flag still binds it. The last is stated of the
behaviour: `FlagCertifies` is about `Spec /\ [][NeverBack]_vars`, for any number of
registrations, and `OneChange` shows that `NeverBack` holds by itself when the
definition changes once, as in the runs; hence `CertifiedTerminal` and
`CertifiedCurrent`.

### Publication

`PublicationProofs` proves `TypeCorrect`; with the types goes that sequence
numbers are the order of preparation, which is what makes "the latest version"
meaningful. It proves `Whole`, `Clean` and `Owned` from
`PublicationAssumption`. What readers see is whole only because nobody else
touches what a call is about to publish, so `SafetyInv` says for each call, at
each of its program points, what it owns: the prepared row of its version and no
other, the partitions as the union of those not submitted, in flight and
returned, for each running task the temporary or the registered file it has
made, and after a failure which of them the rollback has still to unlink.
Readers' files belong to committed versions, and a call's files carry the number
of its own version, so a mover disturbs only its own part (`OtherKept`,
`OtherFiles`). A fence at `Publish` compares the lease and the definition with
what the call read, and gives `Owned`; an owner abandoned alive keeps its files
but loses the fence.

It also proves that `Publication` implements `AtomicPublication`
(`Refines`) and that a boundary pins what its reader sees (`Stable`). The
refinement mapping takes the committed rows in order, each with the content
resolved from its own difference. `PromiseInv` adds to `SafetyInv` that a prepared
version was computed from the version that is latest when it is published: the
lease excludes other publishers between comparison and publication, and its fence
catches the rest. `Publish` is then the abstract publication, `RecordCheck` the
abstract check, every other step a stutter.

### Maintenance

`MaintenanceProofs` proves `TypeCorrect`, `RemovalLeavesNoGap`, `OriginalsStay`
and `CopiesAreWhole`. `MaintenanceInv` is the conjunction of the two run
invariants with what makes them inductive: numbers of commits and receipts are
not used again (`Numbered`); a build holds the lease of its Item, its
receipt stands and its file is of its own number (`BuildInv`); a plan, even one kept
by a client over other removals, names only what its receipt detached or rows
that still stand (`PlansInv`); the remover unlinks only files no remaining row
registers, under names it has leased (`RemoverInv`); so does the cleaner
(`CleanerInv`); the metadata a copy took rests on nothing it lacks (`CopyInv`). The
heart is `Detach`: a plan that still describes the inventory names every receipt that
its removal makes useless, by the recursion over receipts of receipts
(`NeededExists`, `DirectRequired`), so that what is left rests on what is left.

### FetchScheduler

`FetchSchedulerProofs` proves `EachOnce`, `BudgetKept` and `NoneLeftBehind`.
`PlaceInv` says where requests are: seven places (not drawn, drawn, in flight,
prefetched, in hand, buffered, settled) that are disjoint, hold exactly the
requests wanted, counting a split request as its two halves, with no request
twice in a sequence. Each action moves requests from one place to another, so the
lemmas are about moves (`SubmitKeeps`, `CollectKeeps`, `SplitKeeps`,
`HarvestKeeps`, `PrefetchKeeps`) rather than about actions. `BudgetInv` weighs the
places: what is in flight counts its reservation, what has come its bytes, and
both together fit one half of the buffer. It needs that weights are additive over
disjoint sets (`WeighUnion`) and monotone (`WeighBound`), which follow from the
equation of the fold. `EndInv` says for each place of the coordinator which of the
others may hold anything. From `SchedulerAssumption`, `SizeAssumption` (a response
is at most its reservation, since a larger one is refused before it counts) and
`RequestAssumption`: finitely many requests, each with its own index, and
the halves of a range unlike any other request (pipeline/update.py:429-430
numbers each physical request).

### Declarations

`DeclarationsProofs` proves `CatalogStays` and `BatchAdds` from
`DeclarationsAssumption` (a category identity is never the mark for none, and a
batch is a catalog of the same names). The invariant is `Sound`, the parts of
`CatalogHolds` with the shapes of the tables; it is inductive, since each
transaction checks again what its client looked up before. Each lemma is about
one way in which a catalog changes (`RawRowChange`, `ItemRegistered`, `ItemArchived`,
`NodeCreated`, `NodeUpdated`, `NodeRemoved`, `AssignedChange`, `BatchApplied`)
and holds of any catalog, whatever led to it. A graph is acyclic when every part
of it has a node without an edge into that part, which needs no path and no
induction: `NewInputs` shows that an Item with inputs from none of which it is
reached closes no cycle, since what those inputs reach is a closed part without
the Item. `BatchAdds` follows from the plan being applied to the very catalog
in which it met no conflict (`Acceptable`).

### Pagination

`PaginationProofs` proves `Settled` from `PaginationAssumption`: numbers of days,
assets, rows a call, pages and retries above zero and claims that are not empty, no
more. `FetchInv` says that a request either has a page that failed, and is at its
end, or every row it asks for is in exactly one place: due from one of the calls
still to make (`Due`, `Orderly`), or in one page that is kept (`Once`); the pages of
an offset run under way are full windows of what its call matches, in order
(`Run`), and count when the run is complete. The lemmas about windows are stated of
the rank of a row: windows of different offsets share no row (`WindowsApart`), and
when the last of them is not full together they have every row (`WindowsCover`),
which is why a short page ends a call and a full one must not. `HalvesCover`,
`CallsCover` (the whole range, or the cohorts of a scan), `PageDelivers` and
`OffsetStep` are the steps. A repeated page is refused since the page before it is
in the run with the same rows; a foreign row in a scan shows that the provider
ignored the assets asked for. `ClaimInv` keeps the days of the requests apart, so
that what is harvested was not held before.

### PointInTime

`PointInTimeProofs` proves `NeverPromoted` for every lag, and `BuildsArePointInTime`
and `PublishedHistoryStands` for a lag of zero, each for every calendar, window and
number of commits, builds and foreign rows. The hypotheses are
`PointInTimeAssumption`, `ReadingAssumption` (what the producer makes of its input is
neither a withdrawal nor a foreign value) and, for the last two, `Lag = 0`, without
which both fail (section 5).

`NeverPromoted` rests on `IInv`. A row may count as verified on a day if every
unverified observation it reads had been replaced by that day (`Clean`), which later
commits never undo. Every verified row a build is still to publish is of this kind
(`PendingClean`), since the build reads exactly the raw rows known by its end
(`Frozen`) and takes its evaluations in order (`PreviousKept`).

The other two rest on `HInv`. `commit_versions` drops a row that repeats the latest
version, so what a build publishes of a day need not be what the day shows: it must
be shown that a dropped row was not needed. `RowRight` is the reason: every row a
Item has sits on a right prefix of its observation's days: it is what the input gives
on its day, and the Item is right on all days before, so when a later row repeats the
latest version and is dropped, the days up to it show what they should. `Progress(k)` says how far a build has come: after k
evaluations each observation is right up to the eve of the next boundary, or right
up to the eve of a row that still waits (`PendingRight`). `Interval` is the fact
behind the boundaries: between two of them the view of earlier observations does not
change, so an evaluation on the eve of the next speaks for all days of the interval.
`Settled` and `Waiting` say the same of the repair and the withdrawals; `OneValue` and
`Dated` that a day has one version of a number and that a build's rows lie within its
range; `HistoryRight` that what a completed build has shown stays. `Keep` shows that a
commit of right rows leaves right days right, `CommitCopies` that witnesses of a
baseline show what it showed, `Establish` that a published row makes its interval
right. The exceptions `Overruled` (a foreign row of that observation) and `Overtaken`
(a raw row dated to the day of the freeze, after it) are those of the properties.

### ItemUpdate

`ItemUpdateProofs` proves `CompletionHolds`, `RepairsArePlanned`, `PinnedFlagIsFresh`
and `AdvertisedIsCertified` from `DeclarationAssumption`: the days are 1 .. n, the
graph of inputs is finite and acyclic, a request is a range of days.

The first three rest on `IInv`, which has two parts. `DataInv`: entries, receipts,
published rows and pinned sources name what exists, and every certificate is true
(`Certifies`): each day of its range that nobody has published since its result is
what its definition yields from its receipt. `CallInv`: what the operation on top of
each stack has reached (`Work`). Of an update, the days of its range that are neither
in its unit nor still to do are right, or somebody else has published the Item since
it began; while it publishes, so are the days of its unit that are done, or a row has
come from outside; when it certifies, each day is right or has a publication after
the result it is about to certify. Neither part is inductive alone: that a certificate is
true rests on `Work` of the operation that writes it, and `Work` on the certificates
the plan built on.

What a plan leaves out is right by `PlanComplete` (a day outside the plan is covered
by a build of the definition, and neither its rows nor what it reads was published
since, `Unmoved`) and `PlanLeavesRight` (such a day is what any receipt captured since
that build would give). The second plan of `RecheckPlan`, made after the freeze, is the
one this is about; a plan before the freeze may be stale. A reuse without computing
needs what a current receipt says: `CurrentReceipt` is a recursive function over
receipts of receipts, whose equation is well founded because the graph has no cycle
(`CurrentExists`, `CurrentUnfolds`), and nothing a current receipt selects has been
published again (`CurrentUnread`). That a log only grows, and that what grows changes
neither `Content` nor `Compute` below a receipt's boundary, is `Grows` with
`SamePast`, `UntouchedSince` and `UnreadSince`.

These three theorems have two forms. `CompletionsHoldAlone` and its companions are of
one process and at most one row from outside (`MaxIngests \in {0, 1}`), the runs'
setting, for any number of days, Items, calls, definitions and revisions.
`CompletionsHold` and its companions allow any number of processes and rows under two hypotheses
about the behaviour: `Apart`, no two processes are at work on one Item at once, and
`RepairAlone`, no row from outside reaches an Item between what its build finds to
repair and the repair. The code guarantees neither, since it holds the lease inside each
publication only: section 5 gives the runs in which the properties fail without them.
`RowsComeOnce` shows that the first form is a case of the second.

`WindowsAreCertified` needs no such hypothesis: it holds for any number of processes and
rows, since a flag and the build behind it are written in one transaction. Its
invariant `WindowInv` says that builds, operations and flags are of days (`Ranged`,
`Stacked`) beside the property; `WindowsUnite` shows that the united window has no day
but those of its two parts, `FlagWritten` that the builds behind both are there, and
`PlanWithin` that an update computes no day outside its request.

What remains with TLC is liveness, for which the prover has no rule, and with it
`ENABLED`: `UpdateEnds`, `LeaseIsReturned`, `ClaimIsSettled`, `CallEnds`,
`LeaseComesBack`, `EventuallyFresh`, `PhaseEnds`, `EveryDaySettles` and `RemovalEnds`.
Every invariant and every safety property a run checks is stated by a theorem, each
under the hypotheses its section names.

## 5. Observations

What the models show of the code beside the properties that hold. Each can be
reproduced with the constants named; none is a run of the project.

Update ledger (MCUpdateLedger; `First <- MCFirst`, `Defs = {v1}`,
`Required = {}`, `Backfill = FALSE`, no registration, reset or death, unless
said otherwise):

- `Serial = TRUE`, `SilentInterrupts = TRUE` violates `CertifiedRangeTerminal`.
  `state.fatal_error = str(exc)` (pipeline/update.py:391) is empty for an
  exception without text such as `KeyboardInterrupt`, and `_finish_state` tests
  it for truth: an interrupted update without failures of its own ends as
  success. Days that an earlier update left invalid are not counted as
  remaining (update.py:1242), so the flag is written over them.
- `Serial = FALSE`, `SilentInterrupts = FALSE` violates it too: a plan made before
  the lease leaves out scopes that are running then; if they end invalid, the
  later update does not see them and certifies the range.
  docs/en/engineering/storage-recovery.md:174 says "Advance flags only after
  successful whole requested range publication."
- One run, `Defs = {v1, v2}`, `MaxRegisters = 1` violates `CertifiedRangeCurrent`:
  `complete_node` reads the registered hash at the end (update.py:1319) and
  `record_empty_scope_results` compares no definition, so empties requested
  under one definition are certified under the next.
- Two concurrent runs, `MaxRegisters = 1` violate `NoStrandedClaim`: when
  `_fail_buffered` raises because another planner took a scope under a new
  definition, `_fail_running` is skipped and claims stay running without a
  lease, which the comment at update.py:1275 and ingestion-updates.md:94 exclude.
- `MaxRegisters = 2`: a redefinition that is taken back (A, B, A) resets rows
  without marking the dataset incomplete, and the first flag reads as current
  over pending rows. No document says what should hold.
- `_daily_requests` (scopes.py:496) plans every invalid row whatever its error;
  ingestion-updates.md:51-53 speaks of the all-null-payload error only.

Items (MCItemUpdate):

- Two processes in `Procs` violate `CompletionHolds` and `RepairsArePlanned`, in 16
  steps with one foreign row: an update settles and finds one day to repair
  because of that row, another update publishes the rows of a newer receipt, and
  the first repairs its one day. The repair's commit becomes the result of its
  certificate (items/api.py:2304-2329), which so covers the other update's row
  of another day as its own. The lease is held only inside each publication. With
  `MaxIngests = 0` it takes 17 steps: two updates freeze around two raw revisions, and
  what the later one publishes is what the earlier one repairs. Hence `Apart`.
- One process with `MaxIngests = 2` violates both too: a row from outside
  between the last publication and `Settle` makes a repair, a second row on another
  day arrives between `Settle` and `RepairRows`; the repair's commit becomes the
  certificate's result and covers the second row (items/api.py:2298-2346), which the
  next update takes for its own. Hence `RepairAlone`.
- `Requests` of `<<1, 1>>` and `<<2, 2>>`, `MaxCalls = 4`: an update of one day
  certifies rows whose input was revised after its freeze, with the dependencies of
  its flag read at the certification. A later reuse of the other day finds that flag
  unchanged and unites the two windows (data_meta.py:838-866), so that a flag written
  over current rows advertises the stale day too. The next update of that day
  finds it (`RepairsArePlanned`); `PinnedFlagIsFresh` therefore speaks of the range of
  the operation that writes the flag, and `AdvertisedIsCertified` of the union.
- The certificate of an ordinary build does not compare the output with what was
  settled (api.py:2329-2346 does so for a resumption only): a row ingested
  from outside between `Settle` and `CertifyUnit` leaves a flag that reads as
  current over it; the next update finds and repairs it (`RepairsArePlanned`), as
  tests/test_incremental_items.py:713 asks, but until then the flag stands,
  where storage-recovery.md:174-178 says that a retained flag cannot hide a newer
  partial publication.

Point in time (MCPointInTime):

- `Lag = 1` violates `HistoryStands` and `PointInTime`: `commit_versions` drops a
  withdrawal that equals the latest version over all dates (versions.py:330-344,
  399-430), although an earlier day still shows the row; the comment at
  api.py:2296-2298 expects the repair to be stored.
- `Lag = 2`: a withdrawal before the declared availability gets a version date
  before it (pit.py:225), and `_ingest` refuses the batch with `ValueError`
  (api.py:1240): such a build can never succeed.
- A row that becomes known on the very day of a freeze, after it, leaves what
  the build published of that day standing as history (`Overtaken`).

Declarations:

- Applying an archived raw dataset or source of a batch also disables it
  (declarations.py:281-283). A row stated as archived and enabled, which is what
  the defaults of a payload give, is therefore never `current` afterwards: the
  same batch planned again finds a conflict with what it applied itself.
- A valid plan with an archived Item over an already archived input cannot be
  applied: `_register` requires active inputs.

Scheduler: a draw of which other runs hold every scope ends the phase with
requests not drawn (update.py:500); `EndsComplete` names the case.

## 6. Not modelled

Metadata connections and sessions (SQLite is taken as serializable
transactions), status and reporting (reads only), the provider adapter (network
I/O; its outcomes are the environment of `Pagination`), the package surface.
Of modelled parts: General (non-panel) datasets with their key appends and
intervals, whose logic is frame algebra on data rather than control; availability
calendars and timing recomputation; predicates and transforms of queries; digests
and codecs. Each module's section says what else it leaves out.
