# dbrain in TLA+

dbrain is a local-first "second brain": it imports evidence from applications and
web services into one SQLite database, enriches and renders it, keeps a semantic
(vector) index beside it, and answers queries over CLI, web and MCP. Most of its
code is sequential data processing. What is hard to get right, and hard to test, is
the part where several goroutines and several processes share something: the lock
files, the semantic index that is built in resumable stages, replaced while queries
use it and collected afterwards, the capture queue several workers drain, and the
notification state that has to survive crashes and unreliable services. This
project models those parts, checks them with TLC and proves the central results
with TLAPS. Source paths below are relative to `src/`.

## 1. Inventory

### 1.1 Components in scope

| Component | State | Operations | Talks to |
|---|---|---|---|
| Run lock, `internal/runlock` | coordinator file with a counter, ticket files, lock file (all flock'ed), one gate per path and process | `Acquire`, `AcquireContext` (shared, exclusive), `Lock.Close` | kernel (flock), other processes; used by every job that needs a lock |
| Process gate, `internal/runlock/local_gate.go` | registry path -> gate with reference count; per gate readers, writer, queue of waiters | `reference`, `tryAcquire`, `acquire`, `release`, drop of the reference | the run lock takes it before the flock |
| Semantic locks, `internal/semanticlock` | two run locks ("maintenance", "generation"), reference-counted leases, `ExclusiveMaintenanceLease` with children | `Acquire...`, `Retain`, `Close`, `AcquireGenerationExclusive` | source writers (`store/authoritative_write_lock.go`), queries (`brainresearch/runtime.go`), refresh (`semanticrefresh/locked_pipeline.go`), collection (`semanticgc/gc.go`), purge (`store/item_purge.go`) |
| Semantic runtime, `internal/semanticruntime` | `Manager`: scopes, flights, entries, loads, drained; entries with refs and ops; leases | `Acquire`, `Lease.Search`, `Lease.Close`, `Shutdown`, detached `runLoad`, `closeEntry` | queries; retains a generation lease during a cold load; native index through `Load` and `Close` callbacks |
| Failure notifications, `internal/notify` | state file: incidents, outbox, last results; `Manager` | `Observe`, delivery rounds, restart | the sync scheduler reports outcomes; Slack and Buzz providers |
| Semantic refresh, `internal/semanticrefresh`, `internal/semanticbuild` with `store/semantic_refresh_runs.go`, `store/retrieval_*` | refresh runs with state, stage, watermark and version; dirty parents, embeddings, segments and active generation of each profile | `StartOrResume`, `Update`, `Touch`, runner loop; the stages projection, embedding, flush, compaction, verify, readiness | maintenance and generation lock, catalog, embedding provider |
| Semantic artifacts and collection, `semanticsegment`, `semanticbuild`, `semanticgc`, `store/retrieval_index_*` | directories of segments and roots, catalog rows, active generation | publish, activate, prune, unlink, recover | the semantic runtime loads what is active |
| Link capture queue, `store/link_capture_queue.go`, `internal/linkcapture` | queue rows with attempts, backoff, dead letters | enqueue, attempt, processed, failed, fallback | web server, browser extension |
| SQLite archive, `internal/sqlitearchive`, `app/sqlite_archive_scheduler.go` | operation lock, attempt file, database files | archive, restore, scheduled runs | object store |

The remaining parts (importers, enrichment, rendering, research, servers, command
line) are listed with reasons in `PROJECT.json` under `components`.

### 1.2 How they interact

A query takes the generation lock shared (a `semanticlock.Lease`), asks the runtime
`Manager` for the root of the active generation and searches it under a runtime
lease. When the root is not loaded yet, the first caller starts a detached load
that retains the query's generation lease; later callers wait for that load. A
refresh or a collection holds maintenance exclusively and, to publish or to remove
generations, generation exclusively as well; source writers hold maintenance shared
for the time of a transaction. All of these locks are run locks: coordinator, ticket
and lock files, under an in-process gate. The scheduler runs sync-all again and
again and reports each outcome to `notify.Manager.Observe`.

### 1.3 What is hard, and what makes it correct

| Component | Hard behaviour | Correct when |
|---|---|---|
| Run lock | crashes between any two file operations, lost counter, cancelled writers, readers racing intents | writers exclude, intents keep their place, intents block readers, writers come in order and are served |
| Process gate | a cancellation racing a grant, registry entries dropped and remade | one gate per path, exact counters, nobody stranded or overtaken |
| Semantic locks | `Retain` racing the last `Close`, children closed from two sides, two locks and a mutex held while waiting | no reader during publication, kernel locks neither leaked nor dropped early, lock order, no deadlock |
| Semantic runtime | root switches A-B-A during a load, searches waiting for `searchMu` while everything is closed, shutdown against detached loads | no use after close, one close per root, exact counters, clean and certain drain |
| Notifications | crash between delivery and record, ambiguous answers, full outbox, flapping failures, changed providers | announced once per window, nothing lost or repeated after it was recorded, the state never becomes invalid |
| Refresh and ledger | two runners on one run, cancellation while an outcome is recorded, a crash between a stage and its record, source writes between the stages, an outage of the provider | no run advances or completes over work that is not done, none is left marked running, the exact-search tail stays bounded, refreshes end and work off the backlog |
| Artifacts and collection | a crash or a half-done removal between catalog and file system, segments shared and published again, a pointer recorded late | what the catalog or a query refers to is on disk, pointers resolve, leftovers are collected |
| Link capture | workers without claims, re-save during processing, crash after counting | an accepted URL is never lost, re-saving buys no attempts, the dead letter comes after the fallback, everything is settled |
| SQLite archive | failure between moving the old and installing the new database | one of the two is recoverable |

`PROJECT.json` lists the hazards line by line with the properties aimed at them.

## 2. Modules

| Module | Models | Extends |
|---|---|---|
| `SemanticRuntime` | `semanticruntime/cache.go` | |
| `RootLifecycle` | abstract: what the cache promises about native roots | |
| `SemanticRuntimeProofs` | theorems | `SemanticRuntime` |
| `RunLock` | `runlock/intent.go`, `lock.go`, `lock_unix.go` | |
| `FairRWLock` | abstract: a fair reader/writer lock with published intents | |
| `RunLockProofs` | theorems | `RunLock` |
| `LocalGate` | `runlock/local_gate.go` | |
| `LocalGateProofs` | theorems | `LocalGate` |
| `SemanticLock` | `semanticlock/scope.go` and the jobs that use it | two instances of `FairRWLock` |
| `SemanticLockProofs` | theorems | `SemanticLock` |
| `NotifyState` | `notify/state.go`, the pure state functions | |
| `Notify` | `notify/manager.go` over `store.go` | `NotifyState` |
| `NotifyProofs` | theorems | `Notify` |
| `SemanticRefresh` | `semanticrefresh/runner.go`, `pipeline.go`, `store/semantic_refresh_runs.go`, and what the stages do (`semanticbuild`, `store/retrieval_*`) | |
| `SemanticRefreshProofs` | theorems | `SemanticRefresh` |
| `SemanticPublication` | `semanticsegment/publish.go`, activation, purge, `semanticgc/gc.go`, `store/retrieval_semantic_gc.go` | |
| `SemanticPublicationProofs` | theorems | `SemanticPublication` |
| `LinkCapture` | `store/link_capture_queue.go`, `linkcapture/worker.go` | |
| `LinkCaptureProofs` | theorems | `LinkCapture` |
| `MC...` | constants and symmetry for TLC | |

A definition preceded by a comment "Mutant:" is a deliberately wrong variant of the
definition after it; nothing uses it. `PROJECT.json` pairs each with the property
that must notice it.

**SemanticRuntime.** A flight is the identity of a `loadFlight` and of the entry and
native root that come out of it. One action per critical section of `m.mu` or per
call made outside it: `Acquire` is split into its four outcomes (join, hit, no guard,
cold load), the cold load continues in `Retain`, `Recheck`, `Load`, `Admit`,
`Discard`, `ReleaseGuard`, `Publish`, `Dispose`, `Drop` and `FinishFlight`, which run
detached and interleave with everything. `Search` is split where it waits for
`searchMu` and where it calls the native index. `root` becomes `"broken"` when the
native `Close` runs twice. Callbacks (`Load`, `Retain`, `Close`) may fail; error
values are reduced to that. `MaxSequence` bounds the number of root switches.

**RunLock.** A step is one file-system call, or one scan of the ticket directory,
which only the holder of the coordinator performs. The counter is truncated and
written in two steps. Any call may fail, any wait may be cancelled, and a process may
crash at any point: its flocks go, its files stay. `MaxSequence` stands for
`math.MaxUint64`; in the run it is reached, so that the overflow branch is taken.
`arrival` is a history variable, the order in which intents were published.
`TryClients` use `Acquire`, which does not queue; whoever calls it again and again takes
the gate each time, and `WritersAreServed` excepts that. Path handling, lock metadata and
`lock_windows.go` are left out.

**LocalGate.** Registry, gate and queue of one path, one step per critical section.
A grant (closing the waiter's channel) and its receipt are two steps, so that a
cancellation can fall in between. `Entries` are the gate objects the registry may
create over time.

**SemanticLock.** Source writers, queries with cold-load guards, the dry run of the
collection, and maintainers (refresh, collection, purge) with generation leases. The
locks underneath are not modelled again: they are two instances of `FairRWLock`,
which `RunLock` is proved to implement. `Retain` is applied only to a query's lease,
as in `runtime_native_searcher_usearch.go`. `LockOrder` is the order in which the
collection takes its locks.

**NotifyState and Notify.** `NotifyState` has the functions of `state.go` as
operators on records. `Notify` ends a step where the state file is replaced or a
provider is called, because only there a crash makes a difference; `observeMu` admits
one `Observe` at a time. `FaultyReplace` is a `Replace` that reports an error with or
without having renamed the file (the directory's fsync comes last). A restart may
configure other providers. A provider is the set of answers `classifyDeliveryResult`
distinguishes; the model takes from the providers that "temporary" and "permanent"
mean not published and that an ambiguous one may have been. Texts, digests, metrics,
the byte limit of the file and the v1 migration are left out. `MaxFailures`,
`MaxFaults` and `MaxTime` bound outcomes, faults and the clock; successes are not
bounded.

**SemanticRefresh.** A stage executes under the exclusive maintenance lease, so each
of the six `Execute...` actions is one step; everything between a stage and its record
(crash, cancellation, another runner, a source write) interleaves. The ledger row's
version is represented by who holds the latest one (`fresh`) and whose `run_id` is
still the resumable row (`attached`); rows that are completed or superseded are never
read again and are represented by their absence. The two runners are different
processes (`sync all` and `dbrain semantic refresh`, `app/semantic_refresh.go:44`), so
the in-process gate `AcquireSemanticRefreshStage` does not order them. A parent stands
for its one chunk; a segment for the set of vectors it holds and the number of those
that are gone. `SegmentTarget`, `SegmentHardLimit` and `EmbeddingBatch` are the code's
constants at small values. Left out: the purge epoch, which nothing in the program
raises; the cap of a segment at forty targets; the repair of generations of releases
before schema 29; permanently blocked embeddings; segments created in the same second,
whose order the code takes from the hash; of `ProgressEmitter` everything but the touch
of the row and what a lost row does to the work. A stage may break off (`Breaks`) at its
beginning, between the flush ahead of a batch and the batch, or after its work, and its
failed outcome names the stage again or already the next, as far as the code had got; a
crash there is a break followed by `Crash`. A cancellation in the midst of recording an
outcome leads to `PersistCancelled`, in the midst of that last update it leaves the row
running. `lost` is a history variable: a crash, a failed update or a successor that
collided left a run behind. `EmbeddingKeepsL0Bounded` is about the refresh:
`dbrain semantic embed` (`semanticbuild/embed.go:218`) embeds without a flush ahead of
its batches, and is outside the model.

**SemanticPublication.** Publishing writes directories first and the catalog last,
collecting deletes catalog rows first and directories last, and a crash may come
between any two steps. A segment is named by its hash, so publishing the same contents
again meets the old directory, which may be whole or torn. Leases are one exclusive
holder and a set of readers, as `SemanticLock` has them; profiles share no artifacts,
so there is one. Time is the grace period: `old` and `recent`. `Flush` and `Compact`
say only which segments the next root has; what they select is `SemanticRefresh`'s
business. Purging an item (`store/item_purge.go`) takes both exclusive leases.
The collector orders generations by `created_at`, which has a resolution of one second,
and then by ID, which is a hash; `Position` is that order, and any injection is
admitted, so that generations of one second may come in any order. Left out: the repairs
that mark generations stale when a database of an older release is opened
(`store/retrieval_embedding_profiles.go:428`, `store/retrieval_dirty.go:182`), which act
on the generations as a purge does, and the recovery of dangling roots of releases before schema 29
(`store/retrieval_dangling_generation_recovery.go`).

**LinkCapture.** Every SQL statement is its own transaction and one action; a save is
up to three rounds of three statements. `next_attempt_at` is whether it has passed,
`enqueued_at` the order of the queue. Fetching, discovery and import are one step that
stores the URL or fails; a fallback that fails may still have left the source behind.
`Interrupt` is a crash, a shutdown or a failed statement.

## 3. Runs

| Run | Question | Bounds |
|---|---|---|
| `runtime` | use after close, double close, guards, counters, cache maps, `RootLifecycle`, drain, waiters | 2 loads, 2 keys of one scope, 2 callers, 2 searchers that share leases, 2 root switches |
| `runlock` | exclusion, tickets, order, `FairRWLock`, a writer with an intent is served | 4 clients (one only tries) in 2 processes, 2 intents, numbers 1..2, 1 crash, I/O errors |
| `gate` | one gate, counters, stranded waiters, overtaking, progress | 4 goroutines, 2 gate objects |
| `semlock` | exclusion of publication, leases, lock order, progress | 1 writer, 2 queries, 1 guard, 1 planner, 2 maintainers, 3 workers |
| `notify` | validity, full outbox, recoveries, fan-out, records, removal of envelopes | 2 failure types, 2 providers, outbox of 2, 2 failures, 1 fault, times 1..2 with a window of 1 |
| `notify_windows` | windows, ambiguous retries, pending deliveries drain | 1 failure type, 1 provider, outbox of 2, 3 failures, 1 fault, times 1..3 with a window of 2 |
| `notify_clock` | expected violation, see section 6 | a clock that may be set back |
| `refresh` | stages and completions are earned, no run is left running, L0 is bounded | 4 parents, 2 profiles, 2 runners, target 2, hard limit 3, batches of 2, 1 write after the backlog, 2 disturbances |
| `refresh_liveness` | refreshes return, the backlog is worked off | 2 parents, 2 profiles, 2 runners, target 1, hard limit 2, 2 writes, 1 disturbance |
| `refresh_stuck` | expected violation, see section 6 | 2 parents, 1 profile, no disturbance |
| `capture` | accepted links, budget, dead letters, settlement | 1 URL, 2 workers, 2 saves at a time, 3 attempts, 1 interruption |
| `publication` | nothing missing, pointers, leftovers | 2 segments, 3 generations of different seconds, 2 builders, 1 query, 2 generations kept, 1 crash, failed removal or purge |

The bounds are the smallest at which each hazard occurs: two searchers for a
lease that is closed with more than one operation on it; two writers plus a
lost counter for a number that could be issued below a waiting one, and a number range
that runs out for the next; four goroutines for a gate holder, a cancelled waiter that was just
granted, the next in line and a newcomer; an outbox of two for a full outbox with one
ambiguous and one pending envelope; four parents for a full segment beside a full L0;
three generations and two segments for a segment that is given up, collected and
published again; two workers for a capture that both have in hand. A scope that
switches away and back while its first load runs (A-B-A) needs three switches, beyond
the run, and a longer line of writers needs more intents than `runlock` has; the proofs
of section 4 cover both for every number. One URL in `capture`
means that nothing is shown about URLs starving each other; the rows of different URLs
share nothing but their order.

A disturbance of `refresh` is a crash, a cancellation, a failed update or stage, an
outage, a change of the configured profile or a refresh by hand beside the scheduled
one, in any order.

Symmetry is used only for interchangeable clients, failure types, providers, parents
and profiles, and never in a run with a liveness property.

**Deadlock** is checked in every run: each model always has a next step (clients come
back, runs keep succeeding); the only legitimate end, a drained runtime manager, is
the explicit stutter `Terminated`.

**Fairness.** `runtime`: the steps of a load, a closer and a search are fair
(every goroutine that can run does, native callbacks return), leases are closed by
their owners (each caller defers `Close`), and waiting for `searchMu` is strongly fair
because a Go mutex does not starve a waiter. Starting a call, cancelling one and
`Shutdown` get no fairness. `runlock`: every client that has started a call
goes on and every holder closes; strong fairness is assumed only for a waiting writer
taking the coordinator, which it polls every few milliseconds while the others give it
back again and again. Crashes and errors get none. `gate`: started calls go on,
holders release, references are dropped; waiters are granted by the releaser itself.
`semlock`: jobs that hold something give it up and locks that can be taken are taken;
acquisition is fair because `FairRWLock` serves intents in order, which is what the
run lock establishes; closing a maintenance lease takes its Go mutex, hence strong
fairness. `notify_windows`: the scheduler keeps finishing runs, a started `Observe`
goes on, and a provider that is asked again and again accepts in the end (strong
fairness of acceptance; the code retries without limit and has no other remedy).
`refresh_liveness`: a refresh goes on until it returns, the scheduler starts one after
every sync, cooldowns pass and outages end; source writes, refreshes by hand and
faults get no fairness. `capture`: a worker's loop goes on (each attempt has a time
limit) and backoffs pass; savers get none. `publication`: steps under a lease go on,
queries close, the clock goes on, and a collection that is started again and again gets
its leases in the end (strong fairness; `EveryoneProceeds` shows that nobody keeps the
locks for ever). Automatic collection after a refresh is opt-in and gives up when a lock
is not free within its timeout, so `LeftoversAreCollected` is to be read as: a later
collection removes what is left over, if collections, automatic or by hand, keep being
started and one of them gets its locks. Builders need not start anything.

## 4. Proofs

TLAPS proves the following for every number of clients, processes, loads, callers,
searchers, workers, parents, crashes and errors, and every value of the bounds. The only
assumptions are the named ones in the modules: the types of `ScopeOf` and `ProcOf`, that
the kinds of actors are disjoint and `None` is none of the values it stands beside, that
the bounds are natural numbers, that the sets which are counted (callers, searchers,
flights, lock handles, goroutines, workers, parents) are finite, that a batch of
embeddings is no larger than a segment and a segment no larger than the hard limit of
L0, that the refresh's `MaxRevision` has room for the backlog, and that the outbox, the
repeat window and the clock's range are not empty, and that two generations are never at
the same place of the collector's order. Two hypotheses are stated in
theorems: `EnoughRetained` in `PointersAlwaysResolve` (4.3), and `~ClockStepsBack`, a
clock that is never set back, in five of the theorems about `Notify` (4.8). Every
invariant and every action property of the passing runs is proved.

### 4.1 Semantic runtime (`SemanticRuntimeProofs`)

| Theorem | Property |
|---|---|
| `RootsStaySafe` (from `NoUseAfterClose`, `NoDoubleClose`, `GuardsAreSound`) | `RootsAreSafe` |
| `CountersAreSound` (from `TypeCorrect`, `CountersAreExact`) | `CountersSound` |
| `CacheIsCoherent` | `CacheCoherent` |
| `DrainLeavesNothing` | `DrainedIsClean` |
| `CacheImplementsLifecycle` | `ImplementsLifecycle` (refinement of `RootLifecycle`) |
| `LeasesAreGrantedOnCurrentRoots` | `LeasesGrantedOnCurrentRoot` (action property) |

None of these is inductive alone. `InductiveInvariant` adds to the type invariant:
`FlightInv` (what is known at each place of a load), `EntryInv` (an entry's root is
open exactly until one of the three closers has run; a closing entry has no
references), `LeaseInv` (a lease is on a published, tracked entry, and every search
belongs to a lease that still counts it), `MapInv` (the maps hold what their key
says, and nothing current is missing from them), `SequenceInv` (sequence numbers
identify root switches; an active flight of the current sequence is the one in the
map) and `DrainInv`. The counters are the crux: `NoUseAfterClose` needs that
`refs = 0` and `ops = 0` mean that no lease and no search exists, so they are equated
with cardinalities, and each action's proof shows which set gains or loses which
element. The A-B-A hazard is excluded by `SequenceInv`: an outdated flight has a
sequence smaller than the scope's, so it fails `StillCurrent` although its key
matches. One lemma per action shows that it preserves the invariant.

The refinement maps leases to holders, searches to users, and calls a root doomed once
its entry is retired or its flight can no longer publish it. Most steps doom some roots
or none (`DoomingStep`); the three places that close a root are one abstract `Close`,
whose condition that nobody has the root is again the exactness of the counters; the
last search under a closed lease ends use and lease in one step.

### 4.2 Run lock (`RunLockProofs`)

| Theorem | Property |
|---|---|
| `LineStaysSound` (from `TypeCorrect`, `IntentsStayInOrder`) | `LineIsSound` |
| `HoldersExclude` | `MutualExclusion` |
| `IntentsBlockReaders` | `IntentBlocksReaders` (action property) |
| `WritersServedInOrder` | `WritersInOrder` (action property) |
| `LockIsFair` | `ImplementsFairLock` (refinement of `FairRWLock`) |

`CoordInv` ties the places of the code to the holder of the coordinator; `TicketInv`
says that a live ticket is a file locked by its owner, that numbers and arrivals
agree, and that a writer about to create a ticket has a number above every live one,
whether the counter survived or not: `createWriterIntent` takes the maximum of the
counter and the tickets it sees. `HoldInv` describes who holds gate and flock at each
place. `FirstInv` and `NoIntentInv` carry the result of a scan forward: between a
writer's scan and its flock no smaller ticket can appear, and between a reader's scan
and its second check no ticket can appear, because the scanner still holds the
coordinator. The refinement maps `arrival`, readers and writers to the abstract
variables; each action is a step of the abstract lock or a stutter, and the two
action properties follow from it and from the invariant.

### 4.3 Semantic artifacts (`SemanticPublicationProofs`)

| Theorem | Property |
|---|---|
| `NothingIsMissing` | `NothingMissing` |
| `PointersAlwaysResolve` | `PointersResolve`, given `EnoughRetained` |

`NothingMissing` speaks of what is catalogued; its proof needs to know what is about
to be. `Held` says who is at work under the exclusive leases holds them, so that
publication, collection and queries exclude each other; `Built` that a stage writes a
generation that did not exist before and activates one that is whole; `Planned` that
from the pruning on everything catalogued is in the collector's `retained`, and
nothing in `retained` is still to be removed. `Catalogued` adds to the property that
no catalogued generation is empty: that is why no root is published over one. Two
lemmas carry the file system: what is only added to stays whole (`IntactStays`), and
what the collector has yet to remove belongs to no catalogued generation
(`TodoIsForeign`). It holds for every number of builders, queries, generations,
crashes and torn directories, and every retention count.

`PointersAlwaysResolve` assumes `EnoughRetained`: the refreshes at once, together with
the older generations that the collector's order puts before a generation because they
are of the same second (`Misplaced`), are no more than the retained generations. The
default of two meets it for two refreshes and generations of different seconds. That is
an assumption about use and not about the code: nothing limits the refreshes that are
started by hand, since the command has no lock of its own (section 5 says what happens
otherwise). The argument counts: while a runner has activated a generation and not yet
recorded it, every generation activated since was activated by another refresh that has
by then lost its turn, so fewer than `RetainPublished` come before it in the collector's
order and the prune keeps it.

### 4.4 Semantic locks (`SemanticLockProofs`)

| Theorem | Property |
|---|---|
| `NoPublicationUnderReaders` | `ReadersExcludePublication` |
| `LeasesStayExact` | `LeasesAreExact` |
| `MaintenanceComesFirst` | `GenerationUnderMaintenance` |

The references of a lease are equated with the number of handles that are still open,
so that only the last `Close` releases the kernel lock, and no lock is left without a
handle. A child of an `ExclusiveMaintenanceLease` keeps the parent's lock held until it
is closed itself, from whichever side. The rest is what `FairRWLock` gives for each of
the two locks.

### 4.5 Process gate (`LocalGateProofs`)

| Theorem | Property |
|---|---|
| `GateStaysExact` | `GateIsExact` |
| `NobodyIsStranded` | `NoStrandedWaiter` |
| `QueueIsFair` | `NoOvertaking` (action property) |

Only the entry in the registry is in use, because an entry leaves it only when its
reference count, which counts the goroutines that refer to it, reaches zero. Its
counters are the holders plus those granted and not yet awake; its queue holds exactly
the waiting, ungranted goroutines, each once. `grantWaiters` stops at the first waiter
it cannot admit; that such a first one exists is a least-element argument, and that
nobody is stranded means that this one really is blocked by a holder.

### 4.6 Link capture (`LinkCaptureProofs`)

| Theorem | Property |
|---|---|
| `AcceptedLinksAreKept` | `AcceptedIsKept` |
| `BudgetStaysKept` | `BudgetIsKept` |
| `DeadLettersAreEarned` | `DeadLetterIsEarned` |

Rows are never deleted, and a worker marks one processed only when the URL is stored,
whichever worker stored it. `BudgetInv` is the inequality behind the budget: the attempts
of a pending row beyond `MaxAttempts - 1` are paid for by the workers in the middle of an
attempt at it (each of them will settle the row or be interrupted) and by the
interruptions so far. While no second worker has the row in hand, a worker's copy of the
count is the row's, so the fallback is tried before the row is parked (`EarnedInv`).

### 4.7 Semantic refresh (`SemanticRefreshProofs`)

| Theorem | Property |
|---|---|
| `StagesAreEarned` | `StageIsEarned` |
| `RunsAreNotAbandoned` | `RunningHasARunner` |
| `CompletionsAreEarned` | `CompletionIsEarned` (action property) |
| `TheTailStaysBounded` | `EmbeddingKeepsL0Bounded` (action property) |

`LedgerInv` ties the runners to the ledger: a fresh copy agrees with its row, a row has
at most one fresh copy, an attached copy has its row's watermark. `OutcomeInv` says that
an outcome which waits to be recorded under a fresh copy is still true when it is
recorded: a source write after the stage lies above every watermark in use, an outage or
a cooldown undoes no embedding, and whoever starts or resumes the run makes the other
copies stale, so that what they claim no longer counts. Together with `RowInv` (a row
past projection is clean up to its watermark) this gives `StageIsEarned` and
`CompletionIsEarned`. A runner that returns has put its row down, or its update failed
and `lost` says so. The tail: a batch without a flush had room; a flush takes a whole
segment out of L0, and no batch is larger; that compaction leaves the segments disjoint
is needed for the flush to take what it says. It is the largest proof, because the
stages' data (segments, compaction plans, `Min` and `Max` of finite sets) have to be
reasoned about without induction principles; least elements take their place.

### 4.8 Notifications (`NotifyProofs`)

| Theorem | Property | Clock |
|---|---|---|
| `TypeCorrect` | `TypeOK` | any |
| `StateIsNeverRefused` | `NeverRefused` | any |
| `SilenceFollowsAnnouncement` | `SuppressionIsAnnounced` | any |
| `NothingIsDropped` | `DroppedWhenDone` (action property) | any |
| `NotificationsAreSuppressed` | `FlapsAreSuppressed` | not set back |
| `UsersAreToldTheTruth` | `AnnouncementsAreHonest` | not set back |
| `NoSecondDelivery` | `NoRepeatAfterRecord` | not set back |
| `AmbiguousIsRetriedWhenDue` | `AmbiguousRetryIsDue` | not set back |

There are two inductive invariants. `IInv` holds with any clock, and the first four
theorems with it, although the passing runs check them only with a clock that does not
go back. `Sound` says that the state on disk passes `ValidateState` and would still pass
it after the next outcome: every incident's window is open past its last failure, and
its count leaves room for the failure that waits while the outbox is being emptied.
`Underway` says that the delivery in flight is of an envelope of the state on disk, with
the status it was chosen for; only one `Observe` runs at a time, so nothing else can
have moved the envelope meanwhile. `Answered` says that a final status is an answer that
was given.

`ClockInv` adds what only a clock that does not go back gives. `Windows` places the
announcements of a failure type relative to the window of its incident, and
`Recoveries` and `RecoveriesAreEarned` relate a recovery to the failure it ends. From
them no event can be put into the outbox a second time; `Records` needs that, because
`recorded` names events and not places in the outbox. `Due` says that an ambiguous
delivery waits for a reminder that `Observe` has really found to be due. The hypothesis
is not a convenience: `notify_clock` shows `FlapsAreSuppressed` false without it (section
6), and the other three rest on the same windows.

The steps are grouped by what they write. An outcome is silent or makes one event;
pruning and retiring make one outbox follow another, envelope by envelope. So every step
is `Observed`, `Recorded` or `Quiet`, and each invariant is proved three times and not
once for each action. `keptEnvelopes`, the loop of `pruneTerminalEnvelopes`, is a
recursive function of the index. That it is defined at every index (`LoopDefined`) and
what it keeps (`KeptFacts`) is shown for the least index at which it would fail; the
predicate `Sifts` names, for each envelope kept, the place it had before.

### 4.9 Only model-checked

Liveness, that is all the `~>` properties and those that need fairness, is outside the
prover's reach: `ShutdownDrains`, `NobodyIsForgotten`, `WritersAreServed`,
`WaitersAreGranted`, `EveryoneProceeds`, `PendingDrains`, `EveryCaptureSettles`,
`EveryRefreshReturns`, `DebtIsWorkedOff` and `LeftoversAreCollected`. TLC checks them
within the bounds of section 3. The refinements are proved for the safety part; the
abstract specifications have no other.

## 5. What the checks show

All runs but `notify_clock` and `refresh_stuck` pass. In particular: a detached load, three closers and
hand-kept counters never close a native root under a search or twice; a crash of the
process that owns the ticket counter costs numbers but never a place; a grant that
races a cancellation is passed on; the two semantic locks, the mutex of the
maintenance lease and the polling locks underneath never deadlock; a notification
that was recorded is not sent again, and one that suppresses others was really put
into the outbox; a refresh run never advances or completes over work that is not done,
whichever runner recorded it; neither publication nor collection, interrupted anywhere,
leaves the catalog or a query with a missing artifact, which is what
docs/semantic-retrieval.md promises ("An unlink failure cannot leave SQLite pointing at
an absent artifact; the leftover directory is rediscovered by the next run"); an
acknowledged link is stored or still in the queue, whatever two workers do with it.

Limits that the models make visible, and that the properties respect:

- A stale runner may compact the active generation between the readiness stage and the
  completion of another run, so `CompletionIsEarned` does not say that the active root
  is the verified one.
- `PointersResolve` needs as many retained generations as there are refreshes at once.
  A runner that has activated a generation and not yet recorded it can be overtaken by
  every other refresh under way: a stale copy may still publish one more generation
  before its own record fails. When these and the grace period have passed, a
  collection keeps only the newest, and the late record points to a generation that is
  gone; every later prune stops there until the run is completed. The default retains
  two, which is enough for the two refreshes of the run (one of `sync all`, one of the
  command line); with three of them, which the program does not prevent, or with
  `--retain-generations 1` and two, TLC finds the pointer dangling. It takes a pause of
  ten minutes between two statements.
- The same happens with two refreshes and two retained generations when two generations
  are created within one second and their hashes put the older one first
  (`retrieval_semantic_gc.go:310`): with `Position = <<2, 1, 3>>` TLC finds the late
  record pointing to the second generation, which the collector took for the oldest of
  the three. With three retained generations the property holds again, as
  `EnoughRetained` says. The run therefore has `Position` in the order of creation.
- A torn segment, left by a removal that failed half way, blocks publishing the same
  contents until a collection has removed it.
- A capture that two workers had in hand may be parked without a fallback:
  `DeadLetterIsEarned` excepts it.

A known and accepted limit, visible in the model: ambiguous deliveries of an incident
that has closed are neither retried nor removed, and enough of them leave no room in
the outbox (`TestManagerFullAmbiguousOutboxDoesNotRetryWithoutSafeReminder`).
`PendingDrains` therefore speaks only of pending deliveries.

## 6. Findings

**A clock set back.** `notify_clock` violates `FlapsAreSuppressed`: `pruneExpiredCoolingIncidents`
(`internal/notify/state.go:162`) forgets a cooled incident as soon as one outcome
carries a time at or after its window's end. If the wall clock is then set back, a
failure inside that window is announced a second time. README.md:451-453 says that
"rapid fail/recover flaps therefore cannot bypass suppression", and the test
`TestObserveClockRollbackAndDuplicateTimestampCannotBypassSuppression` covers an open
incident only. With a clock that does not go back the property holds
(`notify_windows`).

**A refresh that cannot be resumed.** `refresh_stuck` violates `AutomaticallyResumed`
without any fault. A refresh flushes when L0 holds more than `RetrievalSegmentTarget`
vectors; `NextRetrievalFlushWindow` offers only vectors of clean parents, and
`validateFlushWindow` (`internal/semanticbuild/flush.go:180`) refuses a window shorter
than the target. If parents with vectors in L0 are rewritten between the embedding and
the flush stage (with the real constants: L0 = 5001, two of them dirty), the flush
fails, the run stays at stage flush, every later refresh resumes it there with its old
watermark and fails again, and the rewritten parents are never projected.
docs/semantic-retrieval.md:11-14 says that "a later successful sync automatically
resumes a refresh interrupted by cancellation or failure without repeating completed
durable work"; CHANGELOG.md:457 says that "unchanged source runs also resume prior
semantic work". `Stuck` names this and the other ways in which a resumed run fails
again at its stage: the flush ahead of an embedding batch short of clean vectors or with
a window older than the active snapshot; a compaction with a segment whose vectors are
all gone, or one that would leave an empty root (`compaction_execute.go`, "semantic
compaction would leave an empty root"); a readiness stage whose unfinished work lies in
an earlier stage while nothing new was written. `DebtIsWorkedOff` shows that there is
no further way.

## 7. Not modelled, and the plan

Not modelled: importers, enrichment, retrieval, rendering and servers (data
processing or I/O without shared state of their own), which are most of the code;
the SQLite archive, its scheduler and restore (one goroutine behind a lock; restore is
a sequence of renames without recovery code); media pruning and metrics rotation; the
Windows lock variants, the native index, the providers' wire protocols. `PROJECT.json`
has the reasons part by part. The models cover the code in which several processes
share state; the rest of the repository is sequential and would be transliterated
rather than abstracted.

Next, in this order:

1. An abstract specification of the index as a query sees it (a generation that is
   whole, replaced atomically), implemented by `SemanticPublication`.
2. The SQLite archive's scheduler, if it grows more than one actor.
