# A formal model of pi-intelli-search

This directory holds TLA+ models of the concurrent parts of pi-intelli-search,
the TLC configurations that check them on small instances, and TLAPS proofs of
the properties that matter most for every instance.  Paths are those of the
repository.

## The system and its parts

pi-intelli-search gives a coding agent four operations: search the web with a
search-grounded model, fetch and extract pages, collate extractions into a
report, and the whole pipeline in one call (`intelli_research`).  The same core
runs in two hosts: an extension inside the Pi agent, and a standalone MCP server
on standard input and output.

| part | state it keeps | operations | what is hard | what makes it correct |
|---|---|---|---|---|
| Advisory lock (`src/core/cache.ts` 25-147) | one directory per lock, its age | `acquireLock`, `isLockStale`, `withLock` | processes that crash while they hold it, waiters that time out or are aborted, breaking a stale lock by name | one holder at a time; a crash does not block the lock for good |
| Cache folders and index (`src/core/cache.ts`, `research.ts`, `collate.ts`, `telemetry.ts`) | a folder per query and day, its archives `.1`, `.2`, the shared `.index.json` | rotate, stage, commit, prune, report, index entry, degraded clean-up, sidecar, documentation downloads | many file system steps that runs on the same folder interleave, and that a crash or an error separates | a report is never lost, never next to files of another run, never listed without being there |
| Native model call (`src/llm.ts`, `src/core/llm.ts`, `src/core/util.ts`, `src/core/annotations.ts`, `src/native-model-client.ts`) | attempt counter, flags of the policy, citation sinks | `callLlm`, `runModelWithPolicy`, `withRetry`, `callWithAbortTimeout`, `sleep`, `settleAnnotationSink` | timer, abort, answer and background reads in any order; flags that outlive an attempt | the value, citations and failure reported belong to the last attempt; an abort wins |
| MCP request queue (`packages/mcp/src/queue.ts`) | queued entries, the counter and set of running ones | `submit`, `drain`, abort listener, settling, `close` | promise callbacks between the answer and the freed slot, aborts of queued requests, close | limits, first come first served, every request answered, close waits for all |
| MCP server (`packages/mcp/src/server.ts`, `runtime.ts`, `cli.ts`) | the runtime, the kept configuration load, `closing` | tool handlers, `lazyRuntime`, `execute`, `close`, `hardExit` | a configuration repaired while calls arrive; shutdown in the middle of everything | a repaired file is used, one configuration per process, shutdown answers everything and ends |
| Research pipeline (`src/core/operations/research.ts`, `search.ts`, `extract.ts`, `src/core/fetch.ts`) | stage, pages, progress | preflight, search, fetch, extract, collate, degraded exits | a page that fails or an abort in the middle of a bounded worker pool | every page accounted for, degraded exits end at the right place |
| Worker pool, rate limiter (`src/core/util.ts`) | next index, next free time | `mapWithConcurrency`, `createRateLimiter` | a worker that throws while others run | order kept, at most the limit at once, drained before failing |
| Console guards (`src/core/console.ts`, `packages/mcp/src/console.ts`) | a count of regions, the replaced methods | enter and leave a region | overlapping regions, a third party replacing the method | the original comes back, flags are those of the region |
| Page fetch (`src/core/fetch.ts`) | none between pages | two pipelines per page, the comparison of what they bring | requests that fail or stall at any of six places, an extractor that logs errors to a shared console | no variant that arrived is lost, a page is charged with its own errors, every page ends |
| Settings, session, providers (`src/settings.ts`, `src/index.ts`, `src/providers.ts`) | two settings files, a cache by trust, a pending migration, the version file, `models.json` | load, migrate, announce, register | loads of several tools that overlap, sessions that end meanwhile, several processes, crashes and failed writes | tools get migrated settings, an unapproved project has no say, no registration is lost |
| Standalone server (`packages/mcp/src/cli.ts`, `config.ts`, `host.ts`, `runtime.ts`, `workspace.ts`, `providers/openrouter.ts`) | `config.json`, credential files, the configuration the server holds | `setup`, `serve`, the steps of `execute`: scan, credential, catalogue, operation | setups beside a running server and the user's edits, a credential replaced while it is read, an abort anywhere | a completed setup can be used, a refusal costs nothing, selections survive |
| The rest: telemetry counters, provenance, messages, prompts, schemas, native tool rendering | none between calls | pure functions or sequential I/O | | |

How they interact.  A research run asks the model client for each stage (`ModelCall`),
then commits to the cache under the folder's lock and, nested inside it, the
index's lock (`FsLock`, `CacheStore`).  The MCP server passes each tool call
through the queue (`OperationQueue`), resolves its configuration (`McpServer`) and
runs the same operations.  Several agents and servers share one cache directory,
which is why the lock is in the file system and not in the process.  The extension's
session handler takes the same kind of lock around `models.json` (`Session`), every
operation loads its settings through the session's cache, and the extractor of a page
runs in a region of the console guard that all pages of the process share (`PageFetch`).
The setup command and the server of the standalone package meet only in the files
(`Standalone`).

## Modules

| module | models | state and actions |
|---|---|---|
| `LockService` | what `withLock` promises: one holder, whoever it is | `Acquire`, `Enter`, `Exit`, `Release` |
| `FsLock` | `acquireLock`, `isLockStale`, `withLock` with each file system call a step | `dir` is the directory and who made it, `age` its birth time relative to now, `waited` the deadline of a waiter, `lockPc` the place in the loop |
| `ReportStore` | what the readers of the cache are promised | `Publish`, `Retire`, `Register`, `Document` on one folder at a time |
| `CacheStore` | folders, archives and index under concurrent runs | `pc` and `run` are the place and the locals of each run; `folder`, `archives` and `index` are the disk; a file's content is the run that wrote it |
| `Scheduler` | what the server is promised by its queue | `Accept`, `Refuse`, `Run`, `Answer`, `Cancel` |
| `OperationQueue` | `queue.ts`, the loop of `drain` included | `pending`, `active`, `running` are the fields of the class; `settled` the resolved promises; an operation that ended is *reaped* by its `finally` callback in a later step |
| `ModelCall` | one native model call | `pc` is the await the call is at; `threw`, `lastError`, `lastResult`, `timedOut` are the locals of `withRetry` and the policy; `sinks`, `reads`, `citations`, `route` the side channels |
| `McpServer` | handlers, lazy configuration, shutdown | `ready` and `loads` are the promise `lazyRuntime` keeps and what became of each load; `closing`, `signals`, `exit` the shutdown; the queue is an `INSTANCE` of `Scheduler` |
| `WorkerPool` | `mapWithConcurrency`: what one worker does between two awaits | `items`, `next`, `results` are its locals, `doing` the index each worker is at; `Start`, `Settle`, `Throw`, `Drained` |
| `Pipeline` | one research run from the handler's check to its result, with the pool and the rate limiter of its stages | `pc` is the await the run is at; `pages` what the fetch stage returned; `wait` and `ahead` the limiter's slots relative to now; `fate` and `called` are history: what really became of each page |
| `Session` | `session_start`, `session_shutdown`, `loadSettings`, `migrateDefaults`, the registration of models, in several processes | `pc` is the await of the handler; `loads` the `loadSettings` calls under way; `cache` and `pending` the two module variables; `files`, `marker`, `models` the disk; `upgraded` and `alone` are history: the migration this session announced, and whether loads overlapped since |
| `ConsoleScope` | `withMuzzledConsole` as operators on a record | `chain` is the stack of functions behind `console.error`, `calls` the counter, `owner` and `saved` the closure in `restore`, `active` and `muzzled` the scopes |
| `PageFetch` | `fetchSingle`, `fetchWithComparison`, both pipelines and `compareAndPick`, on an instance of `ConsoleScope` | `html` and `md` are the awaits of the two pipelines, `htmlPage` and `mdPage` what they settled with; `served`, `logged`, `threw` are history: what arrived and what the extractor did |
| `Standalone` | the setup command, the launch of the server and the steps of a call | `setup` and `call` are the places of each run, `doc` and `cred` the disk, `server` the configuration in memory, `out` its console; `stored`, `relies`, `undisturbed`, `wanted` are history |
| `CacheStoreProofs` (`FsLock` included), `OperationQueueProofs`, `ModelCallProofs`, `McpServerProofs`, `PipelineProofs`, `SessionProofs`, `PageFetchProofs`, `StandaloneProofs` | theorems | |
| `MC*` | constants for TLC | |

Definitions under a comment beginning with *Mutant* are deliberately wrong
variants of the definition that follows them: a mistake the code could easily
contain.  No behaviour uses them; they exist to confirm that each property would
notice that mistake.

Composition.  `CacheStore` takes its locks as `LockService` gives them, with
timeouts and the breaking of a crashed owner's lock added, and `FsLock` implements
`LockService` (proved, see the conditions below).  `CacheStore` in turn implements `ReportStore`,
in which locks, staging, crashes and errors do not show (proved unless a rotation failed).  `McpServer` takes its queue as
`Scheduler` describes it, and `OperationQueue` implements `Scheduler` (proved).
`Pipeline` runs its fetch and extract stages on an `INSTANCE` of `WorkerPool`.  A call
of a model is one step there and its attempts are in `ModelCall`; the commit and
the sidecar of a degraded exit are one step each and their files and locks are in
`CacheStore`.  `PageFetch` is what `Pipeline` takes as one step per page, and it shares
`ConsoleScope` with `Standalone`, whose diversion of the console has the same shape.
`Standalone` takes a model request and the load of a configuration as a step each: the
attempts are in `ModelCall`, the kept load and the queue in `McpServer`.

### Granularity

* JavaScript runs a callback to completion, so in `OperationQueue`, `ModelCall`,
  `McpServer` and `Pipeline` a step is what runs between two awaits.  A promise that settles
  and the callbacks that follow it are separate steps wherever something may
  come in between.
* In `FsLock` each file system call is a step, because other processes run in
  between.  The directory's creation and the check of its age are separate.
* In `CacheStore` each rename or removal that another run can see, or that a
  crash can separate, is a step.  `Prune` and the clean-up of a degraded exit are
  one step: they run under the lock, and the order in which they remove files is
  the order of the directory listing, which nothing depends on; a clean-up that fails half
  way leaves any subset.  Renames of a rotation happen in any order.  An aborted
  signal is a choice at the places where the code looks at it.
* The locks of `CacheStore` are exclusive: the overlap that `FsLock` exhibits after a
  crash (below) is left out there, and so is a holder slower than the stale age.
* In `ModelCall` the text by which an error is classified is abstracted to its
  class, and the length of a wait is left out.  A body read is taken to be under
  way as soon as its attempt is, and may never end.
* In `McpServer` a load that throws, and its removal by the first callback of its
  promise (`Forget`), are two steps; the calls that wait for it are told after both.  That the
  workspace is missing or unusable is a choice at each load (`RuntimeFails`).
* In `Pipeline` any call may fail, and one that ends after the abort throws the abort
  (`AbortWins` of `ModelCall`), hands over a value the client had already made, or fails for want of
  a model or a key before its first attempt.
  Time passes only in the extract stage, where the limiter is; a timer may fire late,
  never early.  The two concurrency settings are at least 1, since `mapWithConcurrency`
  raises anything lower to 1.  The callback for progress is assumed not to throw.  Counts of pages are modelled as the sets
  counted, which says more than their sizes.

* In `Session` a step is what runs between two awaits of one process; processes
  interleave freely, and a process may start its next session while loads of the
  earlier one are under way.  The version file is emptied and written in two steps,
  because `writeFile` is not atomic; `models.json` is renamed in one.  A crash releases the lock of `models.json`
  at once (breaking it is `FsLock`), and a waiter may always give up.
  Releases and default models are those of `DEFAULT_HISTORY`; of the settings the model roles are kept.
* In `PageFetch` a text is its score: what a server sends and what an extraction
  makes of it is a choice, the comparison by score is the code's.  `console.error` stands for both channels.
* In `Standalone` everything that can be wrong with a document is one case, and so is
  every link or foreign entry in the cache directory.  The credential file is
  looked at and read in two steps, since another process may replace it in between.

## Runs

| run | module, bounds | what it shows |
|---|---|---|
| `lock` | `MCFsLock`, 3 processes, stale age 1, timeout 1, 1 fault | exclusive and an implementation of `LockService` until the fault, through timeouts and aborts; with a crash, a failed pid write or a failed release every call still ends, and a stale orphan is broken and not waited for, unless the removal itself fails |
| `lock_stale_race` | the same, the fault a crash (`CrashSpec`) | violation: two holders after a crash, see *Findings* |
| `store_refresh` | `MCCacheStore`, 2 runs, 2 folders, 1 error, 1 crash, waits may be given up | a report is found with exactly its files, downloads outlive neither their run nor their directory, no index entry is lost to another read-modify-write, no circle of waiting runs over the nested locks |
| `store_broken` | 3 runs, 1 folder, 1 error, 1 crash | nothing mixed, no report lost, no index entry without report, no deadlock; refinement of `ReportStore`: a report is replaced only after it has been archived, the index is told what the folder holds, documentation is never removed |
| `queue` | `MCOperationQueue`, 4 requests, 1 slot, 2 places | order, limits, cancellation, close; refinement of `Scheduler`; every request is answered |
| `model_call` | `MCModelCall`, 3 attempts | the last attempt is what is reported, an abort wins, the call ends |
| `model_route` | 2 attempts | violation: the route of a discarded attempt, see *Findings* |
| `mcp_server` | `MCMcpServer`, 3 calls, 2 at a time, 1 signal name | no call is refused for a failure that was dealt with before it came, a shutdown answers everything, starts nothing and ends, by the timer of `hardExit` if an operation is stuck |
| `pipeline` | `MCPipeline`, 4 pages, 3 fetch and 2 extract workers, 2 search attempts, interval 2 | the outcome and counts are those the run earned, slots are spaced, nothing outlives its stage, an abort starts nothing |
| `session` | `MCSession`, a process of this release with 2 sessions and 2 tools beside one of 0.13.0, 1 mishap | after an upgrade tools are given migrated settings, an unapproved project has no say in any order of reads, hits and changes of trust, no registration of a model is lost |
| `page_fetch` | `MCPageFetch`, 2 pages, 2 scores, 1 third party | who is charged with which logged error, what is returned for a page, who gets the console back, and that time limits end every page |
| `standalone` | `MCStandalone`, 2 setups, 2 calls, 5 documents, 3 ways to launch, 1 edit, link, failure or restart | a completed setup connects and its credential is used, a refusal has cost nothing, console output is diverted exactly while an operation runs |

Why the bounds are enough.  *Lock*: the race needs one dead owner, one waiter that
breaks and one that has already looked, so three processes; ages saturate just
above the thresholds they are compared with, so time itself is unbounded.
*Store*: a mixture needs two writers, a rotation of it a third; one extraction and one source file
are enough for a set to be partly there, and two file sets for one to be a proper
part of the other.  *Queue*: one slot is the default; a full queue, a refused
request and a running one are four requests.  *Model call*: three attempts let a
late read of the first meet the third, over a second that failed in another way.
*Pipeline*: with more pages than workers in
either stage a worker takes a second page while another holds its first; four
pages are one of each fate; an interval of 2 lets calls come to the limiter
between two slots.  Its steps go forward only, so the deadlock check shows that
every run that goes on reaches its end.
*Server*: two calls can share a load and a third come after both.  `Signals` has one
element because SIGINT and SIGTERM are handled alike.
*Session*: an overlap needs two loads, one of an earlier session included; the release left
in the version file (0.12.6), the other process's (0.13.0) and the current one are of different eras of
`DEFAULT_HISTORY` or of the same one; the files hold a pinned old default under the nested key over an
older one under the flat key, which is what a migration must tell from a custom choice.
The theorems remove the bounds for all three of its properties, as they do for
the safety properties of the other modules.
*Page fetch*: the console is shared by two regions, a third would only repeat what the second does; two scores make one
variant better, worse or equal.
*Standalone*: two setups overlap with each other and with the one meddling; the five documents are one of each case `prepareConfig` tells apart, linked or not.
Every counter that could
grow has its bound in a constant: `MaxFaults`, `MaxLockFaults`, `MaxCrashes`, `Attempts`,
`SearchAttempts`, `MaxSessions`, `MaxMishaps`, `MaxThird`, `MaxBilled`, `MaxMeddling`;
in `Pipeline` the time until the next free slot is bounded by the calls made.

`CHECK_DEADLOCK FALSE` is set for the queue only: a queue with nothing left to do
stops.  The others end in an explicit stuttering step when they are done.

### Fairness

* `FsLock`: every process keeps being scheduled and time passes; nothing obliges
  a process to call the lock.
* `CacheStore`: a run that has started keeps running, and a waiter breaks the lock
  of a dead owner (shown by `lock`).  Lock timeouts are *not* relied upon.
* `OperationQueue`: `drain` goes on, operations end and are reaped.  That an
  operation ends is the contract of the handler: time limits on every model and
  HTTP request bound it.
* `ModelCall`: the event loop and the timer.  The transport owes an answer only
  once the signal of its attempt has fired, which is what the comment of
  `callWithAbortTimeout` asks for; without a time limit and an abort nothing is
  claimed.
* `McpServer`: loads go on until they are over and callbacks run; an operation ends once aborted,
  unless it is stuck (`Hang`), which may happen to any of them at any time; the timer of `hardExit` fires.
* `PageFetch`: the timers fire, the extractor, which is local code, ends, and
  callbacks run.  No server owes an answer: `EveryPageEnds` rests on the time limits alone.
* `Pipeline`, `Session`, `Standalone`: none; their properties are safety properties.

## Findings

1. **Two holders of the lock after a crash** (`lock_stale_race`).  A waiter looks at
   the age of the lock directory and then removes it by name.  Two waiters both find
   the directory of a dead owner stale; the first removes it and acquires the
   lock; the second removes the fresh directory and acquires it too.
2. **The route of a discarded attempt** (`model_route`).  `callLlm` tells the
   caller the serving route as soon as the transport has answered without an error;
   the attempt's timer is looked at only later.  If it has fired (in the run before
   the answer; while the citations settle does as well) the attempt is repeated, and a
   later one that names no route leaves the earlier route standing, where the
   comment at `llm.ts` 137 promises that of the final successful attempt.

Seen while modelling, each in the model, and not counted as a finding:

* Cache.  A run that is aborted once it holds the lock of its
  folder still commits its report and is answered as aborted (`AbortStopsWork` of `Pipeline`
  says where that line is).  A crash inside `writeCacheFiles` leaves a staging directory nobody
  removes (nothing reads it).  `updateIndex` takes an unreadable index for an
  empty one.  The last refresh of `meta.json` (`research.ts` 272) takes the lock again without
  looking whose report is there by then, so the sidecar of one run may end next to the report of another.
* Configuration.  With more than one slot, a call that joins a load already under way
  may be refused for a file repaired before it joined (`RefusalIsCurrent` allows
  exactly that); the command line always runs with one slot, where it cannot happen.  A setup that overlaps an
  edit of `config.json` overwrites the edit (`undisturbed` in `SetupConnects`).  A
  server that read a document without `apiKeyFile` outside codex mode stays without a key
  after a setup until it is restarted (`relies` in `CredentialServed`).  A
  setup that refuses a broken document stores nothing.
* Session.  Of two loads that overlap only the first to end applies the pending
  migration; the second fills the cache for the rest of the session with settings that were
  not migrated (`settings.ts` 220-223), which is why `MigratedWhenAlone` asks that loads
  do not overlap.  A version file that another process has just emptied reads as a fresh
  installation, and the migration is skipped.  A change of `models.json` by hand between the read and the rename is lost.
  `DEFAULT_HISTORY` has no entry for some releases, so an upgrade from one of them migrates nothing.
* Fetch.  `compareAndPick` stamps a winner of the HTML pipeline `defuddle`, the fallback
  included.  The body of a markdown answer is read outside the `try` (`fetch.ts` 273, a
  promise returned and not awaited): if the read fails, the alternate link is not tried.

## Proofs

TLAPS checks the following for every value of the constants that satisfies the named
assumption.

**`CacheStoreProofs`, the store** (`StoreAssumption`: any runs, folders, files and bounds
on crashes and errors).  All eight properties of the runs of `CacheStore` are theorems, the refinement included.  The
argument has three layers.

1. *The frame.*  `Frame` says what a step of one run leaves alone: the places and locals of the
   others, the folders of others, the archives unless it rotates, the index unless it writes it
   back.  `LocksOwned` says that a lock belongs to exactly the run that is between taking and
   releasing it, or crashed there.  Together they give `Undisturbed`: while a run holds the lock
   of its folder nobody else changes the folder, its archives or its mark.  `NoDeadlock`
   follows from `LocksOwned` alone, `LlmsSurvive` from what each step writes (`DocumentationSteps`).
2. *Places.*  What a place of a run says about its folder then needs that run's own steps
   only: `CommitPlace` (whose report lies there), `Progress` (how much of the commit is done, and
   that a commit which threw has left its mark), `RotationPlace` (what is still to move is all that is
   left, and it is of the same writer as what has been moved), `SnapshotKept` (the index read is
   the index on disk), `IndexedPlace` (a listed run has passed the write of the index).
3. *Folders.*  A folder whose lock is free has no run in any of those places.
   `FoldersSound` says that a folder is being rewritten, or marked as interrupted, or listed only with a
   report and its report next to its own files; `RewritingEnds` that a run leaves the
   rewriting of a folder only with its report in place or the folder marked.

None of the seven invariants is inductive: each speaks of a lock that is free or of a run that is
through, and says nothing of a run half-way.  The parts above are what was missing; TLC
confirmed each on the instances of the runs before it was proved.
From them: `TypeCorrect`, `NoDeadlock`, `LlmsSurvive`, `StagingCorrect`, `ReportsComplete` and
`ListedFoldersHaveReports` hold whatever errors and crashes there are.  `SetsNeverMix`, `NoReportIsLost` and `ImplementsStore` assume that no
rotation fails (`"rotate" \notin FaultyOps`): the code logs a failed rotation and goes on over the
old files.  `ListingsKept` and `IndexIsAtomic` assume that no read of the index fails (`"readIndex" \notin
FaultyOps`): `updateIndex` takes an unreadable index for an empty one.  Without these conditions
the properties are false; the runs leave out the same errors and allow all others.

`ImplementsStore` is the refinement of `ReportStore`.  The mapping forgets locks, staging and
the places of the runs: `CurrentReports`, `ArchivedReports` and `Documented` are read off `folder` and
`archives`.  One lemma for each abstract variable says which steps change it and how
(`CurrentSteps`, `ArchivedSteps`, `RegisterSteps`, `DocumentationSteps`), and `PromiseSteps` that one step
changes no two of them but a rotation, which takes the report out of the folder and puts it into the
archive.  It needs three of the parts above: `RotationPlace` (a commit finds its place empty, the
archive has no report yet), `CommitPlace` (whoever writes the index knows what its folder holds,
although it looked under another lock and several steps earlier) and `SnapshotKept`.  The abstract
`Register` may lose other entries exactly when a read of the index may fail (`MayForget`).

**`CacheStoreProofs`, the lock** (`LockAssumption`, and `Prompt` except for types; the last
section of the module, which extends both `CacheStore` and `FsLock`): nobody crashes and holders release before their lock is stale.  The invariant is that the directory exists exactly
while the process that made it is between `mkdir` and `rm`, and is then no older
than `MaxHold`, so no waiter can find it stale; exclusion alone is
not inductive, since it does not say that the directory stands while its owner
works.  From it: `LockTypeCorrect`, `LockIsExclusive`, and
`ImplementsService`, the refinement of `LockService`.  Both conditions are needed: after a
crash exclusion is false (`lock_stale_race`), and a holder that outlives the stale age has
its directory broken.

**`OperationQueueProofs`** (`QueueAssumption`).  `QueueInv` says that the counter is the
size of the set of running operations, that entries are queued once and only
while unanswered, and what each answer implies.  `OrderInv` adds that entries wait in the
order they came and that nothing waits which came before something started.  From it: `LimitsHold`, `SlotsAreUsed`,
`CloseIsComplete`, `OrderCorrect`, and `ImplementsScheduler`, where a request's status is computed
from the queue, the set of running operations and its answer.

**`ModelCallProofs`** (`AttemptsAssumption`).  The invariant says what the flags mean at
each place of the loop: once an attempt is over, the result or the error kept is
that of this attempt, and it ran over its limit only if the flag says so or it
threw after an abort.  That is what the properties need: they speak of the end of the
call, when only the flags are left.  From it: `TypeCorrect`, `ValueCorrect`,
`CitationsCorrect`, `FailureCorrect`, `AbortCorrect`, `AttemptsDeserved`.

**`PipelineProofs`** (`PipelineAssumption`: any number of pages, workers and
attempts, any interval).  The properties speak of a run that has returned, and
nothing of the pool's work is visible then except its results, so the invariant
`RunInv` (in `Pipeline`, where TLC can evaluate it) follows the pages through
the stages.  `PoolSound` says that each busy worker has an index of its own
without a result, and that an index the pool has passed has its result unless a
worker threw, which takes an abort; hence a pool that drained without an abort has every
result.  `FetchSound`, `PagesSound` and `ExtractSound` tie the page list and the
results to what became of the pages, and `PlaceSound` the outcome to the stage.  There is
one lemma for each operation of the pool and one for each action.  From it:
`TypeCorrect`, `OutcomeCorrect`, `CountsCorrect`, `PoolIsDrained`, `SlotsCorrect`,
`AbortCorrect`.

**`SessionProofs`** (`SessionAssumption`: any number of processes, tools, releases
and sessions).  `MigratedWhenAlone` speaks of an answer that was given; the invariant `MigrationInv`
says where the migration is before.  As long as loads have not overlapped and
the trust is the same, it is either waiting, with an empty cache and at most one load
under way, for the trust there is (`Waiting`), or consumed, with its result cached and no
load under way (`Consumed`); `MigratedOnce` is the lemma that migrated settings leave nothing
to migrate.  For `UntrustedHasNoSay` the invariant `SayInv` adds that the cache of the
untrusted key is innocent and that only a load begun with the approval reaches the
project's file.  For `RegisteredStay` it is that the holder of the lock has read what is there.
From it: `MigratedCorrect`, `UntrustedCorrect`, `RegisteredCorrect`.

**`McpServerProofs`** (`ServerAssumption`: any number of calls, and of
them at a time).  A load is named by a number, and a call that finds none
kept takes the next; `LoadInv` says that the numbers are used in order and that each
used one has a call that joined it, so there are fewer loads than calls and the
next number exists (`NextLoadExists`, by cardinality), and that the load kept is not one
whose failure has been dealt with.  `RefusalInv` adds what a defective file leaves behind: a load reads only while
its calls wait, a call is refused with what became of its load, and whoever is waiting when it reads a broken file has seen it.  `CloseInv` ties
the shutdown to what is left in the queue.  From it: `TypeCorrect`,
`RefusalCorrect`, `CloseCorrect`, `ShutdownCorrect`.

**`PageFetchProofs`** (`PageFetchAssumption`: any number of pages, scores and third
parties).  What was served is what the two pipelines hold (`VariantInv`), and `PickIsBest` says
that `compareAndPick` takes the better.  For the console the count is the number of
open regions (`Counted`); as long as no third party replaced a dispatcher, the
last region out finds its own on top or none at all (`Restorable`); and what
a dispatcher puts back still holds the replacement it was laid over (`Deliberate`).  Each
operator of `ConsoleScope` has a lemma that it keeps these.  From it: `BestCorrect`,
`ConsoleCorrect`, `DegradedCorrect`.

**`StandaloneProofs`** (`StandaloneAssumption`; a document that is missing selects
the defaults).  `CallSound` says what a call has at each place; `SetupInv` that a setup
which will write the document has found none, or one without a credential file, and so will
every other one under way, hence two of them cannot disagree about the file;
`ServedInv` that a stored credential stays a whole key until the user touches it and that the
configuration of the server is fixed while a call is under way.  From it:
`TypeCorrect`, `RefusalCorrect`, `SetupCorrect`, `CredentialCorrect`, `OutputCorrect`.

Only model-checked: the liveness properties (`EveryCallEnds` of the lock and of the model call,
`StaleOrphanIsBroken`, `EveryRequestAnswered`, `ShutdownEnds`, `EveryPageEnds`), because fairness and
ENABLED are beyond the prover.  Every safety property that a passing run checks is a theorem.

## Not modelled

* Rendering of reports, file naming, prompts, schemas, message texts; temporary files of an
  interrupted atomic write; empty directories; HTML cleaning and truncation; validation
  of arguments; redaction; telemetry counters.
* Source identity and provenance: pure functions over strings, with no state between calls.
* The probes for `llms-full.txt` (`fetch.ts` 373-430), other than the downloads
  they stage, which are in `CacheStore`.
* Of the session: the preflight of the credentials (`index.ts` 162-178), the notice about flat
  keys and the rate-limit status.  They show a line and leave no state that another step reads.
* The native tools: adapters that render an operation's result.
* The delivery of an
  answer after its promise is resolved belongs to the protocol SDK, so `McpServer`
  says that every call is answered before the connection is closed, not that the bytes have been written.
* The build scripts under `scripts/`: they run once, alone, over files of the repository.

## What could come next

The modules were written in this order: `FsLock`, `CacheStore`, `OperationQueue`, `ModelCall`, `McpServer`,
`WorkerPool`, `Pipeline`, `Session`, `ConsoleScope`, `PageFetch`, `Standalone`, with the abstract specifications
`LockService`, `Scheduler` and `ReportStore`.  Worth adding:

1. Source identity and the judge window as operators checked against a
   reference definition over bounded inputs.
2. Uniqueness in `ReportStore`: that a run publishes one report at most.
