# Verification of sealift

TLA+ models of sealift, its two services with the store, the tools and the archive between them, checked by TLC,
with proofs checked by TLAPS.
Paths below are those of the repository (`src/` is its root).

- [The system](#the-system)
- [What is modelled, and by which module](#what-is-modelled-and-by-which-module)
- [The runs](#the-runs)
- [Fairness](#fairness)
- [Where the code and its documents disagree](#where-the-code-and-its-documents-disagree)
- [What is proved](#what-is-proved)
- [Not modelled](#not-modelled)
- [Plan](#plan)
- [Running it](#running-it)

## The system

sealift is two services in one binary. The **exporting side** (`sealift serve`, `internal/api`, `internal/jobs`,
`internal/store`) analyses a project's npm dependencies and exports the chosen upgrades as one archive; one job
runs at a time and the browser follows it over a stream. The **importing side** (`sealift import-server`,
`internal/importer`, `internal/store/imports`) takes an archive a user put in MinIO, checks it and publishes its
packages in Nexus; one attempt runs at a time for all users.

| Component | State | Operations | Talks to | What is hard | What makes it correct |
|---|---|---|---|---|---|
| `jobs.Queue` (`internal/jobs/queue.go`) | pending, current, closed, cancelRequested, the worker's locals, the history and the subscribers | Submit(With), Cancel, Close, run, Subscribe | the finalize hook, every handler | Cancel and Close act after the unlock; a queued job is finished on the canceller's goroutine while the worker finishes another | order of submission; a cancelled queued job never runs; one verdict and one end per job, in agreement; cancelled only when asked; Cancel and Close take effect |
| Event stream (`queue.go`, `service.go` Subscribe, `internal/api/events.go`) | history, a bounded channel per subscriber | publish, Subscribe, unsubscribe, the SSE loop | the worker, cancellers, clients | replay against live events, trimming, full channels, a stream that must end | each step once; the replay fits; a job's end ends its streams, and nothing else does |
| `jobs.Service` (`internal/jobs/service.go`) | byQueueID, byJobKey, byProjectID | QueueAnalysis, QueueExport, Cancel, finalize, LiveState | queue, store | the index, the queue and the disk change in different critical sections | a job the queue holds is tracked, an ended one is not and left nothing pending |
| Job directories (`internal/store/pending.go`, `analysis.go`, `export.go`, `sweep.go`) | `<id>.tmp`, `<id>`, `status.json` | NewDir, Commit, Discard, Delete, the start's sweep | jobs, service | ids are seconds; Stat, Mkdir and Rename are separate calls; crashes | no shared directory, a done job is on disk unless its commit failed, a status says what was announced |
| Analysis job (`internal/jobs/analysis*.go`, `rank/candidates.go`) | its `.tmp`, the run's candidates and lockfiles | Run: nine steps | pnpm, Trivy, registry | some errors fail the job and some only warn, parallel resolutions, a cancel among them | what is proposed was measured; what was not is warned of; a done analysis has the lockfiles it names |
| Export job (`internal/jobs/export.go`) | its `.tmp`, the tarball cache | Run: downloads, strip, archive, reports | registry, Trivy, cache | downloads that share a cache entry, first error against the cancels it causes, a registry that never answers | what ships is verified; the cause is the one reported; every goroutine is over with its step |
| Import store (`internal/store/imports/imports.go`, `retry.go`, `sweep.go`) | one `import.json` and `work-<n>` per import, under one mutex | Create, Retry, Begin, Listed, Checked, Ended, Finish, Removed, Abandon, Break, Sweep | queue, handlers | each operation can fail; attempts of one import follow each other | an ended attempt is never rewritten; none stays unended with nothing behind it |
| Import queue (`internal/store/imports/queue.go`) | items, a one-token wake channel, a context | Submit, Close, loop, next, process | store, RunAttempt | lost wake-ups, Close against Submit, failures between two stores, retries that overtake | one attempt at a time, each one ends |
| Import service (`internal/importer/service`) | startMu | StartImport, RetryImport, RunAttempt, remove | MinIO, queue, publisher | objects read before the lock and deleted after a check; stops at any point | one unfinished start per pair of objects; no archive deleted before its import is complete on disk |
| Publishing (`internal/importer/attempt.go`, `publish.go`, `internal/nexus`) | the run's report | readManifest, verify, PublishEach | MinIO, Nexus | lost answers, other publishers | the record never claims more than Nexus holds |
| Key set and tokens (`internal/importer/token`, the middlewares of `internal/importer/service`) | cached keys, their age, the last attempt and its failure, under one mutex | Verify, lookup, refresh | an identity provider | TTL, stale limit and refetch window around a fetch that takes time; a realm that rotates and fails | a withdrawn key stops admitting, a published one is soon taken, a 503 is true |
| Tools (`internal/tools`) | install directories, staging, the `current` link, under one mutex | UpdateTrivy, ActivateTrivy, EnsurePnpm, GetTools | GitHub, the npm registry, files | failures and crashes between two renames, what the debris does to the next update | what has a version's name is whole, the active Trivy resolves, the minimum age is one rule |
| Projects and settings (`internal/store/project.go`, `store.go`, `internal/api/handlers_*.go`) | `project.json`, `package.json`, `settings.json`, a copy in memory | CreateProject, SetProjectTarget, DeleteProject, SaveSettings, GetProject, GetAnalysis | jobs, service, clients | several files and several calls per request, no lock around them | each project keeps its own manifest, no job falls between index and disk, a deletion spares writers |
| Archive (`archive`, `npm/tarball.go`, the strip and archive steps of `internal/jobs/export.go`) | the stripped directory, the archive, its manifest | StripPublishConfig, WriteTarGz, ParseManifest, Verify, SameContent | the two sites | two sides written apart, one pass over a stream, names that collide, copies packed differently | what is listed is what ships, a verdict is true, an export passes, a copy is judged rightly |
| Pure parts (`rank`, `npm` parsers, `sbom`, `internal/report`) | none | ranking, version order, lockfiles, reports | | boundaries | agreement with their definition |

Interaction on the exporting side: a handler reserves a directory (`NewDir`), queues the job and registers it in one
critical section (`SubmitWith`); the worker runs it; the job writes into its `.tmp`, an analysis renames it itself;
the worker judges the job, calls the service's hook (which commits or discards, corrects `status.json` and
unregisters), then publishes the end and goes idle. A Cancel of a queued job takes the same two last steps on its own
goroutine. On the importing side: a handler creates the record or an attempt under `startMu`, submits it, the worker
begins it, the run reports to the store as it goes, the worker stores the end and only then calls the remover.

## What is modelled, and by which module

```
JobLifecycle      the queue's promise             <-- refined by JobQueue
JobQueue          jobs.Queue                      <-- JobQueueProofs (TLAPS)
  EventStream     EXTENDS JobQueue: history, channels, SSE handler        <-- JobQueueProofs
  JobService      EXTENDS JobQueue: directories, index, finalize, crashes
                                                  <-- MCJobService (symmetry), JobServiceProofs (TLAPS)
AnalysisRun       Analysis.Run                    <-- AnalysisRunProofs (TLAPS)
ExportRun         Export.Run                      <-- ExportProofs (TLAPS)
ProjectStore      projects, settings, the requests around the jobs
                                                  <-- MCProjectStore (symmetry), ProjectStoreProofs (TLAPS)
ImportLifecycle   the promise of the import store and queue          <-- refined by ImportQueue
ImportQueue       the import store and queue, any run                <-- ImportProofs (TLAPS)
  ImportRun       EXTENDS ImportQueue: what a run does, MinIO, Nexus
                                                  <-- MCImportRun (symmetry), ImportProofs
TokenCheck        the token check and its key set <-- TokenCheckProofs (TLAPS)
ToolInstall       Trivy and pnpm installs         <-- ToolInstallProofs (TLAPS)
Tarball           a package tarball: inspect, strip, compare
  ArchiveTransfer EXTENDS Tarball: from stripAll to Verify and the copy in Nexus
                                                  <-- MCArchiveTransfer, ExportProofs
```

**JobLifecycle** has no lock, worker or context: jobs wait in line, the first runs when nothing does, each is settled
at most once, as cancelled only when asked.

**JobQueue**. One action per critical section of `q.mu` or per call outside it. `pending`, `current`, `closed`,
`cancelRequested`, `nextID` are the fields; `worker`, `err`, `state` the program counter and locals of `run`; `firing`
holds jobs whose `cancel()` was read under the lock and is still to be called; `dropping` is where a canceller is in
`publishCancelled`. `ctxDone` is the set of cancelled contexts, `runs`, `hooks`, `verdict`, `ends`, `endState` count
what the outside was told. What a job's `Run` returns is open (`Errors`), a recovered panic being one of the errors.

**EventStream** adds `history` and a channel per client. `log`, `progress` and `candidate` events are one kind, since
the queue treats them alike; `step` and `end` are the other two. The forwarding goroutine of `Service.Subscribe` and
the pipe behind it are folded into the channel: they add room and reorder nothing. `StreamAssumption` is what the
numbers of `queue.go` are chosen for: no job has more steps than there is room for beside a full replay (the code's
comment counts 9, its `stepHeadroom` is 32). An event that is not a step is kept by its rank among those of the history.

**JobService** composes the queue with the disk. A directory is abstracted to what the code tells apart: absent, empty,
files without a `status.json`, or a `status.json` in a state. `NewDir` is two actions (Stat, Mkdir), the hook three
(`FinalizePending`, `Reconcile`, `FinalizeReturns`), the start two. Each of their file operations may fail, up to
`MaxFaults` of them: the hook cannot read, discard or commit the `.tmp` (`LeftBehind`), `status.json` is not rewritten
(`Reconcile`), the start's sweep skips any files and directories, a deletion stops half way. `unmoved`, `swept` and
`unsaid` are history: the ids whose directory or `status.json` met such a failure. `AnalysisReturns` and `ExportReturns`
are every combination of files and error the two `Run` functions can leave, a failed write and a panic included. The
kind of a job is chosen when it is queued. An id is a second and, on a collision, a random suffix: `NewDir` picks any of
`Seconds`, since the wall clock may be set back. There is one project, as projects share no directory and no key.

**AnalysisRun** is one job: `step` is where `Run` is, `err` what it returns. A version is a dependency and a number
(0 the pinned one, then the newer stable ones in ascending order) and a vulnerability vector is a number, since
`Vector.Compare` is a total order. `newer` and `keys` are what `NewerStable` and `KeyVersions` gave. `Start` and
`Settle` are the two ends of a resolution: pnpm's answer, the parsed lockfile, the outcome recorded. A child is started
and killed under a context that is done, but `runner.run` may still take its end for an answer when both are ready
(`internal/runner/process.go:74`), so that `Answers` only rules out a cancel under a context that is not. `ScanOne` is
one of the two scans of step 7, `MergeScans` what reads their reports; `outran` counts the scans that answered under a
context that was done. What a warning says is left out: `warned` is the dependencies `rankDependency` warned of. The
commit that follows `ranking.json` is JobService's.

**ExportRun** is one job: `step` and `err` as above, `at[p]` the place in `downloadAll`'s goroutine of package p
(`checking`, `dropping`, `fetching`, `caching`, then `hit`/`done`/`reporting` with the two counters, or `lost` with an
error and `cancelling`). A cache entry is absent, good or bad: whether its bytes can be read and match the sha512 it is
named after; packages share digests freely and an integrity need not be a sha512. `DownloadFile` with its retries is one
step that may never come; what arrives is the package's tarball or `Other` bytes, `DigestMatches` tells which, and
`sha[p]` is the digest under which the bytes are stored and, later, shipped. Strip, archive and reports are an action
each, a report at a time; `Failed` is what an export that fails removes and writes, any of which may fail. A panic
inside a goroutine is not modelled (JobService has one of `Run` itself).

**ImportLifecycle** has no file, worker or restart: an import is a list of attempts as its page shows them, and one is
tried again only when the last is over, runs once and with no other beside it, and ends in a true report, or in one that
says it was cut short. `Shown` reads it off a record. `trouble` is the one thing it knows of the disk: where a failing
store left an attempt that seems to run, the next may start beside it.

**ImportQueue**. One action per store operation (each holds the store's mutex from end to end, so it is atomic, apart
from the removal of files after it in `Finish` (`Clean`) and in the sweep), per critical section of the queue and per
step of `process`. Any store operation may fail, up to `MaxFaults` of them. The run is open: `RunStep` says what
the queue may rely on (a package may be reported published, present or failed), and `RunImplementsQueue` proves that
`RunAttempt` keeps to it. A handler that holds `startMu` is one process, which is what the lock makes of all of them.

**ImportRun** replaces `RunStep` by what `RunAttempt` and `remove` do. An object is its ETag, `described` what
`checkArchive` read before the lock, `nexus[p]` what Nexus serves of package p: nothing, the shipped bytes, the same
content packed differently, or other bytes. The two HEAD requests of a check are one step: a change between them
equals one before or after. `Put` and `PublishElsewhere` are the environment. Nothing deletes from Nexus.

**ProjectStore** is the exporting side seen from its handlers. A request is taken apart at each file or lock it touches:
`at[r]` is where request r is, `draft[r]` what it read and is about to write. A job is what JobService makes of it, from
outside: its directory, its place in the index (`line`, and `latest` per project), and the order in which its hook lets
go of both; it makes its directory anew when it writes into one that was deleted, as `atomicWriteFile` does. The
deletion of a project may fail half way and leave any part of it (`RemoveSome`); that of a creation which has failed
already is taken to succeed, a second failure. An update that changes nothing is left out. `created`, `gone`, `lost`,
`due`, `spared` and `crossed` are history: they record what the properties speak of and guard nothing, but that a random
suffix is not drawn again for a project that is gone.

**TokenCheck** measures time by ages that stop at `Oldest`, since past the stale limit nothing tells one age from
another. A fetch holds the cache's mutex, so `look` is the one request that fetches; `Tick` ages everything, the fetch
included, which the client's timeout bounds; the realm composes its answer (`RealmAnswers`) before it arrives, and may
change in between. The realm rotates a key or turns up or down at any instant. A token is what
its checks tell apart: its kid, the check it fails, and how long it still is, or is not yet, valid. The order of the
checks is `Before` and `After` the key. Signatures and the decoding of a key set are outcomes.

**ToolInstall**. Every operation that changes the volume holds `Manager.mu`, so `op` is the one in progress, with the
step it is at; readers (`GetTools`, the jobs) take no lock and see every state between two steps. A directory holds
nothing, a part of an archive, the archive of a package with no executable (pnpm only), or a whole install. Any step
that asks the disk or the network may fail, the listing of what is installed too. The process
may die between any two steps: nothing cleans the volume, and the next operation starts from what it finds. The one
thing that is not modelled of a name is its random part: the names of set-aside directories never meet.

**Tarball** and **ArchiveTransfer**. A tarball is its entries in order and what follows its end marker; an entry has a
name, a mode and a body, and the body of a `package.json` is what its decoding tells apart. A digest is the value it is
the digest of, so that equal digests are equal bytes. `phase` goes from `strip` (a package a step, then the archive and
its manifest) over the `road` (where one thing about archive, manifest or key may change, or a digest comes by another
way), `parse`, `scan` (one entry a step) and `verdict` to `publish`, which compares with a copy in Nexus, or to `end`.
The scan's order of checks and its early end are those of `scan` in `archive/verify.go`: what a directory's header says
of its size is not counted. Sizes are numbers; the bound of the stream saturates at the largest one, as `streamBound`
does. `Total` counts an archive's bytes as a set, of entry and offset, so that it needs no recursion.

Definitions preceded by "Seeded fault" are not part of any specification: each is a wrong version of the definition
that follows it, and every property of a passing run is violated when one of them takes its place. They show that the
properties can tell.

## The runs

Each run lists its properties in its `.cfg`; deadlock is not checked where the system may come to rest.

| Run | Question | Bounds and why they do |
|---|---|---|
| `event_stream` | does the queue keep its promise in every interleaving; does a client see each step once, whenever it comes, and is its stream ended? | 2 jobs, one that waits or is dropped and one it waits for; 1 client, limits of 1, so that histories and channels reach every limit; clients do not interact |
| `event_stream_foreign_end` | does a stream end only with its job? (it does not) | as above |
| `job_service` | do queue, index and disk agree at each end and after each start, and do two jobs queued in one second stay apart, until a commit falls between Stat and Mkdir? | 2 jobs of either kind, 1 second, 1 random suffix (so suffixes collide too), 1 crash, 1 failing file operation (before, with or after the crash): the properties speak of one directory at a time; the proofs need no bound |
| `analysis_run` | is what is ranked measured, and how far can a cancel pass for a verdict on a version? | 2 dependencies, up to 2 newer versions of each and 4 versions in all (a version that is a key and one that is not), 2 resolutions at a time, vectors 0..2 (better, equal, worse) |
| `export_run` | is what ships verified, is the first cause reported, is the last progress event exact, does an error or a cancel end the export? | 3 packages of 2 tarballs in every sharing, over every cache, 2 at a time (so that one waits for a slot) |
| `import_queue` | is no attempt forgotten, run twice, rewritten or left asleep, and is what its end says true? | 2 imports, 2 attempts in all (two imports, or one and its retry), 1 failing store operation or one sweep that skips any of the imports, 1 stop |
| `import_run` | does the record stay true of Nexus, and MinIO safe, under replacement, lost answers, stops? | 2 packages (one in, one not), 2 attempts, 2 exports, 2 changes by the user or by others (a whole new export, or a replaced object and a package put in Nexus), 1 stop; no store faults, which `import_queue` has |
| `tools` | what may a crash or a failure leave, and what does it do to the next update? | 2 releases (one that replaces another, one recent and one aged), pnpm, any failing step, 1 crash; the proofs need no bound |
| `token_check` | how long does a withdrawn key admit, when does a new one, what does a 503 mean? | a window of 2, a TTL of 4, a stale limit of 6 and a timeout of 1 (30 s, 5 min, 1 h and 10 s in the code, in the same order); 1 key and an identifier the realm never has; the proofs need no bound |
| `archive` | what is written, accepted, refused and taken for present? | up to 2 packages a selection: two with one file name, one with a name the import does not take, one with every kind of tarball, no package at all; copies with a name twice; one change on the road; limits around the sizes and the largest number (20); the proofs need no bound |
| `project_store` | do project, settings, jobs and pages agree when requests interleave file by file? | 1 project (projects share no file and no key of the index), 2 clients, 2 jobs, 3 requests, 1 failing file operation, 1 restart |
| `project_page` | does a project page show every job? (it does not) | as `project_store`, without failures and restarts |

Symmetry (jobs of the service, imports' objects, clients) is used in safety runs only. Properties by module:

- JobQueue (run within EventStream, which adds to its actions and takes nothing away): `TypeOK`, the refinement
  `ImplementsLifecycle`; liveness `CancelTakesEffect`, `CloseStops`, `EveryJobIsServed` (the last under the hypothesis
  that a job that started returns, which the code does not enforce for a job nobody cancels). Order of submission, one
  verdict, dropped jobs and true cancels are theorems, see below.
- EventStream: `ReplayFits`, `StepsReachEveryClient`, liveness `JobEndEndsStream`.
- JobService: `IndexFollowsJobs`, `DiskTellsTheVerdict`, `OwnDirectory`. Those that speak of a job's directory are for
  ids handed out once (`Alone`), and `OwnDirectory` leaves out ids that were committed (`Committed`): what happens to
  two jobs with one id is listed under "Observed". A failure excuses the very file it is about and nothing else: a `.tmp`
  is left only where the hook could not move it (`unmoved`), and then still holds what the job wrote until a start
  removes it (`Stranded`); a `status.json` may disagree only where it could not be rewritten (`unsaid`).
- AnalysisRun: `CancelMeetsBothScans` (steps 5 and 6 take every error for the version's, a cancel included; only the two
  scans that follow, each under the done context, stand between a cancelled analysis and the ranking of such versions),
  `ProposalsAreMeasured`, liveness `CancelEndsAnalysis`.
- ExportRun: `ShippedIsVerified`, `CauseIsKept`, `LastEventIsExact` (the event that says N of N has every cache hit in
  it, whatever order the counters were read in), liveness `StopEndsExport`.
- ImportQueue: `NothingForgotten` with at most one failing store operation (after two, both the operation and the
  Abandon that makes up for it may have failed), the refinement `ImplementsImportLifecycle`, liveness
  `EachIsServedOrStopped`. That an ended attempt stays (`EndedStays`) is a theorem, see below.
- ImportRun: `RecordsAreTrue`, `DeletesFollowRecords`, `OneStartPerObjects`, action property `NoArchiveWithoutManifest`.
  The two about deletes exempt what the user puts in MinIO between the check and the delete, which the code documents
  (`internal/importer/service/removal.go:18`).
- ToolInstall: `InstallsAreWhole`, `DebrisNeverBlocks`, action properties `MinimumAgeHolds` and `WorkingInstallStays`.
- TokenCheck: `RevokedKeyDies`, `UnavailableMeansIt`, `RotationIsPickedUp`.
- ArchiveTransfer: `ShipsWhatItLists`, `VerdictIsTrue`, `OwnExportsPass`, `CopyIsJudged`.
- ProjectStore: `OwnManifest`, `DeletionSparesWriters`, `JobsAreFound`, `SettingsSurvive`; `PageShowsEveryJob` fails.

## Fairness

Safety runs assume none (ToolInstall, TokenCheck, ArchiveTransfer and ProjectStore have no others). The liveness runs
assume weak fairness of what the Go scheduler runs by itself: the worker's own steps, and a goroutine past its unlock
(`FireCancel`, `DropHook`, `DropEnd`, `Submit`, `Stopping`). Of a job they assume what `Job`'s comment demands
(`queue.go:50`: "Run must return once ctx is done"): it returns once its context is cancelled, not otherwise. Of an
import's run they assume that it goes on, since each call it makes to MinIO and Nexus times out. Of an analysis and an
export (`AnalysisFairness`, `ExportFairness`) they assume that the scheduler runs their goroutines, that the disk
answers, and that a request or a child process ends once its context is done; nothing else makes one end, as neither has
a timeout of its own. Of a connected client they assume that it reads. Nobody is assumed to submit, cancel, retry,
close, connect, leave or restart.

## Where the code and its documents disagree

Two have a run whose counterexample shows it.

1. `event_stream_foreign_end`: cancelling a queued job publishes its end into the running job's history and to every
   subscriber (`queue.go:246`); the SSE handler returns on any end. A watcher of the running job is cut off, and cut
   off again when it reconnects, because the end is replayed.
2. `project_page`: `GetProject` lists the committed directories and asks for the live job after
   (`handlers_projects.go:189`); a job that commits in between is in neither answer. `GetAnalysis` and `GetExport` ask
   in the other order, and `JobsAreFound` holds for them.

Observed while modelling, without a run of their own:

- Queue and stream. The notice of a loss is offered to the channel that was just full, and events `deliverLocked` drops
  there are not announced (`queue.go:459`). Close drops the queued jobs with no hook, though the hook's comment says
  "exactly once per job" (`queue.go:140`); a job that Close cancels while it runs ends failed, not cancelled, since
  Close sets no flag. `docs/dev/architecture.md:51` says the end events drive the finalization; the code finalizes in a
  hook before the end.
- Directories. `NewDir` checks the final path, then makes the `.tmp` (`pending.go:59`); the rename of a job of the same
  second may fall between, and the id is handed out twice. The hook of the first then discards or commits what the
  second has reserved, and a third call that made its Stat in time gets the directory again. The suffixed id it falls
  back to is refused by `readAnalysisInfo` (`internal/store/analysis.go:152`) and `readExportInfo`, so such a directory
  is never listed.
- Finalization. `finalizePending` takes every error of `ReadDir` for a directory its job took care of
  (`service.go:441`), so that one which cannot be read is left without the log line its comment asks for. A done export
  whose commit fails is announced done all the same, is in no list, and is lost with its `.tmp` at the next start; a
  committed `status.json` that `reconcileAnalysisStatus` cannot rewrite keeps the job's own account, unlogged.
- Index. `byProjectID` holds one job per project: the end of a newer one, or its cancel, leaves the project page without
  a live job while an older one is still queued or running.
- Analysis. `runner.run` selects over the child's end and the context's (`internal/runner/process.go:74`) and does not
  look at the context before it starts one: when both scans of step 7 end before their kill is taken, a cancelled
  analysis goes on, ranks the versions it did not get to as ones that do not resolve, and, since `Run` then returns no
  error, the queue calls it done (`queue.go:347`) and the service rewrites its `status.json` to say so. The start
  removes the `.tmp` of an analysis a crash interrupted, against `analysis.go:259`. Step 9 swallows every error: a
  cancel during it leaves a done analysis that warns "the best candidates together do not resolve: context canceled",
  where `docs/workflow.md:86` says a cancelled analysis reads cancelled; and a done analysis can carry a `failure` from
  a disk error of that step. Conversely an analysis whose `ranking.json` cannot be written fails without a failed step,
  where `docs/dev/api.md:64` says a failed one carries `failure`.
- Export. The progress events of two downloads may be emitted in another order than they were counted in
  (`export.go:370`): the browser's count can step back. `validSelections` (`export.go:258`) accepts every version the
  ranking lists, also one that did not resolve; `docs/dev/api.md:74` promises a 400. An export that fails and cannot
  write its `status.json` (`export.go:175`) is committed and shown as done, against `export.go:94`. It never compares a
  tarball's `package.json` with the name and version it was asked for, so a mismatch ends at the import.
- Archive. `@a/b` and `a-b` of one version share a file name: `downloadOne` keeps them apart, the archive writer fails
  with "duplicate archive entry". The import's `packageFile` refuses names that begin with `-` or `~`, and the two sides
  bound the length of a name differently (214 and 256 against a file name of 255), so a few exports cannot be imported.
  An export whose lockfiles keep no package for the target's platform is written, and its manifest refused
  (`archive/manifest.go:209`). `SameContent` ignores the order of the entries.
- Import. An end that is stored by a call whose cleanup fails is followed by Abandon of the latest attempt
  (`internal/store/imports/queue.go:171`, also 154), which by then may be a retry's, queued and never run.
- Projects and settings. `SetProjectTarget` writes the record it read and so resurrects a deleted project, as a record
  without a `package.json`; `project.json` is written before `package.json`, so a crash between them leaves a listed
  project without a manifest. Two overlapping `SaveSettings` may leave disk and memory different, and an update with a
  masked key that overlaps a change of the key writes the old key back. The two races `DeleteProject` documents are in
  the model, with the directories a job makes anew after its project is gone.
- Tokens. The age at which a key set is dropped is judged before the fetch, which may add its timeout (10 s); the reason
  that only says a fetch was made "under 30 seconds ago" is never the one shown.
- Tools. `InstalledTrivy` lists staging directories, and a user can activate one; `Ready` looks at the link only. A
  release may become old enough, or the rule change, between the recommendation and the update that uses it.

## What is proved

Every invariant, every action property and every refinement that a passing run checks is also proved, for every value
of the constants.

`JobQueueProofs` proves, for any set of jobs (no bound on their number or on the steps), from the one assumption that
`NoJob` is not a job:

| Theorem | States |
|---|---|
| `TypeCorrect` | `QueueSpec => []TypeOK` |
| `SubmissionOrder` | `QueueSpec => []InSubmissionOrder` |
| `DroppedJobs` | `QueueSpec => []DroppedNeverRuns` |
| `VerdictOnce` | `QueueSpec => []OneVerdict` |
| `CancelledWhenAsked` | `QueueSpec => []CancelledOnlyWhenAsked` |
| `Refinement` | `QueueSpec => Lifecycle!Spec` |

None of the properties is inductive: that a dropped job never runs, say, depends on its not being in the queue any
more, which depends on the queue holding it once. `IInv` says for each job where it can be, and what has been said
about it there:

- `SortedInv`: the queue is in strict id order, so it holds no job twice and a removal leaves none behind;
- `WaitingInv`, `FreshInv`: nothing has happened to a job that waits, or that was never submitted, and ids are at most
  `nextID`, so a new one goes last;
- `StartedInv`: what has started is ahead of what waits, and starts once;
- `WorkerInv`: the job in the worker's hands has run once, is not being dropped, and has been given its verdict exactly
  when the worker is between the hook and the end;
- `ToldInv`: the same for a job in a canceller's hands and for one that is over;
- `AskedInv`: the flag belongs to the current job, and each way to "cancelled" starts with a Cancel of that job.

`InitInv` and `StepInv` (one step per action) prove it inductive, `Invariance` that it always holds. `Refinement` maps
a job to the phase in which `Phase` sees it; `StepRefines` gives, action by action, the step of `JobLifecycle` or the
stutter it is, under `IInv`. `AppendFact`, `TailFact` and `RemoveAtFact` are what three operations do to a sequence.

The same module proves of EventStream, for any clients and limits, from `NoJobAssumption` and `StreamAssumption`:

| Theorem | States |
|---|---|
| `StreamIsQueue` | `StreamSpec => QueueSpec` |
| `ReplayAlwaysFits` | `StreamSpec => []ReplayFits` |
| `EveryStepArrives` | `StreamSpec => []StepsReachEveryClient` |
| `StreamRefinement` | `StreamSpec => ImplementsLifecycle` |

`StreamIsQueue` makes the queue's theorems those of the stream, so that its invariant may be used in what follows.
`HistoryInv` says what trimming leaves: at most `ReplayLimit` events that are not steps, and every step of the running
job, once. With the assumption on the number of steps a replay fits a channel with room for a live event (`ReplayFact`).
`ClientInv` says what a connection holds, read or in its channel, of the running job: each of its steps once, unless the
connection has lost an event, and no step that was not emitted or is of a job that never ran. `RankFact`, `KeptFact` and
`TrimFact` are what trimming does to a history, `DeliverFact` what a delivery does to a channel, full or not.

`JobServiceProofs` proves, for any jobs, seconds and suffixes and any number of crashes and of failing file operations,
from `NoJobAssumption`:

| Theorem | States |
|---|---|
| `DirectoriesApart` | `ServiceSpec => []OwnDirectory` |
| `IndexFollows` | `ServiceSpec => []IndexFollowsJobs` |
| `DiskSpeaksTrue` | `ServiceSpec => []DiskTellsTheVerdict` |

The queue's own invariant does not outlive a crash, after which ids count from zero again; `QueueInv` is the part of it
that does and that the service relies on: where a job can be and what has been said of it there. `PlaceInv` ties the
hook to the queue (it is in the middle of a job only while the worker, or a canceller, is), `DownInv` says that nothing
but the disk reaches the next start. Then:

- `ShareInv`: while an id is not committed, the one job that claims it has its `.tmp` there, so that no Mkdir of it
  succeeds. It is what makes `OwnDirectory` inductive, and shows where the exception comes from.
- `GivenInv` counts the reservations of an id, so that a job whose id was given once (`Alone`) meets nobody in its
  directory, nor under its key of the index (`KeyInv`).
- `AloneInv` follows such a job: nothing is committed before its Run returns (`UnwrittenPart`), it is tracked while the
  queue has it (`IndexPart`), its hook leaves no entry of the index, and a `.tmp` only where it could not move it
  (`GonePart`), a success is committed, left for the hook to commit, or stranded by a commit that failed (`DonePart`),
  and from the reconciliation on `status.json` has the queue's verdict, unless it could not be rewritten (`SayPart`).
- `RunningInv`: a published directory that says running has a hook between its rename and its correction, or is one
  that could not be rewritten.

A step is either the job's own, for which there is one lemma each (`ReserveKeeps` to `CrashKeeps`), or somebody else's,
and then calm for it: `QueueCalmFact` and `DiskCalmFact` say what it leaves alone, `CalmFact` that this is enough.

`ExportProofs` proves of ExportRun, for any number of packages, any parallelism, any sharing of tarballs and any state
of the cache at the start, from `SizesAssumption` (there is a package, and a slot) and `OtherAssumption` (other bytes
have another digest):

| Theorem | States |
|---|---|
| `Verified` | `ExportSpec => []ShippedIsVerified` |
| `Cause` | `ExportSpec => []CauseIsKept` |
| `AllReturned` | `ExportSpec => []NothingOutlivesTheStep` |
| `LastEvent` | `ExportSpec => []LastEventIsExact` |

`ShippedIsVerified` is not inductive: a package is settled with a good file in the cache, and another download of the
same tarball, which found it wrong earlier, may still remove it. `CachedInv` is what holds all the same: a settled
package's tarball is good in the cache (`SumInv`: under the digest its lockfile names), or some download is at a place
from which it either replaces it or fails, or the step has failed already. With `LoopInv` (no goroutine is left when the
step is over) the second case is empty at `WaitForAll`, which gives `PackedInv`. `RecordInv` orders the error path for
`CauseIsKept`: nothing is stopped, and no download reports a cancel of the others, before an error is on record.
`InitInv`, `GoroutineInv` and `StepInv` prove the conjunction inductive. `CountInv` runs beside it for
`LastEventIsExact`: the numbers given to packages are one each and follow each other, and no package has one before its
hit is counted, so that when the N-th reads the hits they are all there.

It also proves of ArchiveTransfer, for any packages, tarballs of any length, selections, copies in Nexus and limits, and
whichever one thing changes on the road, from `TransferAssumption` (a selection has no package twice, as `packageList`
sees to; the registry and Nexus serve tarballs; limits are numbers of Go):

| Theorem | States |
|---|---|
| `ShipsAsListed` | `Spec => []ShipsWhatItLists` |
| `VerdictTells` | `Spec => []VerdictIsTrue` |
| `OwnExportsAreAccepted` | `Spec => []OwnExportsPass` |
| `CopiesAreReadAlike` | `Spec => []CopyIsJudged` |

`TransferInv` follows the archive from one site to the other. `ShippedInv` admits that a rewritten file may have been
replaced by that of a later package with the same file name; in `SentInv` this is over, since `WriteTarGz` refuses such
a selection (`WrittenFact`). `RoadInv` says what a change leaves of archive and manifest. `Scanned` is the loop
invariant of `scan`: what the entries read so far have been checked against, which bytes were counted, and that what was
copied is what was found. `VerdictInv` and `ResultsInv` say what verdicts and results were told by. `OwnInv` runs beside
them for an archive that arrived as it left: its manifest passes, what is left of the stream's bound always suffices
(`OwnBound`, `BytesStep`, `BytesTotal`), each entry is found in its turn (`OwnEntry`), and so it is accepted. The facts
about tarballs are lemmas of their own: `StripFact` (a stripped tarball has no `publishConfig` and is otherwise
`Alike`), `SameAlike` (equal content, as `SameContent` takes it, is `Alike`), `IntegrityFact` (which field of an
integrity decides).

The proofs corrected the model and two properties on the way. The size in a directory's header was counted and is not.
`OwnExportsPass` needs a package, since a manifest without one is refused. `CopyIsJudged` must excuse a copy that has a
name twice as well as a shipped tarball that has: `SameContent` looks at one entry of a name, unpackers may at another.

`AnalysisRunProofs` proves, for any number of dependencies and newer versions and any number of resolutions at a time,
from `SizesAssumption`:

| Theorem | States |
|---|---|
| `ScansBarCancels` | `AnalysisSpec => []CancelMeetsBothScans` |
| `Measured` | `AnalysisSpec => []ProposalsAreMeasured` |

Neither is inductive. `CancelInv` says that a listing or a resolution reports a cancel only under a context that is
done, which stays done, and that from then on every scan that answers is one that outran its kill: past step 7, where
both have answered, both did. `LockInv` says that the
lockfiles are those of what resolved, from the end of step 6 on, and `PlaceInv` that nothing is proposed before step 8.
`BestFact` is what `rank.Best` returns, whatever the vectors: a measured version better than the pinned one, and none of
the open ones better still.

`ImportProofs` proves of ImportQueue, for any set of imports, any number of packages, attempts, failures and stops, from
`ImportAssumption` (`NoImport` is not an import):

| Theorem | States |
|---|---|
| `EndedStay` | `ImportSpec => EndedStays` |
| `Remembered` | `ImportSpec => []NothingForgotten` |
| `CycleImplemented` | `ImportSpec => ImplementsImportLifecycle` |

`EndedStays` needs little: the records are well formed (`Base`), and each step changes them in one of five ways: not at
all, by writing into an unended latest attempt, by marking an ended one removed, by adding one, by sweeping.
`NothingForgotten` is far from inductive. `HeldSomewhere` restates it: an unended latest attempt waits in the queue or
at a handler that is to submit it, or belongs to the import in the worker's hands. To keep it, one must know that the
worker lets go of an import only when nothing of it is open any more or a later attempt waits elsewhere (`LeftInv`), for
which `ActiveInv` says that until the end is stored the worker's attempt is the latest one and runs, and `RunningInv`
that nothing else runs; `SweptInv` says what the start has set right. One failing store operation is made up for by the
Abandon that follows it, and two are not: `faults` appears in each of them. `UpStep` treats a service that is up,
`IInvStep` adds the stop and the start.

The refinement has an invariant of its own, `LifeInv`. Only the latest attempt is open (`LaterInv`), so that a sweep,
which rewrites all, ends one per import; the worker's attempt was begun (`BegunInv`), so that it runs when its end is
stored; while nothing has failed nothing else runs (`SoleInv`), which is the guard of `Run`; and a report that is
returned is a true one (`ToldInv`). `LifeStepHolds` gives, action by action, the step of `ImportLifecycle` or the
stutter it is (`RunLife`, `TellLife`, `EndLife`, `NoteLife`, `SweepLife`, `CutLife`, `AddsLife`); `ShowsRewrite` carries
a change of a record to what is shown of it.

It also proves of ImportRun, for any objects, from `ImportAssumption` and `GoneAssumption`:

| Theorem | States |
|---|---|
| `RunImplementsQueue` | `RunSpec => ImportSpec` |
| `TrueRecords` | `RunSpec => []RecordsAreTrue` |
| `DeletesAfterRecords` | `RunSpec => []DeletesFollowRecords` |
| `OneImportOfObjects` | `RunSpec => []OneStartPerObjects` |
| `ArchiveGoesFirst` | `RunSpec => NoArchiveWithoutManifest` |
| `RunRemembers` | `RunSpec => []NothingForgotten /\ EndedStays /\ ImplementsImportLifecycle` |

`RunImplementsQueue` shows that whatever an attempt's run and its remover do is a `RunStep` of the queue's
(`RunStepFact`, for which `StepInv` says how far the run got at each line of its report); `RunRemembers` carries the
queue's theorems over. `RecordsAreTrue` needs the worker's own report to be true before it is stored (`ReportTrue`), and
Nexus to lose nothing (`ServesStays`). For `DeletesFollowRecords`, `CleanInv` says that a remover is called only for a
complete end that is on disk, and `RemoveInv` that it deletes what it has checked, unless the user changed the objects
since. The refinement showed that a run also reports packages as present, which `RunStep` did not have.

`ToolInstallProofs` proves, for any set of releases and any number of crashes, from `VersionsAssumption` (release numbers
are positive):

| Theorem | States |
|---|---|
| `Whole` | `Spec => []InstallsAreWhole` |
| `NeverBlocked` | `Spec => []DebrisNeverBlocks` |
| `AgeRule` | `Spec => MinimumAgeHolds` |
| `WorkingStays` | `Spec => WorkingInstallStays` |

Its invariant goes with the operation step by step: `StagedInv` says what the staging directory holds at each step (a
whole archive once it is extracted, and only then is it renamed), `ReplacedInv` that an install is set aside only when
it was not a whole one, `LinkInv` that the link of a version's name resolves and that a switch under way will, `AgeInv`
that an update past its age check was forced or found its release old enough.

`TokenCheckProofs` proves, for any identifiers and any times in the order the code has them in, from `TimesAssumption`
(timeout < window < TTL < stale limit, none of them zero):

| Theorem | States |
|---|---|
| `RevokedDies` | `Spec => []RevokedKeyDies` |
| `UnavailableIsTrue` | `Spec => []UnavailableMeansIt` |
| `RotationIsSeen` | `Spec => []RotationIsPickedUp` |

Each of the three speaks of an answer and of the realm's past, and nothing in the state but the cache connects them.
`CacheInv` says how: a key the set has too many, or lacks, left or came since the fetch; no set means that the last one
was too old; without a failure the set is as young as the last attempt, and after a failure the realm has been down, or
turned, since. `SaidInv` says the same of the answer that is on its way: it holds but for what changed during the fetch.
`DecideFact` says what an answer tells of the key, whatever other checks the token fails.

`ProjectStoreProofs` proves, for any number of projects, requests, jobs, failures and restarts, from
`DefaultAssumption` (the default target is a target) and `RecordAssumption` (`NoRecord` is not a record):

| Theorem | States |
|---|---|
| `ManifestKept` | `Spec => []OwnManifest` |
| `WritersSpared` | `Spec => []DeletionSparesWriters` |
| `JobsFound` | `Spec => []JobsAreFound` |
| `SettingsKept` | `Spec => []SettingsSurvive` |

None of the four is inductive. `CreateInv` says that a creation has the directory it reserved to itself, with no record
in it until it writes its own, and that who rewrites a record holds one of the same owner: so no retarget under way can
bring another owner back. `JobInv` says that a job keeps its directory, or is lost, from its reservation to its end, and
is in the index from its submission until its hook lets go: so a job that is not in the index is on disk or lost.
`DeleteInv` says that a deletion has passed over no job of a kind it has looked at: the listings are one after the other,
and a job that has left `.tmp` returns to it only when its directory was removed under it. `SettingsInv` says that what
a lone update has yet to put in memory is what it put on disk. Each request's step changes one of these parts and is
`Calm` for the others: `RequestFrame` carries them over, so that the proof of a step only shows the part it is about.
`OneJob` does the same for the steps of the jobs.

Only model-checked: the liveness properties (`CancelTakesEffect`, `CloseStops`, `EveryJobIsServed`, `JobEndEndsStream`,
`CancelEndsAnalysis`, `StopEndsExport`, `EachIsServedOrStopped`), since the prover has no rule for fairness here; and the
two counterexamples, which a run shows. No proof rests on an unproved fact about a recursive definition: the modules
have none.

## Not modelled

Child processes (start, group kill, grace period: `internal/runner`), HTTP routing, request signing (the MinIO client),
parsers, reports, the web interface and the command line are I/O, encoding or formatting with no state the properties
are about; what they may answer is part of the steps that call them. Of `rank` only the choice among candidates is
modelled; `KeyVersions`, `JumpOf`, the signals and the diff of findings are planned as operators. Of `npm` the lockfile
and manifest parsers, the version order and the platform rules are left out. The database update of the tool manager is
a child process with no file of its own. The files of a record are assumed to be written atomically (temporary file and
rename), as `internal/store` and `internal/store/imports` do, and a stop of the machine is not told from a stop of the
process.

## Plan

Done: `JobLifecycle`, `JobQueue`, `EventStream`, `JobQueueProofs`; `JobService`, `JobServiceProofs`; `ImportLifecycle`,
`ImportQueue`, `ImportRun`, `ImportProofs`; `ExportRun`, `Tarball`, `ArchiveTransfer`, `ExportProofs`; `AnalysisRun`,
`AnalysisRunProofs`; `ToolInstall`, `ToolInstallProofs`; `TokenCheck`, `TokenCheckProofs`; `ProjectStore`,
`ProjectStoreProofs`.

Left: pure operators (`KeyVersions`, `JumpOf`, the signals, the findings diff and the version order), against reference
definitions over bounded inputs.

## Running it

```
tlc -config EventStream.cfg EventStream.tla        # and likewise each run of PROJECT.json
tlc -config MCProjectStore.cfg MCProjectStore.tla
tlapm ImportProofs.tla                             # and likewise each *Proofs module
```

The longest runs, `job_service`, `project_store`, `export_run` and `import_queue`, take two to three minutes each on two
workers; the longest proofs, ExportProofs, ImportProofs, JobServiceProofs and JobQueueProofs, some minutes each.
