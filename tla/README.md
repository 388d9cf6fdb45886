# GeoQC: formal models

TLA+ specifications of [GeoQC](../src/README.md), a quality-control tool for
vector GIS data with a command line, a Python API and an HTTP service, together
with the TLC configurations that model-check them and TLAPS proofs about them.
`PROJECT.json` is the index: components, runs, the source lines behind every
definition, hazards, findings and theorems. Paths below are relative to the
package, `src/geoqc/` in the repository, unless they begin with `docs/`.

- [1. The system](#1-the-system)
- [2. Modules](#2-modules)
- [3. Runs](#3-runs)
- [4. Fairness](#4-fairness)
- [5. Proofs](#5-proofs)
- [6. Where code and documents disagree](#6-where-code-and-documents-disagree)
- [7. Abstractions](#7-abstractions)
- [8. Plan](#8-plan)

## 1. The system

### Components

| Component | Source | State it keeps | Operations | What makes it correct |
|---|---|---|---|---|
| asynchronous jobs | `interfaces/api/jobs.py`, `job_routes.py` | records, permits of a bounded semaphore, a thread pool's queue, staged upload directories | `submit`, `get`, `cleanup`, `close`, `_run`; POST and GET routes | admission limits hold; permits, records and directories follow the work through every error path; results live as long as promised |
| application lifespan | `interfaces/api/app.py` | stop event, clean-up task | start, periodic clean-up, shutdown | shutdown ends and has drained accepted work |
| metrics registry | `interfaces/api/metrics.py` | counters under a lock | bump, render | a scrape adds up |
| request limiter, operations middleware | `interfaces/api/rate_limit.py`, `operations.py` | fixed windows per identity and bucket, bounded number | `check` per request | the promises in `Retry-After` and `X-RateLimit-Remaining` are kept; bursts are bounded |
| authentication, synchronous routes | `interfaces/api/authentication.py`, `upload_security.py`, `geometry_routes.py`, `dataset_io.py` | staging directories | decode, stage, open, validate, repair, answer | what is staged is one dataset; an answer is about all of it |
| parallel batch executor | `application/parallel/` | futures, outcomes, progress | `run`, with worker processes | one item per dataset in source order, failures isolated, nothing left running |
| audit command, batch processor | `interfaces/cli/main.py`, `application/services/batch_processor.py`, `cli/delivery.py` | verdicts | discover, batch, then multi-layer files; `geoqc batch` | an honest exit code about the right files; it ends |
| check command, output publication | `interfaces/cli/main.py`, `infrastructure/gis/dataset_export.py` | one layer's result, temporary files beside targets | per layer: audit, issue layers, report; verdict | every output is old or complete; the exit code says what happened |
| dataset audit and quality gate, profiles and presets, topology rules, geometry and attribute checks | `infrastructure/gis/`, `domain/models/`, `application/` | findings of one audit in the order they are made | preset, checks, profile rules, merging, overrides, index, score, gate | a check that was skipped never counts as passed; all commands agree on a verdict; every end is reported once |
| coverage repairer | `infrastructure/gis/shapely_topology_repairer.py` | locals of one call | `repair_coverage`: mend, erase overlaps, fill gaps, check | no coverage lost, no unexplained overlap or gap, an honest report |
| repair session and undo | `application/services/topology_repair.py` | working set, snapshots, cached preview | `preview`, `apply`, `undo` | undo leads back to the start; a preview is of the current set |
| fix command | `interfaces/cli/main.py` `fix` | temporary file, output | per layer: safe call, review call, append; replace | output old or complete; only safe changes; overlaps flagged |
| road network repair | `infrastructure/gis/road_*.py` | groups of ends, anchors, union-find | group, cluster, project, publish; connect components | an end moves no farther than the tolerance; joined ends stay joined; connectors form a forest |
| streaming engine, rule engine, engine selection | `application/streaming/`, `domain/rules/`, `application/engine_selection/` | partial results per processor, the Parquet writer's temporary file | read a chunk, process, collect; choose an engine | chunked equals whole; the copy is old or complete |
| enterprise spatial analysis | `infrastructure/gis/shapely_enterprise_spatial.py` | a set of pairs, scored matches | duplicates, compare, conflicts | every difference reported once, none that is not there; a result that was cut short says so |
| CRS checks, benchmark recorder, reports and maps, public Python API, web application | see `PROJECT.json` | none that outlives a call | - | not modelled |

### How they interact

The HTTP middleware checks the credential and the declared length, charges the
request to its client's window and then calls the route. A geometry route decodes
the upload into a directory, opens it and hands it to the engine that the profile
of a sample suggests. A job route writes the uploads to a directory of its own, and hands that
directory over to the job's operation by submitting a closure to `JobManager`;
from then on a worker thread runs it, moves the record through its states and
feeds the metrics, while status requests, other submissions and the lifespan's
clean-up task all run `cleanup()` over the same records. The lifespan closes the
manager when the server stops, while requests may still be inside `submit`.

`geoqc check` audits one dataset, layer by layer, and writes issue layers and
reports beside it; a later `geoqc audit` of the folder must leave these out. It
gives all datasets it discovers to `ParallelBatchExecutor`, which runs them in
the parent or in worker processes and collects futures as they complete;
progress goes to an observer callback. `geoqc fix` drives the coverage repairer
twice per layer, and writes what the first call returned and what the second one
noticed. A `RepairSession` drives the same repairer over one working set.
`geoqc repair-roads` moves the ends of lines in two passes, nodes the result and
publishes it; the connector of components works on the lines it left.

### What is hard here

Three clean-ups and two threads per job on one registry; a directory that
changes owner between threads; a semaphore released on four paths; worker
processes that die or cannot be started; Ctrl-C and raising callbacks in the
middle of a batch; evictions in the limiter; a repair whose steps work on each
other's results, can raise in the middle and are partly taken back; files that
must be replaced as a whole; two passes that move the same points, each measured
against what was there before it; findings from three sources merged by keys
that do not tell all of them apart; partial results that must add up to the
result of the whole. The list with lines and the properties that cover
each item is `hazards` in `PROJECT.json`.

## 2. Modules

| Module | Models | Extends |
|---|---|---|
| `JobService` | what the job endpoints promise: admit, tell, run, end, forget | - |
| `JobManager` | the job manager, its routes, the lifespan and the job counters | instantiates `JobService` |
| `JobManagerProofs` | theorems about `JobManager` | `JobManager`, `TLAPS` |
| `RateLimiter` | fixed-window counters behind the middleware | - |
| `UploadSecurity` | which uploads and datasets the API takes | - |
| `ApiService` | a request from the middleware to its answer | `RateLimiter`, `UploadSecurity` |
| `ApiProofs` | theorems about the limiter, uploads and replies | `ApiService`, `TLAPS` |
| `ParallelBatch` | scheduler, executor, process pool | - |
| `Discovery` | which files a command audits | - |
| `AuditCommand` | `geoqc audit` and `geoqc batch` after runs of `geoqc check` | `ParallelBatch`, `Discovery` |
| `AuditProofs` | theorems about batches and the exit codes of audits | `AuditCommand`, `TLAPS` |
| `AuditGate` | the audit of one layer, its score and verdict | - |
| `CheckCommand` | `geoqc check` around such audits, with its files | `AuditGate` |
| `CheckProofs` | theorems about the files, the findings and the verdicts of `check` | `CheckCommand`, `TLAPS` |
| `CoverageRepair` | one call of the repairer | - |
| `CoverageRepairProofs` | its inductive invariants | `CoverageRepair`, `TLAPS` |
| `RepairSession` | preview, apply, undo around such calls | `CoverageRepair` |
| `RepairSessionProofs` | theorems about a session | `RepairSession`, `CoverageRepairProofs` |
| `FixCommand` | `geoqc fix` around such calls | `CoverageRepair` |
| `FixProofs` | theorems about what `fix` writes | `FixCommand`, `CoverageRepairProofs` |
| `Publication` | one output file, its temporary file, the ways to end | - |
| `RoadRepair` | `geoqc repair-roads` | `Publication` |
| `RoadConnector` | the connector of road components, on the repaired lines | `RoadRepair` |
| `StreamingAudit` | readers, engine, processors, rule engine, engine choice, Parquet writer | `Publication` |
| `SpatialAnalysis` | duplicates, comparison and conflicts | - |
| `Pipelines` | the programs that read datasets and end, one of them at a time | `RoadConnector`, `StreamingAudit`, `SpatialAnalysis` |
| `PipelineProofs` | theorems about the files of the pipelines, the ends of repaired lines, spatial replies and chunks | `Pipelines`, `WellFoundedInduction`, `FiniteSetTheorems`, `TLAPS` |
| `MC*` | TLC instances | the module they are named after |

Definitions named as in "faulty variants" or with a suffix such as `OneEarly`
are not part of any specification. They are plausible mistakes in the code;
`PROJECT.json` pairs each with a property that TLC then finds violated.

### JobManager

A job is the POST request that asks for it. Every step is what one thread does
between two points where another can interfere: a lock, the semaphore, the
metrics lock, the executor's queue, the file system.

| Code | Model |
|---|---|
| `_records` | `recordState`, `updatedAt` |
| `_capacity` | `permits` |
| `ThreadPoolExecutor` | `workQueue`, `threads`, `shutdown`, `PickUp`, `NeedsThread` |
| `create_validation_job` and `submit` | `route` and the actions of `Route(r)`, from `Receive` (mkdtemp) to `Enqueue` (202) or `Refuse` (429 or an error) |
| rollback in `submit` after a failed `executor.submit` | `EnqueueRefused`, `ThreadStartFails`, `UndoRecord`, `UndoRaises`, `UndoPermit` |
| `cleanup` | two steps: the cutoff is read, later the lock is taken (`Cutoff`, `Sweep`) |
| `_run`, `_transition` | `task` and the actions of `Run(j)`; `BeginRaises` and `SettleRaises` are the refused transitions |
| `get`, status route | `PollReadsClock`, `PollSweeps`, `PollReads` |
| `lifespan` | `StopServing`, `CleanerTimesOut`, `CleanerSweeps`, `CleanerEnds`, `BeginClose`, `EndClose` |
| `MetricsRegistry.job_state` | `jobsTotal`, steps of their own after the registry lock is released |

`ThreadStartMayFail` says whether `Thread.start` can raise ("can't start new
thread"). It does on a host that is out of threads; `ThreadPoolExecutor.submit`
has queued the work item by then.

### RateLimiter, UploadSecurity and ApiService

One decision of the limiter is one step, because the middleware does not await
between a request's arrival and the decision. `windows` is the storage, `Bump`
and `Increment` are `InMemoryRateLimitStorage.increment` with its clean-up and
its eviction; `Admit` and `Refuse` are the two ends of `check`. `told`,
`comeBack` and `admitted` record what clients were told. The clock ticks in
fractions of a second so that the rounding of `Retry-After` matters.

`ApiService` puts the decision where it belongs: `RefuseCall` is everything the
middleware answers before the limiter (credential, declared length),
`RefuseCharged` the 429, `Dispatch` the hand-over to a handler. Handlers run in
slots, a thread each, and interleave: `Serve` is a route without an upload,
`UploadFails` and `Stage` are `stage_upload`, `HandOver` gives the directory to
the job manager; the geometry routes go on with `RefuseDataset`, or `Validate` or
`Repair`, and `Answer`, which leaves the directory. `BodyFails` is
a body that is longer than it was declared. `UploadSecurity` gives every check
the status it refuses with, in the order of the code.

### ParallelBatch, Discovery and AuditCommand

`Plan` is the part of `run` before a mode is chosen, with every worker count the
scheduler can compute. `SerialTask` and its neighbours are `_run_serial`;
`Submit`, `Collect`, `ObserverRaises`, `Interrupt` and `LeavePool` are the steps
of the parent in `_run_pool`, the `with` block's wait included; `Start`,
`Finish`, `WorkerDies` and `Break` are `concurrent.futures`, external and
modelled as the executor relies on it.

`AuditCommand` begins with a folder tree and any number of `CheckDataset` steps,
each an earlier `geoqc check` that leaves issue layers and a report where the
code puts them. `Begin` is `geoqc audit` up to its first dataset: `Discovery`
says what is found, dropped, named and skipped. Then the batch runs, the layers
of multi-layer files are audited in the parent (`AuditLayer`, `LayerCrashes`),
and `Exit` folds the verdicts. `BeginBatch`, `BatchItem` and `BatchExit` are
`geoqc batch`, which discovers without dropping anything and audits serially.

### AuditGate and CheckCommand

A layer is a list of rows whose geometries are names; constants say what GEOS
would (is it valid, what do two have in common, where do they meet). On this
plane `AuditGate` follows `audit_geodataframe`: the findings of the checks, the
preset and the profile's rules in the batches and the order the code makes them
in, road ends reported by the preset and by the profile merged, ids and severity
overrides, the index in which the later finding of a key wins, the score, the
checks' states, and `Passes`. `CheckCommand` calls it once per layer:

| Code | Model |
|---|---|
| options, profile, layers | `Setup` |
| opening and auditing a layer | `Audit`, `AuditFails`, `Unreadable` |
| issue layers, report, each with its refusals | `Skip`, `Open`, `Publish`, `WriteFails`; `Hint` when the report's extra is missing |
| the loop over layers and the exit code | `Verdict`; `Killed` at any step |

### Publication, RoadRepair, RoadConnector, StreamingAudit, SpatialAnalysis

`Publication` has one output and one temporary file and the steps in which a
program writes, renames and gives up. `repair-roads` and the GeoParquet writer
are built on it.

| Code | Model |
|---|---|
| `_validate_request`, reading the layer | `Accept`, `Reject` |
| grouping of endpoints, one end | `Join`, `Found` |
| choice of the anchors, `_replace_endpoints`, projection on lines | `Anchor`, `Cluster`, `Project` |
| writing, replacing, the report | `NothingLeft`, `Write`, `WriteFails`, `Publish`, `Report`, `RoadKilled` |
| `connect_road_components` | `Connect`, then `Consider` for each candidate |
| `AutomaticGeometryEngine` | `Profile`, then `AuditInMemory` or `Inspect` |
| `StreamingEngine.run` | `AuditChunk`, `RuleChunk`, `ReadFails`, `Finish`, chunks of any size up to the limit |
| `GeoParquetStreamWriter` | `OpenOutput`, `WriteChunk`, `SkipChunk`, `CloseWriter`, `PublishParquet`, `ReturnResult` and its failures |
| `ShapelySpatialDuplicateDetector` | `CollectPair`, `NextRow`, `ReportDuplicates` |
| `ShapelyDatasetComparator` | `Match`, `ReportComparison` |
| `ShapelySpatialConflictAnalyzer` | `ReportConflicts` |

Roads lie on an abstract plane of places with a distance and with the places on
the segment between two. A geometry of the spatial analyses is what GEOS measures of
it: envelope, area and length, those of intersections and unions, and Hausdorff
distances. The scores and what the index finds are computed from these as in the code.
In the instance they are measured on polygons, lines and points of a lattice.

### CoverageRepair, RepairSession, FixCommand

The plane is a finite partition: bounded faces, the unbounded rest, the length
of the border between any two of them and an area per face. A geometry is the
set of faces it covers and a kind that says how GEOS treats it (valid, with
repeated points, a ring that `make_valid` mends, one that collapses to a line,
one on which every operation raises, a line). Overlay is set algebra on faces;
parts, rings and holes are connected sets; `_widest_neighbour` compares the
border a hole shares with each feature.

| Code | Model |
|---|---|
| first loop of `repair_coverage` | `RepairFeature` |
| `_resolve_overlaps`, one feature | `EraseOverlap` |
| `_fill_gaps` | `FindHoles`, once, then `FillHole` per hole |
| the `except` clause of the cross-feature part | `RollBack` |
| last loop | `CheckSafety` |
| `_build_result` | `Status`, `ReportedActions`, `ReportedAfter` |
| `RepairSession` | `settings`, `current`, `history`, `preview`; `Ask`, `ShowPreview`, `ApplyPreview`, `ApplyResult`, `Undo` |
| `_fix_layer`, `fix` | `ReadLayer`, `SafeReturns`, `WriteLayer`, `Publish` and the ways each can fail |

`CoverageRepair` has no `Next` of its own: a call begins with `Call(coverage,
config)`, goes through `RepairStep`, and its caller takes the result in the step
that does `Return`. `RepairSession` and `FixCommand` are the two callers.

## 3. Runs

| Run | Instance | Properties |
|---|---|---|
| `jobs` | 3 jobs, 1 worker, 1 queue slot, 2 records, retention 1, clock to 2, one client polls | `PermitsAccounted`, `AdmissionBounded`, `RecordFollowsWork`, `StagingOwned`, `MetricsAddUp`, `ClosedIsDrained`; `RetentionKept`, `ObservedForward`, `ExpiredNotShown`; refinement `ImplementsService` |
| `jobs_progress` | 2 jobs, 2 workers, threads may fail to start, fair | `ShutdownCompletes`, `RecordsExpire`, `ServicePromise`, `StagingReclaimed` |
| `jobs_thread_start` | 4 jobs, 2 workers, threads may fail to start | finds `AdmissionBounded` violated |
| `api` | 3 requests of 2 clients in 2 slots, 4 deployments, 115 uploads, 9 datasets, room for 2 windows | `BurstBounded`, `HeadersHonest`, `StagedIsOneDataset`, `RepliesHonest`; `LiveWindowsKept` |
| `audit_batch` | a tree of 9 files, up to two levels of folders, 11 commands, serial or 2 workers, workers may die | `ResultInOrder`, `ExitCodeHonest`; `NothingBegunLater`; `CommandEnds` |
| `audit_batch_startup` | the same | finds `StartupFallsBack` violated |
| `repair_session` | every coverage of up to 3 features from 12 shapes, 4 configurations, histories of up to 3 | `FirstClaimKept`, `OverlapsExplained`, `GapsClosed`, `ReportMatchesOutput`, `UndoReachesOpening` |
| `fix_command` | layers of up to 3 features from 10 shapes, an optional second layer, failing reads and writes, a kill | `OutputWhole`, `OnlySafeChanges`, `OverlapsFlagged` |
| `fix_review` | the same | finds `EveryOverlapFlagged` violated |
| `check_command` | layers of up to 3 rows of polygons, lines or points under packaged, generic, user and automatic profiles; sources of up to 2 layers with every combination of outputs | `PassedMeansSound`, `EndpointsReportedOnce`, `OutputsHonest` |
| `baseline_duplicates` | the same | finds `BaselineKept` violated |
| `pipelines` | up to 3 road lines on a grid of 5 by 3, datasets of up to 4 features in chunks of 1 to 3, some of them filtered by a scan, comparisons of up to 3 with 3 features | `EndsMoveBounded`, `JoinsHold`, `NetworkConnected`, `ChunksAgree`, `OutputWhole`, `SpatialRepliesHonest` |

Every property is stated, with the behaviour it is about, above its definition.
Type correctness is proved for the jobs and the sessions (section 5).

**Why the bounds are enough to meet the interesting cases.** Three jobs over a
capacity of two: one is refused by the semaphore while two are in the system,
and a registry of two records is full while a permit is free, so both refusals
and the permit returned under the lock happen. A retention of one tick and a
clock of two let a record expire while a stale cutoff is held elsewhere. Two
workers in `jobs_progress` give one thread that starts and one that does not. Its two
jobs are too few for the leak of section 6, which needs a third, and the premise of
`StagingReclaimed` leaves the leak out: the property says nothing of a directory once a
permit was given back twice, whatever the number of jobs.
Four jobs are the fewest for over-admission: three fill the capacity, one of
them gives its permit back wrongly, a fourth takes it. In `api` two windows for
four keys force evictions, a clock of five half seconds contains a full window
of two seconds and what follows it, an expensive limit of one and a standard
one of two are both exhausted by three requests, and two slots let two handlers
stage, decode and fail side by side; its uploads hold every choice of two files
from two stems, incomplete and complete Shapefiles with a fourth file, and files
that are too large, ill named or ill encoded. Batches of three leave a queued, a
running and a finished task at the same time. The folders hold a Shapefile with
its side files, a file with two layers, one that cannot be opened, a link, files
of other kinds, and the outputs that checks left in them. In the repair instance
two parcels enclose a gap, with an island in the gap and a pit in the island, so
that holes nest, an island is covered by a fill, a hole has no neighbour in the
coverage, and two holes are pending at once; a sliver, a mendable ring, one that
collapses, one on which GEOS raises and a line give every branch of the first
loop and both rollbacks; one budget rejects a feature after its neighbours have
been cut, the other only after a fill. Histories of two applies are reached; no
configuration of the instance needs a third. In `check_command` two rows are
enough for two findings with one key, for a duplicate, an overlap, and a road end
that overshoots one line; three for a gap with a sliver in it and for a junction
of three lines. With three road lines an end finds two groups that would take it,
a group has three members, lines are put back, and the line an end was projected
on moves after it was measured; with four islands connectors are left over that
would close a cycle. Four features in chunks of up to three give partial results
that must be merged, an empty dataset gives none. Three features against three
have scores that tie and matches that take a better one away from each other. The
shapes of the spatial instance overlap, touch along an edge and in a point, and two
roads run side by side with envelopes that do not meet: they are 532 per mille alike, so
that a search at 400 misses them and one at 850 does not ask for them.

**Bounds of the models** (none is in the code): `MaxClock`, `MaxRequests`,
`MaxTasks`, `MaxLayers`, `MaxHistory`, `MaxDepth`, and the finite sets
`Coverages`, `Configs`, `Sources`, `Requested`, `Cpus`, `MemoryBudgets`,
`Datasets`, `Requests`, `Calls`, `Uploads`, `Deployments`, `Scenarios`,
`Networks`, `Connections`, `Jobs` of the pipelines, and `SpatialRequests`. Runs
of commands that exit, and of the service whose requests run out, do not check
deadlock; the job and session runs do.

## 4. Fairness

`JobManager!FairSpec`: weak fairness on each request's own steps once it has
been received, each job's worker, the pool's pick-up, the clean-up task, the
shutdown once begun, and the clock. These are threads and an event loop that run
when they can. No fairness makes a client send or poll, or anybody stop the
server. The validation is assumed to end; the code has no timeout for it.

`AuditCommand!FairSpec`: weak fairness on the parent, on the pool handing out
queued items, and on audits ending. None on giving a command, on Ctrl-C, a raising observer, a
failing start or a dying worker; the one exception is that a submission to a
pool that is already broken raises.

The other modules have safety properties only: a call, a request or a command
there is a bounded sequence of loops over lists.

## 5. Proofs

| Theorem | Says, for all values of the constants | Assumes |
|---|---|---|
| `TypeCorrect` | `[]TypeOK` | - |
| `PermitsSafe`, `RecordsSafe`, `StagingSafe`, `AdmissionSafe`, `CloseDrains` | the five job invariants of the same names | `~ThreadStartMayFail` |
| `RetentionSafe` | `RetentionKept` | - |
| `ExpiredHidden` | `ExpiredNotShown` | - |
| `ObservationsForward`, `MetricsSafe` | `ObservedForward`, `MetricsAddUp` | `~ThreadStartMayFail` |
| `ServiceImplemented` | `ImplementsService`: every step of the jobs is one of `JobService` or a stutter | `~ThreadStartMayFail` |
| `HeadersKept`, `BurstsBounded`, `EvictionOnlyWhenFull` | `HeadersHonest`, `BurstBounded`, `LiveWindowsKept` of the limiter behind the API | - |
| `StagedOneDataset`, `RepliesAreHonest` | `StagedIsOneDataset`, `RepliesHonest` | - |
| `ResultsInOrder`, `NothingBeginsLater` | `ResultInOrder`, `NothingBegunLater` of a batch | - |
| `ExitCodesHonest` | `ExitCodeHonest` of `geoqc audit` and `geoqc batch` | `OutputsApart` |
| `SessionKeepsFirstClaims`, `SessionExplainsOverlaps` | `FirstClaimKept`, `OverlapsExplained` of every call made from a session | - |
| `SessionReportsHonest` | `ReportMatchesOutput` of every such call | - |
| `SessionClosesGaps` | `GapsClosed` of every such call | - |
| `SessionUndoReachesOpening`, `SessionPreviewFresh`, `SessionTypeCorrect` | `UndoReachesOpening`, `PreviewFresh`, `TypeOK` | - |
| `FixOutputWhole`, `FixOnlySafeChanges`, `FixOverlapsFlagged` | `OutputWhole`, `OnlySafeChanges`, `OverlapsFlagged` of `geoqc fix` | - |
| `CheckOutputsHonest` | `OutputsHonest` of `geoqc check` | - |
| `PassedLayersSound`, `EndsReportedOnce` | `PassedMeansSound`, `EndpointsReportedOnce` | - |
| `PipelinesWriteWhole` | `OutputWhole` of `repair-roads` and of the GeoParquet writer | - |
| `RoadEndsMoveBounded`, `RoadJoinsHold` | `EndsMoveBounded`, `JoinsHold` | - |
| `NetworksConnected` | `NetworkConnected` of the connector | - |
| `SpatialRepliesAreHonest` | `SpatialRepliesHonest` | - |
| `ChunksAlwaysAgree` | `ChunksAgree` of every audit that is streamed | - |

The constants carry the assumptions stated where they are declared, each of them
evaluated in the runs: a finite set of jobs and positive sizes for the jobs; a
positive limit, window and clock grain for the limiter, and identities for what a
deployment and a caller present; for the plane finitely many faces, linked by
symmetric borders, and positive areas; for roads a distance that is symmetric and
zero from a place to itself (the triangle inequality is not needed), segments that
contain their ends, and lines of at least two places; for audits a finite set of
files, with paths that are sequences; for `check` that lists of layers and rules
are lists, that tolerances are numbers, and that an end which
runs past a line is no farther from it than the piece that does (`TailAssumption`);
for streams that features and issues come in lists; for spatial requests that
datasets are lists of geometries, thresholds are shares, and tolerances and
ceilings are natural numbers; for the measures of geometries that they are not
negative, that an intersection has no direction and lies in both envelopes, and that a
geometry shares all of itself with itself (`GeosAssumption`; neither the triangle
inequality nor any bound on distances is needed).
`OutputsApart` is no assumption on a run but a hypothesis of one theorem: no
dataset of the user stands in a folder called `geoqc_output`, where `audit` leaves out
what it finds and an earlier `check` may have replaced it.

**Jobs.** `IInv` is the conjunction of `TypeOK`, `WorkInv`, `QueueIsPending`,
`ThreadsServeQueue`, `PermitsAccounted` and `RecordsBounded`. No single property
is inductive: that a permit is released once needs that a work item never dies
before its `try` statement, which needs that its record is there and "queued",
which needs that nobody but the route deletes it and that the route does so only
when the item was not queued (`WorkInv`); that an item picked up is one that was
queued needs that the queue holds pending jobs and each once
(`QueueIsPending`); that `close` returns only when the queue is drained needs a
thread for a non-empty queue (`ThreadsServeQueue`). If a thread can fail to
start, the invariant is false, and so are some of the properties: this is the
finding of section 6, and the reason for the assumption. `RetentionSafe` needs
none of it, only that every cutoff held anywhere is at least the retention
period in the past (`CutoffsPast`). `ExpiredHidden` adds that between the clean-up
of a poll and its reading the record is no older than the poll's cutoff
(`SweptFresh`): it was so when the clean-up kept it, or it has ended since.

That clients see a job only move forward needs what they were last shown related to
the record and to the outcome of the work, also when the record is gone
(`SeenFollowsRecord`); that the counters add up needs them equated with the jobs
whose worker is past the count (`CountsAddUp`), since counting and changing a
record are two steps. `ServiceImplemented` maps the status of a job to its record or,
when that is gone, to its outcome. A registration is the admission, `Enqueue` the
promise, the two transitions of a worker start and end, and each clean-up forgets a set of
jobs; `StepMaps` says of every other step that the service does not see it. An
admission leaves room in the service because no more jobs are active than
there are threads (`WorkersBounded`).

**API.** `HeadersHonest` follows from an invariant that holds across evictions: a
key that was told to come back has no window that outlasts that moment, and what it
was told is left is still there. Only its own requests open or extend its window, and
those renew the promise. For `BurstBounded` the
invariant gives each admitted request the start of the window it was counted in
(`Dated`): in one window there are never more than the limit, two windows do not
meet, and the request that opens a window does so at its own time, hence twice the
limit needs a full window. `StoreInv` bounds the number of windows, so that an
eviction happens only when all that are stored are alive. `HandlersInv` says of a
slot with files that they are the files of an upload that was accepted and that the
layer is the one it named; `AcceptedIsOneDataset` counts the names of its files.

**Batch and audit command.** `BooksInv` ties every outcome to the future it came
from, and `PoolInv` says that nothing is queued in a batch that is over: Ctrl-C while
results are collected has cancelled it, every other way of leaving has waited for it.
`FilesInv` says that whatever `check` left can be told
from the user's files by its name or folder, for any number of checks before
the command, and `CommandInv` relates exit codes to verdicts.

**Repair.** `RepairInv` holds of a call in progress. While overlaps are erased no
feature has more than it claims, so that what it loses to earlier features was
claimed by one of them (`ClaimInv`), and the features placed so far are disjoint
(`DisjointInv`); from then on features overlap only inside the holes that were
found, or where one of them is to be put back; and in every phase after the
first loop each face is kept by its first claimant. Putting an original back
never takes a claimed face away. `RepairStepInv` proves all this of every step,
once, for any caller. `SessionInv` adds what a session knows between calls. The proof
corrected an earlier statement of `FirstClaimKept`: a feature whose mending
fails takes part with its original, so what it claims is the candidate after the
first loop, not what mending would have produced. `ReportMatchesOutput` follows from
`RepairInv` as well, and is true when GEOS raises at any point: a feature that was put back has
lost its actions and its rejection is reported.

`GapsClosed` is about paths. `GapInv` says that while holes are filled, the ground
covered is what was covered when the holes were found, with the holes visited so
far. Filling a hole then opens no other: holes are parts of what was not covered, so
they nest or stay apart (`HolesNest`), and a part of what is left was a part before
(`FillingOpensNone`). A hole without a target borders no feature, so it lies within one
that was filled (`NoTargetMeansCovered`). Parts are connected sets, stated by closed
subsets, so that no path is ever counted. The length of a ring is a recursive
function over sets of borders; that it has a value, and one only, follows from the least
number of borders for which it had none (`Measured`, `LengthsCount`).

**Fix.** `FixInv` counts the layers in the temporary file against the loop's
counter and says of the first call that every candidate is the feature or its mended
form: under `SafeFixConfig` neither overlaps nor gaps are touched, so that only the
first and the last loop of the repairer run, and `MendingMends` says what the first
does. For these two theorems nothing is needed of the second call: its geometries are
thrown away, and they would be false of a version that wrote them. `OverlapsFlagged`
is about that call. It mends a second time, which must not change what the features
cover, or it would drop slivers instead of reporting overlaps: the parts of a union of
parts are these parts (`PartsOfParts`), so that a mended feature is `Settled`. Then what
the features placed so far cover together is what they covered before (`ErasureInv`),
and a feature that is cut and not emptied says so (`Shown`) until the call returns.

**Files.** `Inv` of `PipelineProofs` says for each stage of a program what stands
in the output and beside it: an output is replaced only by a whole temporary file,
and a program that is past its first check may write there. `CheckProofs` does the
same for many files: what is written was asked for and could be replaced, the files
of layers not yet reached are untouched, and those of layers behind are complete
unless the loop holds an error, which the exit code shows. The audit itself plays no
part in it, whatever it finds.

**Findings.** `AuditInv` says that the result of the layer at hand is that of its
frame and profile, and that all layers behind passed if the worst code is 0. The rest
is a finding's way through the stages. `RawParts` says what the batches of the checks
hold together, `RawSourced` which row or end each finding comes from;
`MergeParts`, `AttachParts` and `ReportedParts` relate what each stage takes to what it
gives; `Survives` and `Harmless` sum it up: every raw finding leaves one behind
with its key, and what a passing layer has left is harmless. The key without severity,
which breaks `BaselineKept`, is why `PassedMeansSound` speaks of the defects it does. For
`EndpointsReportedOnce` a report leads if it is a dangling end before a dead end, and
else from the earliest batch; a batch is of one rule, so one report leads at an
end (`OneLeads`), what is left descends from it (`OneReportLeft`), and a hint is
left only when no undershoot was reported, whose neighbour `TailAssumption` puts in reach
(`UndershootHasNeighbour`).

**Roads.** `RoadInv` says that the groups are disjoint, hold at most one end of a
line and have a radius within the tolerance (`Grouped`), which `AnchorWithin` turns
into the distance of every member to the anchor; and that the lines after each pass
are those before it with their ends moved. The crux is `ArrivedStays`: an end that
went to its anchor stands on the line of another end, so the projection leaves it
where it is, and no end is moved twice. Least elements of sets of numbers exist by
well-founded induction over the naturals (`LeastNat`); from them follow the nearest
place of a line and the nearest line, on which `GapsHaveCauses` rests.

**Connector.** Connectivity is stated by cuts, never by paths: a block is the least set
that no edge leaves (`Closed`), and what a set of connectors joins is known by what it
keeps together (`NetworksByCuts`). `Forested` is the invariant of the loop: a tree has the
ends of every pair considered, what keeps the connectors together keeps every tree
together, connectors and trees add up to the components, and every choice that spans can be
exchanged for one that contains the connectors taken so far and is no longer. The last part
is not in the code and makes the minimum inductive. Its step is `Exchange`: a smallest set
of connectors that joins the ends of the new one has a member across the trees, which the
new one replaces; that member is still a candidate, so the order of the candidates says that
it is no shorter. The length of a choice is the number of its units, so that exchanging
and leaving out connectors is counting (`LengthOfExchange`, `LengthGrows`). Nothing is
assumed of the node tolerance and the ceiling, nor of distances but that they are natural
numbers.

**Spatial.** For a comparison `Matching` says that no feature is in two matches and that
every scored pair is free or has a feature in a match that is no worse: the best free pair
displaces only pairs it shares a feature with. Equal geometries alone reach the full score
(`ScoreShare`), so that a dataset in another order is unchanged. For duplicates
`Collecting` says that every pair of near rows up to now was collected unless the ceiling
was met. A pair the index does not offer has nothing in common (`IouShare`), so that its
similarity lacks the 45 per cent of the intersection and is at most 550 (`FarIsDifferent`);
two long lines side by side come near to that, since their Hausdorff distance is small
against the diagonal of both. `SpatialRepliesHonest` therefore does not say that no
duplicate is lost, but which ones may be: section 6. Conflicts are symmetric in
their layers (`BetweenSymmetric`, `ConflictsReversed`). Least and greatest elements of
finite sets come from `LeastNat` (`Extremes`).

**Streams.** `Streamed` equates what a collector holds after every chunk with what an
audit of the features read so far would report (`AuditedUpTo`, `Ruled`): the places found in a
chunk are those of the dataset from where the chunk begins (`SliceListed`), the places of
a set of numbers are its one increasing listing (`OneListing`, `ListedLists`), and issues
are counted by a bijection between those of a chunk and those that are new (`CountsAdd`). The
findings of a rule are gathered by a recursive function over the results, whose value is
fixed by the least length at which two of them differ (`OneGathering`, `GatheredMore`). The
proof needs that a rule is requested once, as `ChunksAgree` says: one that is requested
twice is merged into one result. It also showed that a rule which raises for one feature
and answers in another's name for the rest raises in some chunks and is an error in one
(`Masked`).

**Only model-checked.** Liveness (`ServicePromise`, `ShutdownCompletes`,
`StagingReclaimed`, `RecordsExpire`, `CommandEnds`), as fairness and `ENABLED` are
beyond the prover. With threads that may fail to start the job theorems do not hold,
`RetentionSafe` and `ExpiredHidden` apart, and `jobs_progress` checks what is left. Nothing here is `RECURSIVE`.

## 6. Where code and documents disagree

1. `jobs_thread_start` (code). `submit` takes any `RuntimeError` of
   `executor.submit` to mean that nothing was queued, deletes the record and
   releases the permit. When a thread cannot be started the item is in the queue
   already: it is counted no more, and more work is admitted than `docs/api.md`
   promises. After a permit was given back twice in this way, the release on an error
   path of a later `submit` raises the `ValueError` of a `BoundedSemaphore`. The route
   handles a full queue and a `RuntimeError` only, so that the upload directory of that
   request stays, although `docs/api.md` says that upload directories are deleted on
   success or failure. `ReleaseRaises` is that step; with three jobs, two workers and
   one queue slot, and without the premise of `StagingReclaimed`, TLC finds it.
2. `audit_batch_startup` (document). `docs/parallel-streaming.md` promises a
   fallback to serial execution when the pool cannot start; there is none, and
   the batch ends with an exception.
3. `fix_review` (comment). The review pass of `geoqc fix` is said to detect every
   overlap. A feature that earlier ones cover whole is emptied by the pass,
   rejected, and its actions are cleared: two identical parcels are written
   without a flag.
4. `baseline_duplicates` (document). The default policy is said to reject exact
   duplicates whatever profile is added. Findings are indexed by a key without
   their severity, and the later one stays: the survey preset's warning about two
   points at one place, or a `no_duplicate` rule of the user's, replaces the error.

Others were met while modelling, follow from reading, and have no run.

*Sessions.* `docs/topology-repair.md` says that every apply snapshots the prior
state, while an apply that changes nothing does not (the tests agree with the
code). A filled gap that contains an island makes the target overlap the island,
which `OverlapsExplained` allows for.

*Audit and gate.* By the same key two missing required columns become one finding,
as do two empty cells of one feature. A `preset` is dropped when the layer's type is not the expected one, and
topology is told as passed although the rules for other layers never ran
(`docs/quality-workflow.md`). `CHANGELOG.md` (line 122) and `docs/quality-workflow.md`
(line 194) promise one canonical gate for `audit`, `batch` and `html-report`; `geoqc audit`
also asks for the states of the checks (`main.py:178`), so that a layer whose only finding
is a repeated vertex, a warning, passes the gate and fails the audit. That verdict is not
in the model. A source that cannot be opened leaves `check` of a
single dataset with a traceback and exit code 1, not the code of `docs/cli.md`; a
null geometry raises an `AttributeError` there.

*Discovery.* `docs/cli.md` (lines 127-128) and `docs/parallel-streaming.md` (lines 41-42)
list `.json` among the suffixes that are audited. `AUDIT_SUFFIXES` (`main.py:92`) lacks it
and has `.fgb`, as the model does: the `zones.json` of the instance is told as skipped
and unsupported, and the exit code is 0. `batch` takes it. `batch` audits the issue
layers of earlier checks, `audit` drops them; `audit` of a folder without datasets exits with 0, `batch` with 2. With
inputs that overlap, a report of `check` is told as skipped and unsupported.
Issue layers under a name of the user's outside `geoqc_output` are audited as
data. A user's own file named like issue layers is left out without a word, and so is
what stands in a folder called `geoqc_output`; that outputs are not audited is tested
(`tests/integration/test_delivery_cli.py`), what happens to files that only look like
them is not. `ExitCodeHonest` names the first as the one reason for silence, besides the
parts of an audited Shapefile. `roads.shp` and `roads.gpkg` in one folder have the same
default outputs.

*Roads.* The documents say that gaps up to the tolerance are closed. An end is
projected on lines as they were before any projection, so that a gap may stay
(`GapsExplained`); two ends at one place may be separated, an end on a line loses
it when the line's own end moves, and a tolerance beyond a line's length lays one
road on another. `snapped_endpoint_count` counts moves that were put back.
`docs/spatial-intelligence.md` says that every component is connected; components
no farther apart than the node tolerance are skipped. A report that cannot be
written leaves the new output with exit code 2.

*Streaming.* ADR 0003 (line 24) says that both engines remain semantically identical. The
reader of GeoParquet applies the scan predicates of its source, the engine in memory
reads the file without them, and the parity tests have none; only callers of the Python
API give a scan. `ChunksAgree` says so: of a filtered source the engines agree unless the
one in memory was chosen. An empty layer is an error when streamed and a success in memory, an
unparsable geometry the reverse, so that `docs/streaming-engine.md` holds only
for other layers; the profile is that of the first 256 features. Offsets, said to
be enforced there, are not checked by `ChunkIterator`; a collector that is used
again goes on where it was; duplicate rule ids are merged in chunks and refused by
no one. A rule that raises without a message turns into a `ValueError` despite
`CONTINUE` (`docs/rule-engine.md`). The Parquet writer may fail to close before it
removes its file (`docs/geoparquet.md`), and refuses the pairs that the pyogrio
reader yields.

*API.* A body that streams past the limit is probably answered with 400 where
`docs/api.md` says 413; both are in the model. Padding lets a file within
`max_upload_bytes` be refused. `X-RateLimit-Remaining` is computed before the
handler runs and sent after it: it is true of the time of the request.

*Spatial.* `docs/enterprise-spatial.md` speaks of overlaps of agencies and of
boundaries, the code reports every pair that touches. Pairs whose envelopes, grown by
the tolerance, do not meet are never compared: at a threshold of 0.55 or less
duplicates may be lost although `truncated` is false (`DuplicatesHonest` says which).
`truncated` is set when as
many candidates as allowed were found, also when there are no more.

## 7. Abstractions

*Jobs.* One client per job. `created_at` and the first `updated_at` are one
reading, since nobody reads the second while a job is queued; the answer 202 is
part of `Enqueue`. The clock never goes back. Token clashes cannot happen, the
code draws again. Events, durations and request counters are left out: other
sums under the same lock.

*API.* Ties between equally old windows are broken by key order in the code and
left open here. Credentials are compared as wholes. Request ids, security
headers, log lines, event counters, a killed process, a directory that cannot be
removed and the parsing of the environment are left out.

*Batch and discovery.* The pool is external. A second Ctrl-C during the wait,
negative worker requests, and estimates of time are left out; so are links to
folders, and Ctrl-C of `geoqc batch`. `geoqc audit` of one dataset with options is
`CheckCommand`.

*Audit.* GEOS is a table of facts. Two lines meet in one junction at most, lines
have one part. A command always resolves a profile. Rules between layers, custom
scoring and the deprecated arguments are reached from Python only and left out;
loops, dangling ends and duplicates that the road analysis also reports are left
out, and so is the rounding of half scores to even. A connection tolerance of
0.01, which replaces a tolerance of zero, is not modelled. Rows of issue layers
and the content of reports are one value, "new".

*Roads.* Noding, provenance, attributes, lengths and quality figures are left
out, and the connector is given the lines as they were repaired, before noding.
The index of ends says nothing that the tolerance does not. A JSON report that
fails is `Report` with an error.

*Streaming.* A feature is one of a few kinds with a list of findings. The predicates of a
scan are their outcome, the rows that are left; its columns, without which a geometry may
be missing, are left out. Readers by extension, columns, encodings and explanations of the
choice are left out. A kill while a file is being written is in
`WriterKilled`.

*Spatial.* The geometries are facts of GEOS; two that `equals` takes for one are one.
Shares are per mille, rounded down, and the lengths of diagonals are whole numbers in the
instance. Of the detector the default weights are modelled. Schema, reference
system and boundary figures, maps and the ranking of repairs are left out.

*Repair.* Nothing of GEOS numerics: areas under epsilon, precision, or the shape
`make_valid` chooses. Slivers are a set of parts, for the area and the thinness
test. `max_shape_shift` is a second guard of the same form as the area budget.
The order of holes is left open. Metrics and messages are left out. Equality of
WKT is equality of geometry, true of text the repairer wrote itself, as every
session made by `open_repair_session` has. The area of an invalid ring is that
of its faces. The log layer of `geoqc fix` is part of `Publish`.

**Not modelled.** Coordinate reference system checks (decisions over metadata that
PROJ and pyogrio read), the benchmark recorder (timings), reports and maps
(layout), the public Python API (wrappers around the components above), the web
application, benchmarks and tools. `PROJECT.json` has them with the others.

## 8. Plan

Done, in this order: jobs (the one component where threads share state), limiter,
batch and audit command, coverage repair with its two callers; then the audit of a
layer with `geoqc check`, discovery, the API around the limiter, road repair and
its connector, streaming and the rule engine, spatial analyses.

Proved, component by component: the jobs and their refinement, sessions with the gaps
they close, fix, the limiter and the API around it, batch and audit command, check and its
findings, the files of the pipelines, the ends of road lines and the
networks their components are joined to, what spatial requests are answered, and that
chunks do not change what an audit reports.

Every safety property that a run checks is proved under the assumptions of section 5.
Liveness stays with TLC.
