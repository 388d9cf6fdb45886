----------------------------- MODULE JobManager -----------------------------
(***************************************************************************)
(* The asynchronous validation jobs of the HTTP API: JobManager            *)
(* (interfaces/api/jobs.py), the two routes that use it (job_routes.py),   *)
(* the clean-up loop and the shutdown of the application's lifespan        *)
(* (app.py), and the counters of MetricsRegistry it feeds (metrics.py).    *)
(*                                                                         *)
(* A job is identified with the POST request that asks for it: token ids   *)
(* are fresh by construction (the loop in submit draws again on a clash).  *)
(* Every step below is what one thread does between two points where       *)
(* another thread can interfere: a lock, the semaphore, the metrics lock,  *)
(* the executor's queue, the file system.                                  *)
(***************************************************************************)
EXTENDS Integers, Sequences, FiniteSets

CONSTANTS
    Jobs,               \* POST requests, and the jobs they ask for
    Polled,             \* the jobs whose client polls the status route
    Workers,            \* job_workers
    QueueCapacity,      \* job_queue_capacity
    MaxRecords,         \* job_max_records
    Retention,          \* job_retention_seconds, in clock ticks
    MaxClock,           \* bound of the model: the last clock reading
    ThreadStartMayFail  \* whether the platform may refuse a new worker thread

ASSUME JobsAssumption == IsFiniteSet(Jobs) /\ Polled \subseteq Jobs
ASSUME SizesAssumption ==
    /\ Workers \in Nat \ {0}
    /\ QueueCapacity \in Nat \ {0}
    /\ MaxRecords \in Nat \ {0}
    /\ Retention \in Nat
    /\ MaxClock \in Nat
ASSUME ThreadStartAssumption == ThreadStartMayFail \in BOOLEAN

VARIABLES
    recordState,    \* JobManager._records: the state of a job, or NoRecord
    updatedAt,      \* JobManager._records: updated_at, 0 without a record
    permits,        \* JobManager._capacity
    workQueue,      \* the executor's queue of work items
    threads,        \* worker threads the executor has started
    shutdown,       \* the executor's shutdown flag
    task,           \* how far the worker is with _run for a job
    outcome,        \* how the job's operation ended
    staged,         \* the jobs whose geoqc-job-* directory exists
    route,          \* where create_validation_job is for a request
    submitCutoff,   \* the local cutoff of the cleanup() inside submit()
    poll,           \* where job_status is for a client
    getCutoff,      \* the local cutoff of the cleanup() inside get()
    seen,           \* the last state a client was told
    cleaner,        \* where the lifespan's cleanup_jobs task is
    cleanerCutoff,  \* the local cutoff of its cleanup()
    phase,          \* where the lifespan is
    jobsTotal,      \* MetricsRegistry._jobs
    now             \* the clock

recordVars == <<recordState, updatedAt>>
executorVars == <<workQueue, threads, shutdown>>
taskVars == <<task, outcome>>
routeVars == <<route, submitCutoff>>
pollVars == <<poll, getCutoff, seen>>
lifespanVars == <<cleaner, cleanerCutoff, phase>>
vars == <<recordVars, permits, executorVars, taskVars, staged, routeVars,
          pollVars, lifespanVars, jobsTotal, now>>

-----------------------------------------------------------------------------
(* Types and helpers *)

Capacity == Workers + QueueCapacity

NoRecord == "no record"
Terminal == {"succeeded", "failed"}
JobState == {"queued", "running"} \cup Terminal

\* The jobs in _records.
Registered == {j \in Jobs : recordState[j] # NoRecord}

\* The phases of _run in which it occupies a worker thread.
ActivePhases == {"picked", "begun", "operating", "operated", "settled", "releasing"}
Active == {j \in Jobs : task[j] \in ActivePhases}

TaskPhases == {"none", "pending"} \cup ActivePhases \cup {"done", "crashed"}

RoutePhases ==
    {"idle", "staging", "sweeping", "swept", "acquired", "registered",
     "counted", "undoRecord", "undoPermit", "refusing", "failing",
     "accepted", "rejected", "errored"}
Answered == {"accepted", "rejected", "errored"}

\* Faulty variants of the definitions below, to show that the properties can fail.
ExpiredAnyState(cutoff) == {j \in Registered : updatedAt[j] < cutoff}
ExpiredOneEarly(cutoff) ==
    {j \in Jobs : recordState[j] \in Terminal /\ updatedAt[j] <= cutoff}
ExpiredOneLate(cutoff) ==
    {j \in Jobs : recordState[j] \in Terminal /\ updatedAt[j] < cutoff - 1}
CutoffOneLate == now - Retention - 1
NoMoveToFailed == {<<"queued", "running">>, <<"running", "succeeded">>}
KeepRecord(j) == UNCHANGED recordVars
ForgetRelease == UNCHANGED permits
RoomForOneMore == Cardinality(Registered) <= MaxRecords
CountQueuedForgotten(r) ==
    /\ route[r] = "registered"
    /\ route' = [route EXCEPT ![r] = "counted"]
    /\ UNCHANGED <<recordVars, permits, executorVars, taskVars, staged, submitCutoff,
                   pollVars, lifespanVars, jobsTotal, now>>
RefuseLeavesFiles(r) ==
    /\ route[r] \in {"refusing", "failing"}
    /\ route' = [route EXCEPT ![r] = IF @ = "refusing" THEN "rejected" ELSE "errored"]
    /\ UNCHANGED <<recordVars, permits, executorVars, taskVars, staged, submitCutoff,
                   pollVars, lifespanVars, jobsTotal, now>>
StopOverlooked == FALSE
EndCloseAtOnce ==
    /\ phase = "closing"
    /\ phase' = "closed"
    /\ UNCHANGED <<recordVars, permits, executorVars, taskVars, staged, routeVars,
                   pollVars, cleaner, cleanerCutoff, jobsTotal, now>>

-----------------------------------------------------------------------------
\* The records cleanup() selects for a cutoff it computed earlier.
Expired(cutoff) ==
    {j \in Jobs : recordState[j] \in Terminal /\ updatedAt[j] < cutoff}

\* cleanup() under the lock.
Sweep(cutoff) ==
    /\ recordState' = [j \in Jobs |-> IF j \in Expired(cutoff) THEN NoRecord
                                                               ELSE recordState[j]]
    /\ updatedAt' = [j \in Jobs |-> IF j \in Expired(cutoff) THEN 0 ELSE updatedAt[j]]

\* The first statement of cleanup(), before it takes the lock.
Cutoff == now - Retention

AllowedMoves ==
    {<<"queued", "running">>, <<"running", "succeeded">>, <<"running", "failed">>}

\* _transition under the lock; it raises unless CanTransition holds (a missing
\* record has no move).
CanTransition(j, state) == <<recordState[j], state>> \in AllowedMoves
Transition(j, state) ==
    /\ recordState' = [recordState EXCEPT ![j] = state]
    /\ updatedAt' = [updatedAt EXCEPT ![j] = now]

DeleteRecord(j) ==
    /\ recordState' = [recordState EXCEPT ![j] = NoRecord]
    /\ updatedAt' = [updatedAt EXCEPT ![j] = 0]

CountState(state) == jobsTotal' = [jobsTotal EXCEPT ![state] = @ + 1]

\* A BoundedSemaphore raises ValueError rather than exceed its initial value.
CanRelease == permits < Capacity
ReleasePermit == CanRelease /\ permits' = permits + 1

RoomForRecord == Cardinality(Registered) < MaxRecords

\* The executor starts a thread when none is idle and there may be one more.
NeedsThread ==
    /\ threads < Workers
    /\ threads <= Cardinality(Active) + Len(workQueue)

-----------------------------------------------------------------------------
(* create_validation_job and JobManager.submit *)

\* mkdtemp; only a server that is up takes a request.
Receive(r) ==
    /\ phase = "serving"
    /\ route[r] = "idle"
    /\ staged' = staged \cup {r}
    /\ route' = [route EXCEPT ![r] = "staging"]
    /\ UNCHANGED <<recordVars, permits, executorVars, taskVars, submitCutoff,
                   pollVars, lifespanVars, jobsTotal, now>>

\* An OSError while writing: the handler removes the directory and raises.
WriteFails(r) ==
    /\ route[r] = "staging"
    /\ staged' = staged \ {r}
    /\ route' = [route EXCEPT ![r] = "errored"]
    /\ UNCHANGED <<recordVars, permits, executorVars, taskVars, submitCutoff,
                   pollVars, lifespanVars, jobsTotal, now>>

\* The files are written; the clean-up at the start of submit begins.
SubmitReadsClock(r) ==
    /\ route[r] = "staging"
    /\ submitCutoff' = [submitCutoff EXCEPT ![r] = Cutoff]
    /\ route' = [route EXCEPT ![r] = "sweeping"]
    /\ UNCHANGED <<recordVars, permits, executorVars, taskVars, staged,
                   pollVars, lifespanVars, jobsTotal, now>>

SubmitSweeps(r) ==
    /\ route[r] = "sweeping"
    /\ Sweep(submitCutoff[r])
    /\ submitCutoff' = [submitCutoff EXCEPT ![r] = 0]
    /\ route' = [route EXCEPT ![r] = "swept"]
    /\ UNCHANGED <<permits, executorVars, taskVars, staged,
                   pollVars, lifespanVars, jobsTotal, now>>

Acquire(r) ==
    /\ route[r] = "swept"
    /\ permits > 0
    /\ permits' = permits - 1
    /\ route' = [route EXCEPT ![r] = "acquired"]
    /\ UNCHANGED <<recordVars, executorVars, taskVars, staged, submitCutoff,
                   pollVars, lifespanVars, jobsTotal, now>>

\* JobQueueFullError("Job queue is full.")
QueueFull(r) ==
    /\ route[r] = "swept"
    /\ permits = 0
    /\ route' = [route EXCEPT ![r] = "refusing"]
    /\ UNCHANGED <<recordVars, permits, executorVars, taskVars, staged, submitCutoff,
                   pollVars, lifespanVars, jobsTotal, now>>

\* created_at is read just before the lock; nothing reads the updated_at of a
\* queued record, so the two readings are one here.
Register(r) ==
    /\ route[r] = "acquired"
    /\ RoomForRecord
    /\ recordState' = [recordState EXCEPT ![r] = "queued"]
    /\ updatedAt' = [updatedAt EXCEPT ![r] = now]
    /\ route' = [route EXCEPT ![r] = "registered"]
    /\ UNCHANGED <<permits, executorVars, taskVars, staged, submitCutoff,
                   pollVars, lifespanVars, jobsTotal, now>>

\* JobQueueFullError("Job registry is full."), raised after giving the permit back.
RegistryFull(r) ==
    /\ route[r] = "acquired"
    /\ ~RoomForRecord
    /\ ReleasePermit
    /\ route' = [route EXCEPT ![r] = "refusing"]
    /\ UNCHANGED <<recordVars, executorVars, taskVars, staged, submitCutoff,
                   pollVars, lifespanVars, jobsTotal, now>>

CountQueued(r) ==
    /\ route[r] = "registered"
    /\ CountState("queued")
    /\ route' = [route EXCEPT ![r] = "counted"]
    /\ UNCHANGED <<recordVars, permits, executorVars, taskVars, staged, submitCutoff,
                   pollVars, lifespanVars, now>>

\* executor.submit returns and the route answers 202 with state "queued".
Enqueue(r) ==
    /\ route[r] = "counted"
    /\ ~shutdown
    /\ workQueue' = Append(workQueue, r)
    /\ threads' = IF NeedsThread THEN threads + 1 ELSE threads
    /\ task' = [task EXCEPT ![r] = "pending"]
    /\ route' = [route EXCEPT ![r] = "accepted"]
    /\ seen' = [seen EXCEPT ![r] = "queued"]
    /\ UNCHANGED <<recordVars, permits, shutdown, outcome, staged, submitCutoff,
                   poll, getCutoff, lifespanVars, jobsTotal, now>>

\* executor.submit raises RuntimeError: "cannot schedule new futures after shutdown".
EnqueueRefused(r) ==
    /\ route[r] = "counted"
    /\ shutdown
    /\ route' = [route EXCEPT ![r] = "undoRecord"]
    /\ UNCHANGED <<recordVars, permits, executorVars, taskVars, staged, submitCutoff,
                   pollVars, lifespanVars, jobsTotal, now>>

\* executor.submit raises RuntimeError: "can't start new thread".  The executor
\* puts the work item in its queue before it starts the thread.
ThreadStartFails(r) ==
    /\ ThreadStartMayFail
    /\ route[r] = "counted"
    /\ ~shutdown
    /\ NeedsThread
    /\ workQueue' = Append(workQueue, r)
    /\ task' = [task EXCEPT ![r] = "pending"]
    /\ route' = [route EXCEPT ![r] = "undoRecord"]
    /\ UNCHANGED <<recordVars, permits, threads, shutdown, outcome, staged,
                   submitCutoff, pollVars, lifespanVars, jobsTotal, now>>

UndoRecord(r) ==
    /\ route[r] = "undoRecord"
    /\ r \in Registered
    /\ DeleteRecord(r)
    /\ route' = [route EXCEPT ![r] = "undoPermit"]
    /\ UNCHANGED <<permits, executorVars, taskVars, staged, submitCutoff,
                   pollVars, lifespanVars, jobsTotal, now>>

\* The deletion raises KeyError: the job ran and its record expired meanwhile.
\* No handler is left for it, neither here nor in the route.
UndoRaises(r) ==
    /\ route[r] = "undoRecord"
    /\ r \notin Registered
    /\ route' = [route EXCEPT ![r] = "errored"]
    /\ UNCHANGED <<recordVars, permits, executorVars, taskVars, staged, submitCutoff,
                   pollVars, lifespanVars, jobsTotal, now>>

UndoPermit(r) ==
    /\ route[r] = "undoPermit"
    /\ ReleasePermit
    /\ route' = [route EXCEPT ![r] = "failing"]
    /\ UNCHANGED <<recordVars, executorVars, taskVars, staged, submitCutoff,
                   pollVars, lifespanVars, jobsTotal, now>>

\* The release on either error path raises ValueError, a permit too many having
\* been given back before.  It is neither a JobQueueFullError nor a RuntimeError,
\* so no handler of the route removes the directory.
ReleaseRaises(r) ==
    /\ \/ route[r] = "acquired" /\ ~RoomForRecord
       \/ route[r] = "undoPermit"
    /\ ~CanRelease
    /\ route' = [route EXCEPT ![r] = "errored"]
    /\ UNCHANGED <<recordVars, permits, executorVars, taskVars, staged, submitCutoff,
                   pollVars, lifespanVars, jobsTotal, now>>

\* The route's two handlers: remove the directory, then 429 or the error.
Refuse(r) ==
    /\ route[r] \in {"refusing", "failing"}
    /\ staged' = staged \ {r}
    /\ route' = [route EXCEPT ![r] = IF @ = "refusing" THEN "rejected" ELSE "errored"]
    /\ UNCHANGED <<recordVars, permits, executorVars, taskVars, submitCutoff,
                   pollVars, lifespanVars, jobsTotal, now>>

Route(r) ==
    \/ WriteFails(r) \/ SubmitReadsClock(r) \/ SubmitSweeps(r)
    \/ Acquire(r) \/ QueueFull(r) \/ Register(r) \/ RegistryFull(r) \/ CountQueued(r)
    \/ Enqueue(r) \/ EnqueueRefused(r) \/ ThreadStartFails(r)
    \/ UndoRecord(r) \/ UndoRaises(r) \/ UndoPermit(r) \/ ReleaseRaises(r)
    \/ Refuse(r)

-----------------------------------------------------------------------------
(* JobManager._run, in a worker thread *)

PickUp ==
    /\ workQueue # <<>>
    /\ Cardinality(Active) < threads
    /\ workQueue' = Tail(workQueue)
    /\ task' = [task EXCEPT ![Head(workQueue)] = "picked"]
    /\ UNCHANGED <<recordVars, permits, threads, shutdown, outcome, staged, routeVars,
                   pollVars, lifespanVars, jobsTotal, now>>

Begin(j) ==
    /\ task[j] = "picked"
    /\ CanTransition(j, "running")
    /\ Transition(j, "running")
    /\ task' = [task EXCEPT ![j] = "begun"]
    /\ UNCHANGED <<permits, executorVars, outcome, staged, routeVars,
                   pollVars, lifespanVars, jobsTotal, now>>

\* The first transition raises (no such record) before the try statement: the
\* work item ends without its finally clause.
BeginRaises(j) ==
    /\ task[j] = "picked"
    /\ ~CanTransition(j, "running")
    /\ task' = [task EXCEPT ![j] = "crashed"]
    /\ UNCHANGED <<recordVars, permits, executorVars, outcome, staged, routeVars,
                   pollVars, lifespanVars, jobsTotal, now>>

CountRunning(j) ==
    /\ task[j] = "begun"
    /\ CountState("running")
    /\ task' = [task EXCEPT ![j] = "operating"]
    /\ UNCHANGED <<recordVars, permits, executorVars, outcome, staged, routeVars,
                   pollVars, lifespanVars, now>>

\* operation(): it reads the staged files and validates them, or raises, as it
\* must without its files; its finally clause removes the directory.
Operate(j) ==
    /\ task[j] = "operating"
    /\ \E o \in IF j \in staged THEN Terminal ELSE {"failed"} :
           outcome' = [outcome EXCEPT ![j] = o]
    /\ staged' = staged \ {j}
    /\ task' = [task EXCEPT ![j] = "operated"]
    /\ UNCHANGED <<recordVars, permits, executorVars, routeVars,
                   pollVars, lifespanVars, jobsTotal, now>>

Settle(j) ==
    /\ task[j] = "operated"
    /\ CanTransition(j, outcome[j])
    /\ Transition(j, outcome[j])
    /\ task' = [task EXCEPT ![j] = "settled"]
    /\ UNCHANGED <<permits, executorVars, outcome, staged, routeVars,
                   pollVars, lifespanVars, jobsTotal, now>>

\* The final transition raises: only the finally clause is left.
SettleRaises(j) ==
    /\ task[j] = "operated"
    /\ ~CanTransition(j, outcome[j])
    /\ task' = [task EXCEPT ![j] = "releasing"]
    /\ UNCHANGED <<recordVars, permits, executorVars, outcome, staged, routeVars,
                   pollVars, lifespanVars, jobsTotal, now>>

\* metrics.job_state; the event and the duration that follow are other counters
\* of the same registry and are left out.
CountOutcome(j) ==
    /\ task[j] = "settled"
    /\ CountState(outcome[j])
    /\ task' = [task EXCEPT ![j] = "releasing"]
    /\ UNCHANGED <<recordVars, permits, executorVars, outcome, staged, routeVars,
                   pollVars, lifespanVars, now>>

\* The ValueError of a release too many ends in the work item's future, which
\* nobody reads.
Release(j) ==
    /\ task[j] = "releasing"
    /\ \/ ReleasePermit
       \/ ~CanRelease /\ UNCHANGED permits
    /\ task' = [task EXCEPT ![j] = "done"]
    /\ UNCHANGED <<recordVars, executorVars, outcome, staged, routeVars,
                   pollVars, lifespanVars, jobsTotal, now>>

Run(j) ==
    \/ Begin(j) \/ BeginRaises(j) \/ CountRunning(j) \/ Operate(j)
    \/ Settle(j) \/ SettleRaises(j) \/ CountOutcome(j) \/ Release(j)

-----------------------------------------------------------------------------
(* job_status and JobManager.get, for a client that has its 202 *)

PollReadsClock(j) ==
    /\ phase = "serving"
    /\ seen[j] # "none"
    /\ poll[j] = "idle"
    /\ getCutoff' = [getCutoff EXCEPT ![j] = Cutoff]
    /\ poll' = [poll EXCEPT ![j] = "sweeping"]
    /\ UNCHANGED <<recordVars, permits, executorVars, taskVars, staged, routeVars,
                   seen, lifespanVars, jobsTotal, now>>

PollSweeps(j) ==
    /\ poll[j] = "sweeping"
    /\ Sweep(getCutoff[j])
    /\ poll' = [poll EXCEPT ![j] = "swept"]
    /\ UNCHANGED <<permits, executorVars, taskVars, staged, routeVars,
                   getCutoff, seen, lifespanVars, jobsTotal, now>>

\* The snapshot, or 404.
PollReads(j) ==
    /\ poll[j] = "swept"
    /\ seen' = [seen EXCEPT ![j] = IF recordState[j] = NoRecord THEN "notFound"
                                                                ELSE recordState[j]]
    /\ getCutoff' = [getCutoff EXCEPT ![j] = 0]
    /\ poll' = [poll EXCEPT ![j] = "idle"]
    /\ UNCHANGED <<recordVars, permits, executorVars, taskVars, staged, routeVars,
                   lifespanVars, jobsTotal, now>>

Poll(j) == PollReadsClock(j) \/ PollSweeps(j) \/ PollReads(j)

-----------------------------------------------------------------------------
(* The lifespan of the application *)

\* stop_cleanup.is_set()
StopSeen == phase # "serving"

\* wait_for times out, whether or not the stop event was set meanwhile.
CleanerTimesOut ==
    /\ cleaner = "waiting"
    /\ cleanerCutoff' = Cutoff
    /\ cleaner' = "sweeping"
    /\ UNCHANGED <<recordVars, permits, executorVars, taskVars, staged, routeVars,
                   pollVars, phase, jobsTotal, now>>

CleanerSweeps ==
    /\ cleaner = "sweeping"
    /\ Sweep(cleanerCutoff)
    /\ cleanerCutoff' = 0
    /\ cleaner' = IF StopSeen THEN "ended" ELSE "waiting"
    /\ UNCHANGED <<permits, executorVars, taskVars, staged, routeVars,
                   pollVars, phase, jobsTotal, now>>

\* The stop event ends the wait, and the loop.
CleanerEnds ==
    /\ cleaner = "waiting"
    /\ StopSeen
    /\ cleaner' = "ended"
    /\ UNCHANGED <<recordVars, permits, executorVars, taskVars, staged, routeVars,
                   pollVars, cleanerCutoff, phase, jobsTotal, now>>

\* The lifespan's finally clause: stop_cleanup.set().  It runs on the event loop,
\* as cleanup() does, so never in the middle of one.
StopServing ==
    /\ phase = "serving"
    /\ cleaner = "waiting"
    /\ phase' = "stopping"
    /\ UNCHANGED <<recordVars, permits, executorVars, taskVars, staged, routeVars,
                   pollVars, cleaner, cleanerCutoff, jobsTotal, now>>

\* await cleanup_task, then the first half of close(): executor.shutdown(...)
BeginClose ==
    /\ phase = "stopping"
    /\ cleaner = "ended"
    /\ shutdown' = TRUE
    /\ phase' = "closing"
    /\ UNCHANGED <<recordVars, permits, workQueue, threads, taskVars, staged, routeVars,
                   pollVars, cleaner, cleanerCutoff, jobsTotal, now>>

\* ... (wait=True, cancel_futures=False): it returns when the threads have ended,
\* which they do once the queue is empty.
EndClose ==
    /\ phase = "closing"
    /\ Active = {}
    /\ threads > 0 => workQueue = <<>>
    /\ phase' = "closed"
    /\ UNCHANGED <<recordVars, permits, executorVars, taskVars, staged, routeVars,
                   pollVars, cleaner, cleanerCutoff, jobsTotal, now>>

Tick ==
    /\ now < MaxClock
    /\ now' = now + 1
    /\ UNCHANGED <<recordVars, permits, executorVars, taskVars, staged, routeVars,
                   pollVars, lifespanVars, jobsTotal>>

\* Nothing is left to do.
Finished ==
    /\ phase = "closed"
    /\ now = MaxClock
    /\ \A r \in Jobs : route[r] \in {"idle"} \cup Answered
    /\ \A j \in Polled : poll[j] = "idle"
    /\ UNCHANGED vars

-----------------------------------------------------------------------------
Init ==
    /\ recordState = [j \in Jobs |-> NoRecord]
    /\ updatedAt = [j \in Jobs |-> 0]
    /\ permits = Capacity
    /\ workQueue = <<>>
    /\ threads = 0
    /\ shutdown = FALSE
    /\ task = [j \in Jobs |-> "none"]
    /\ outcome = [j \in Jobs |-> "none"]
    /\ staged = {}
    /\ route = [j \in Jobs |-> "idle"]
    /\ submitCutoff = [j \in Jobs |-> 0]
    /\ poll = [j \in Jobs |-> "idle"]
    /\ getCutoff = [j \in Jobs |-> 0]
    /\ seen = [j \in Jobs |-> "none"]
    /\ cleaner = "waiting"
    /\ cleanerCutoff = 0
    /\ phase = "serving"
    /\ jobsTotal = [s \in JobState |-> 0]
    /\ now = 0

Next ==
    \/ \E r \in Jobs : Receive(r) \/ Route(r)
    \/ PickUp
    \/ \E j \in Jobs : Run(j)
    \/ \E j \in Polled : Poll(j)
    \/ CleanerTimesOut \/ CleanerSweeps \/ CleanerEnds
    \/ StopServing \/ BeginClose \/ EndClose
    \/ Tick
    \/ Finished

(***************************************************************************)
(* Threads that can run do run, an operation ends, time passes, and        *)
(* wait_for times out.  No client has to send a request or poll, and       *)
(* nobody has to stop the server.                                          *)
(***************************************************************************)
Fairness ==
    /\ \A r \in Jobs : WF_vars(Route(r)) /\ WF_vars(Run(r))
    /\ WF_vars(PickUp)
    /\ WF_vars(CleanerTimesOut) /\ WF_vars(CleanerSweeps) /\ WF_vars(CleanerEnds)
    /\ WF_vars(BeginClose) /\ WF_vars(EndClose)
    /\ WF_vars(Tick)

Spec == Init /\ [][Next]_vars
FairSpec == Spec /\ Fairness

-----------------------------------------------------------------------------
(* Invariants *)

TypeOK ==
    /\ recordState \in [Jobs -> JobState \cup {NoRecord}]
    /\ updatedAt \in [Jobs -> Nat]
    /\ permits \in 0..Capacity
    /\ workQueue \in Seq(Jobs)
    /\ threads \in 0..Workers
    /\ shutdown \in BOOLEAN
    /\ task \in [Jobs -> TaskPhases]
    /\ outcome \in [Jobs -> Terminal \cup {"none"}]
    /\ staged \in SUBSET Jobs
    /\ route \in [Jobs -> RoutePhases]
    /\ submitCutoff \in [Jobs -> Int]
    /\ poll \in [Jobs -> {"idle", "sweeping", "swept"}]
    /\ getCutoff \in [Jobs -> Int]
    /\ seen \in [Jobs -> JobState \cup {"none", "notFound"}]
    /\ cleaner \in {"waiting", "sweeping", "ended"}
    /\ cleanerCutoff \in Int
    /\ phase \in {"serving", "stopping", "closing", "closed"}
    /\ jobsTotal \in [JobState -> Nat]
    /\ now \in Nat

\* Who has taken a permit and not given it back.
PermitHolders ==
    {j \in Jobs : \/ route[j] \in {"acquired", "registered", "counted",
                                   "undoRecord", "undoPermit"}
                  \/ task[j] \in {"pending"} \cup ActivePhases}

(***************************************************************************)
(* Every permit is free or held for exactly one request: no path through   *)
(* submit and _run, the error paths included, loses a permit (the queue    *)
(* would shrink for ever) or gives one back twice.                         *)
(***************************************************************************)
PermitsAccounted == permits + Cardinality(PermitHolders) = Capacity

(***************************************************************************)
(* docs/api.md: "Admission is bounded by worker, queue, and retained-record *)
(* limits": the executor never has more work than workers and queue slots, *)
(* and the registry never more records than its limit.                     *)
(***************************************************************************)
AdmissionBounded ==
    /\ Len(workQueue) + Cardinality(Active) <= Capacity
    /\ Cardinality(Registered) <= MaxRecords

(***************************************************************************)
(* The state a client is shown is the state the work is in: a record says  *)
(* "queued" exactly while its route or the queue still has the job, and    *)
(* "running" exactly while a worker has it.  In particular no record is    *)
(* left behind in a state nobody will ever move it out of, which cleanup() *)
(* would keep for ever.                                                    *)
(***************************************************************************)
RecordFollowsWork ==
    \A j \in Jobs :
        /\ recordState[j] = "queued" <=>
               \/ route[j] \in {"registered", "counted", "undoRecord"}
               \/ task[j] \in {"pending", "picked"}
        /\ recordState[j] = "running" <=> task[j] \in {"begun", "operating", "operated"}
        /\ recordState[j] \in Terminal => recordState[j] = outcome[j]

(***************************************************************************)
(* An isolated upload directory exists exactly while somebody is going to  *)
(* remove it, its route or its operation: none is leaked, and none is      *)
(* taken away from an operation that has yet to read it.                   *)
(***************************************************************************)
StagingOwned ==
    staged = {j \in Jobs : \/ route[j] \notin {"idle"} \cup Answered
                           \/ task[j] \in {"pending", "picked", "begun", "operating"}}

(***************************************************************************)
(* Every scrape of geoqc_jobs_total adds up: the jobs counted as running   *)
(* and not as finished are those a worker is on, and none is counted as    *)
(* running that was not counted as queued.                                 *)
(***************************************************************************)
MetricsAddUp ==
    /\ jobsTotal["running"] - jobsTotal["succeeded"] - jobsTotal["failed"]
           = Cardinality({j \in Jobs : task[j] \in {"operating", "operated", "settled"}})
    /\ jobsTotal["running"] <= jobsTotal["queued"]

(***************************************************************************)
(* When close() has returned, every job that was answered 202 has been     *)
(* run to its end and its upload directory is gone: "Let admitted work     *)
(* reach its operation-level finally cleanup".                             *)
(***************************************************************************)
ClosedIsDrained ==
    phase = "closed" =>
        \A j \in Jobs : route[j] = "accepted" => task[j] = "done" /\ j \notin staged

-----------------------------------------------------------------------------
(* The inductive invariant behind these, while the platform starts threads *)

\* A request is answered 202 exactly when its job is handed to the executor,
\* and no work item dies before its try statement.
RouteAndTask ==
    \A j \in Jobs :
        /\ route[j] = "accepted" <=> task[j] # "none"
        /\ task[j] # "crashed"

\* The queue holds the pending jobs, each once.
QueueIsPending ==
    /\ \A j \in Jobs : task[j] = "pending" <=> \E i \in DOMAIN workQueue : workQueue[i] = j
    /\ \A i, k \in DOMAIN workQueue : workQueue[i] = workQueue[k] => i = k

OutcomeKnown ==
    \A j \in Jobs : outcome[j] = "none" <=>
                        task[j] \in {"none", "pending", "picked", "begun", "operating"}

\* Queued work has a thread to run it; close() finds no work and gets none.
ThreadsServeQueue ==
    /\ workQueue # <<>> => threads > 0
    /\ shutdown <=> phase \in {"closing", "closed"}
    /\ phase = "closed" => Active = {} /\ workQueue = <<>>

RecordsBounded == Cardinality(Registered) <= MaxRecords

WorkInv == RouteAndTask /\ OutcomeKnown /\ RecordFollowsWork /\ StagingOwned
IInv ==
    TypeOK /\ WorkInv /\ QueueIsPending /\ ThreadsServeQueue /\ PermitsAccounted /\ RecordsBounded

-----------------------------------------------------------------------------
(* What no step may do *)

(***************************************************************************)
(* The record of an accepted job leaves the registry only when the job has *)
(* ended and its result has been there for more than the retention period, *)
(* whoever runs cleanup() and however long ago it computed the cutoff.     *)
(***************************************************************************)
Expires(j) == recordState[j] \in Terminal /\ updatedAt[j] + Retention < now
RetentionKept ==
    [][\A j \in Jobs :
          route[j] = "accepted" /\ j \in Registered /\ j \notin Registered' => Expires(j)]_vars

(***************************************************************************)
(* What a client is told never goes backwards: the 202 says "queued", then *)
(* every poll says the same or something later, and "not found" only once  *)
(* the job has ended, never to be found again.                             *)
(***************************************************************************)
Later(state) ==
    CASE state = "none"      -> {"queued"}
      [] state = "queued"    -> {"running", "notFound"} \cup Terminal
      [] state = "running"   -> {"notFound"} \cup Terminal
      [] state \in Terminal  -> {"notFound"}
      [] state = "notFound"  -> {}
ObservedForward ==
    [][\A j \in Jobs :
          seen'[j] # seen[j] =>
              /\ seen'[j] \in Later(seen[j])
              /\ seen'[j] = "notFound" => outcome[j] # "none"]_vars

(***************************************************************************)
(* get() cleans up under one lock and reads under another: a client is     *)
(* never shown a result that had already expired when its poll arrived,    *)
(* although records end, and others clean up with older and newer cutoffs, *)
(* between the two.                                                        *)
(***************************************************************************)
ExpiredNotShown ==
    [][\A j \in Jobs :
          PollReads(j) /\ seen'[j] \in Terminal => updatedAt[j] >= getCutoff[j]]_vars

-----------------------------------------------------------------------------
(* What must happen *)

\* The server that is told to stop does stop: neither the clean-up task nor the
\* workers, nor a request caught in the middle of submit, keep it up.
ShutdownCompletes == phase = "stopping" ~> phase = "closed"

(***************************************************************************)
(* docs/api.md: "isolated upload directories are deleted on success or     *)
(* failure": whatever becomes of a request, and of the executor meanwhile, *)
(* its directory is removed in the end, as long as no permit is given back *)
(* twice.  Once one is, the release on a later error path of submit may    *)
(* raise (ReleaseRaises), and that request's directory stays.              *)
(***************************************************************************)
StagingReclaimed ==
    []PermitsAccounted => \A j \in Jobs : j \in staged ~> j \notin staged

\* A finished job does not stay in memory for ever while the server is up, even
\* if no request comes that would run cleanup().
RecordsExpire ==
    \A j \in Jobs :
        recordState[j] \in Terminal /\ updatedAt[j] + Retention < MaxClock
            ~> recordState[j] = NoRecord \/ phase # "serving"

-----------------------------------------------------------------------------
(* What the job endpoints promise *)

serviceStatus ==
    [j \in Jobs |-> IF recordState[j] # NoRecord THEN recordState[j]
                    ELSE IF outcome[j] = "none" THEN "unknown"
                    ELSE "forgotten"]
serviceTold == {j \in Jobs : seen[j] # "none"}

Service == INSTANCE JobService WITH
    Backlog <- Capacity, MaxRunning <- Workers, MaxRetained <- MaxRecords,
    status <- serviceStatus, told <- serviceTold

(***************************************************************************)
(* The threads, locks and queues together are the service a client sees: a *)
(* job is admitted only while there is room for it, is withdrawn only if   *)
(* nobody was promised it, runs only after its client was answered or      *)
(* about to be, and is forgotten only once it has ended.                   *)
(***************************************************************************)
ImplementsService == Service!Spec

\* Whoever was answered 202 gets a job that ends.
ServicePromise == Service!Promise
=============================================================================
