---------------------------- MODULE ParallelBatch ----------------------------
(***************************************************************************)
(* ParallelBatchExecutor and TaskScheduler (application/parallel): a batch *)
(* of datasets is audited one after the other, or by a pool of worker      *)
(* processes whose results the parent collects as they complete.           *)
(*                                                                         *)
(* The parent, the worker processes and the user's Ctrl-C interleave. What *)
(* a worker computes for a dataset is "clean" or "dirty" (an audit result  *)
(* that passes the quality gate or not) or "failed" (an exception). The    *)
(* pool itself, concurrent.futures.ProcessPoolExecutor, is modelled as the *)
(* executor relies on it: a worker that dies breaks the pool, which fails  *)
(* every unfinished future and refuses later submissions.                  *)
(***************************************************************************)
EXTENDS Integers, Sequences, FiniteSets, FiniteSetsExt, SequencesExt

CONSTANTS
    Requested,          \* values of requested_workers; 0 stands for None
    Cpus,               \* values of cpu_count
    MemoryBudgets,      \* workers the available memory allows; 0: not given
    MaximumWorkers,     \* WorkerPolicy.maximum_workers
    ReserveCpus,        \* WorkerPolicy.reserve_cpus
    WorkersMayDie       \* whether worker processes can die or fail to start

ASSUME BatchAssumption ==
    /\ Requested \subseteq Nat /\ Requested # {}
    /\ Cpus \subseteq Nat /\ Cpus # {}
    /\ MemoryBudgets \subseteq Nat /\ MemoryBudgets # {}
    /\ MaximumWorkers \in Nat \ {0}
    /\ ReserveCpus \in Nat
    /\ WorkersMayDie \in BOOLEAN

VARIABLES
    total,      \* len(tasks)
    workers,    \* the worker count chosen for the run
    phase,      \* where run() is
    leaving,    \* why the pool's with-block is left
    future,     \* the state of each task's future; of its execution when serial
    processes,  \* worker processes started
    broken,     \* the pool's _broken flag
    outcomes,   \* the dict of recorded outcomes
    reported,   \* completed, as last told to the progress observer
    result      \* the items of the BatchResult

parentVars == <<phase, leaving, outcomes, reported, result>>
poolVars == <<future, processes, broken>>
batchVars == <<total, workers, parentVars, poolVars>>

-----------------------------------------------------------------------------
(* Types and helpers *)

Tasks == 0 .. total - 1          \* ParallelTask.sequence
Values == {"clean", "dirty", "failed"}
Unfinished == {"queued", "running"}
Resolved == Values \cup {"broken"}

InState(states) == {t \in Tasks : future[t] \in states}
Recorded == {t \in Tasks : outcomes[t] # "none"}
Smallest(S) == CHOOSE n \in S : \A m \in S : n <= m
Largest(S) == CHOOSE n \in S : \A m \in S : n >= m

\* Faulty variants of the definitions below, to show that the properties can fail.
RecordByArrival(t, value) ==
    /\ outcomes' = [outcomes EXCEPT ![Cardinality(Recorded)] = value]
    /\ reported' = Cardinality(Recorded) + 1
RecordSuccessesOnly(t, value) ==
    IF value = "failed" THEN UNCHANGED <<outcomes, reported>>
    ELSE /\ outcomes' = [outcomes EXCEPT ![t] = value]
         /\ reported' = Cardinality(Recorded) + 1
InterruptKeepsQueue ==
    /\ phase \in {"submitting", "collecting"}
    /\ phase' = "closing"
    /\ leaving' = IF phase = "collecting" THEN "cancelled" ELSE "error"
    /\ UNCHANGED <<total, workers, outcomes, reported, result, poolVars>>

-----------------------------------------------------------------------------
(* scheduler.py *)

\* worker_count; a memory budget that is not given does not bind.
WorkerCount(tasks, requested, cpus, memory) ==
    IF tasks < 1 THEN 1
    ELSE Largest({1, Smallest({tasks,
                               IF requested = 0 THEN MaximumWorkers ELSE requested,
                               MaximumWorkers,
                               Largest({1, Largest({1, cpus}) - ReserveCpus}),
                               IF memory = 0 THEN tasks ELSE memory})})

-----------------------------------------------------------------------------
(* executor.py: the parent *)

\* _ordered: the outcomes by sequence number.
Ordered(f) ==
    LET keys == {t \in Tasks : f[t] # "none"}
        nth(i) == CHOOSE t \in keys : Cardinality({k \in keys : k < t}) = i - 1
    IN  [i \in 1..Cardinality(keys) |-> <<nth(i), f[nth(i)]>>]

\* What run() does with an exception outside the pool: it passes through.
Raise == phase' = "raised" /\ UNCHANGED <<leaving, result>>

\* run: tasks and workers are fixed, the observer is told of the start.
\* An observer that raises here is the first step of SerialRaises or Interrupt.
Plan(tasks) ==
    /\ phase = "planning"
    /\ total' = tasks
    /\ \E requested \in Requested, cpus \in Cpus, memory \in MemoryBudgets :
          workers' = WorkerCount(total', requested, cpus, memory)
    /\ future' = [t \in 0 .. total' - 1 |-> "none"]
    /\ outcomes' = [t \in 0 .. total' - 1 |-> "none"]
    /\ reported' = 0
    /\ phase' = IF total' = 0 THEN "returned" ELSE IF workers' = 1 THEN "serial" ELSE "submitting"
    /\ UNCHANGED <<leaving, result, processes, broken>>

\* An outcome is recorded and the observer is told; it may raise (a closed
\* terminal), which ends the serial run and leaves the pool's with-block.
Record(t, value) ==
    /\ outcomes' = [outcomes EXCEPT ![t] = value]
    /\ reported' = Cardinality(Recorded) + 1

\* _run_serial: the next task in order, executed by the parent itself.
SerialTask(value) ==
    /\ phase = "serial"
    /\ Recorded # Tasks
    /\ LET t == Smallest(Tasks \ Recorded)
       IN  future' = [future EXCEPT ![t] = value] /\ Record(t, value)
    /\ UNCHANGED <<total, workers, phase, leaving, result, processes, broken>>

SerialReturns ==
    /\ phase = "serial"
    /\ Recorded = Tasks
    /\ phase' = "returned"
    /\ result' = Ordered(outcomes)
    /\ UNCHANGED <<total, workers, leaving, outcomes, reported, poolVars>>

\* The observer raises, or Ctrl-C arrives, while the parent works alone.
SerialRaises ==
    /\ phase = "serial"
    /\ Raise
    /\ UNCHANGED <<total, workers, outcomes, reported, poolVars>>

\* pool.submit in the dict comprehension, in task order. A process is started
\* unless one is idle.
Submit ==
    /\ phase = "submitting"
    /\ ~broken
    /\ InState({"none"}) # {}
    /\ future' = [future EXCEPT ![Smallest(InState({"none"}))] = "queued"]
    /\ processes' \in {processes, processes + 1} \cap (1 .. workers)
    /\ UNCHANGED <<total, workers, parentVars, broken>>

\* submit raises: the pool is broken, or the process cannot be started (the work
\* item is queued by then). The comprehension is outside the try statement.
SubmitRaises ==
    /\ phase = "submitting"
    /\ InState({"none"}) # {}
    /\ \/ broken /\ leaving' = "error" /\ UNCHANGED future
       \/ /\ WorkersMayDie
          /\ ~broken
          /\ processes < workers
          /\ leaving' = "startup"
          /\ future' = [future EXCEPT ![Smallest(InState({"none"}))] = "queued"]
    /\ phase' = "closing"
    /\ UNCHANGED <<total, workers, outcomes, reported, result, processes, broken>>

AllSubmitted ==
    /\ phase = "submitting"
    /\ InState({"none"}) = {}
    /\ phase' = "collecting"
    /\ UNCHANGED <<total, workers, leaving, outcomes, reported, result, poolVars>>

\* _from_future: any exception of the future, BrokenProcessPool too, is this
\* dataset's failure.
FromFuture(t) == IF future[t] = "broken" THEN "failed" ELSE future[t]

\* as_completed yields resolved futures in any order.
Yielded(t) == phase = "collecting" /\ future[t] \in Resolved /\ outcomes[t] = "none"

Collect(t) ==
    /\ Yielded(t)
    /\ Record(t, FromFuture(t))
    /\ UNCHANGED <<total, workers, phase, leaving, result, poolVars>>

\* The observer raises when it is told: the with-block is left, nothing is cancelled.
ObserverRaises(t) ==
    /\ Yielded(t)
    /\ Record(t, FromFuture(t))
    /\ phase' = "closing"
    /\ leaving' = "error"
    /\ UNCHANGED <<total, workers, result, poolVars>>

AllCollected ==
    /\ phase = "collecting"
    /\ Recorded = Tasks
    /\ phase' = "closing"
    /\ leaving' = "result"
    /\ UNCHANGED <<total, workers, outcomes, reported, result, poolVars>>

\* Ctrl-C while results are collected: what has not begun is cancelled. During
\* the submissions it leaves the with-block and cancels nothing.
Interrupt ==
    /\ phase \in {"submitting", "collecting"}
    /\ phase' = "closing"
    /\ leaving' = IF phase = "collecting" THEN "cancelled" ELSE "error"
    /\ future' = [t \in Tasks |-> IF phase = "collecting" /\ future[t] = "queued"
                                  THEN "cancelled" ELSE future[t]]
    /\ UNCHANGED <<total, workers, outcomes, reported, result, processes, broken>>

\* shutdown(wait=True) has nothing to wait for: no process was ever started, or
\* every submitted item is resolved.
Drained == processes = 0 \/ InState(Unfinished) = {}

\* The with-block ends. After shutdown(wait=False) the pool has given up its
\* manager thread and the second shutdown no longer waits.
LeavePool ==
    /\ phase = "closing"
    /\ leaving = "cancelled" \/ Drained
    /\ IF leaving = "result"
       THEN phase' = "returned" /\ result' = Ordered(outcomes)
       ELSE phase' = "raised" /\ UNCHANGED result
    /\ UNCHANGED <<total, workers, leaving, outcomes, reported, poolVars>>

-----------------------------------------------------------------------------
(* concurrent.futures.ProcessPoolExecutor *)

\* An item is handed to the workers; it can no longer be cancelled.
Start(t) ==
    /\ processes > 0
    /\ future[t] = "queued"
    /\ future' = [future EXCEPT ![t] = "running"]
    /\ UNCHANGED <<total, workers, parentVars, processes, broken>>

Finish(t, value) ==
    /\ future[t] = "running"
    /\ future' = [future EXCEPT ![t] = value]
    /\ UNCHANGED <<total, workers, parentVars, processes, broken>>

\* What the pool does about a dead worker.
Break ==
    /\ broken' = TRUE
    /\ processes' = 0
    /\ future' = [t \in Tasks |-> IF future[t] \in Unfinished THEN "broken" ELSE future[t]]

WorkerDies ==
    /\ WorkersMayDie
    /\ processes > 0
    /\ Break
    /\ UNCHANGED <<total, workers, parentVars>>

-----------------------------------------------------------------------------
BatchInit ==
    /\ total = 0
    /\ workers = 1
    /\ phase = "planning"
    /\ leaving = "none"
    /\ future = <<>>
    /\ processes = 0
    /\ broken = FALSE
    /\ outcomes = <<>>
    /\ reported = -1
    /\ result = <<>>

BatchNext ==
    \/ SerialReturns \/ SerialRaises \/ \E value \in Values : SerialTask(value)
    \/ Submit \/ SubmitRaises \/ AllSubmitted \/ AllCollected \/ Interrupt \/ LeavePool
    \/ WorkerDies
    \/ \E t \in Tasks : Collect(t) \/ ObserverRaises(t) \/ Start(t) \/ \E value \in Values : Finish(t, value)
=============================================================================
