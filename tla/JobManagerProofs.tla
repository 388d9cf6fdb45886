-------------------------- MODULE JobManagerProofs --------------------------
(* Theorems about JobManager, for every set of jobs and every limit. *)
EXTENDS JobManager, FiniteSetTheorems, SequenceTheorems, TLAPS

-----------------------------------------------------------------------------
(***************************************************************************)
(* Type correctness.  It is inductive by itself.  Beyond the shape of the  *)
(* variables it says that the semaphore stays within its bounds, that the  *)
(* executor never has more threads than workers, and that no counter or    *)
(* clock reading leaves its range.                                         *)
(***************************************************************************)
LEMMA TypeInit == Init => TypeOK
  <1> SUFFICES ASSUME Init PROVE TypeOK
    OBVIOUS
  <1>1. permits \in 0..Capacity /\ threads \in 0..Workers
    BY SizesAssumption DEF Init, Capacity
  <1>2. workQueue \in Seq(Jobs)
    BY DEF Init
  <1>3. recordState \in [Jobs -> JobState \cup {NoRecord}]
    BY DEF Init
  <1>4. outcome \in [Jobs -> Terminal \cup {"none"}]
    BY DEF Init
  <1>5. task \in [Jobs -> TaskPhases] /\ route \in [Jobs -> RoutePhases]
    BY DEF Init, TaskPhases, RoutePhases
  <1>6. seen \in [Jobs -> JobState \cup {"none", "notFound"}]
    BY DEF Init
  <1>7. updatedAt \in [Jobs -> Nat] /\ jobsTotal \in [JobState -> Nat]
    BY DEF Init
  <1>8. /\ submitCutoff \in [Jobs -> Int]
        /\ getCutoff \in [Jobs -> Int]
        /\ poll \in [Jobs -> {"idle", "sweeping", "swept"}]
    BY DEF Init
  <1>9. staged \in SUBSET Jobs /\ cleanerCutoff \in Int /\ now \in Nat
    BY DEF Init
  <1>11. shutdown \in BOOLEAN
    BY Zenon DEF Init
  <1>10. /\ cleaner \in {"waiting", "sweeping", "ended"}
         /\ phase \in {"serving", "stopping", "closing", "closed"}
    BY DEF Init
  <1> QED
    BY <1>1, <1>2, <1>3, <1>4, <1>5, <1>6, <1>7, <1>8, <1>9, <1>10, <1>11 DEF TypeOK

LEMMA TypeNext == TypeOK /\ [Next]_vars => TypeOK'
  <1> SUFFICES ASSUME TypeOK, [Next]_vars PROVE TypeOK'
    OBVIOUS
  <1> USE JobsAssumption, SizesAssumption
  <1> USE DEF TypeOK, recordVars, executorVars, taskVars, routeVars, pollVars, lifespanVars
  <1>1. ASSUME NEW r \in Jobs, Receive(r) PROVE TypeOK'
    <2>1. route' \in [Jobs -> RoutePhases] /\ staged' \in SUBSET Jobs
      BY <1>1 DEF Receive, RoutePhases
    <2> QED
      BY <1>1, <2>1 DEF Receive
  <1>2. ASSUME NEW r \in Jobs, WriteFails(r) PROVE TypeOK'
    BY <1>2 DEF WriteFails, RoutePhases
  <1>3. ASSUME NEW r \in Jobs, SubmitReadsClock(r) PROVE TypeOK'
    BY <1>3 DEF SubmitReadsClock, Cutoff, RoutePhases
  <1>4. ASSUME NEW r \in Jobs, SubmitSweeps(r) PROVE TypeOK'
    BY <1>4 DEF SubmitSweeps, Sweep, Expired, RoutePhases
  <1>5. ASSUME NEW r \in Jobs, Acquire(r) PROVE TypeOK'
    BY <1>5 DEF Acquire, Capacity, RoutePhases
  <1>6. ASSUME NEW r \in Jobs, QueueFull(r) PROVE TypeOK'
    BY <1>6 DEF QueueFull, RoutePhases
  <1>7. ASSUME NEW r \in Jobs, Register(r) PROVE TypeOK'
    BY <1>7 DEF Register, JobState, RoutePhases
  <1>8. ASSUME NEW r \in Jobs, RegistryFull(r) PROVE TypeOK'
    BY <1>8 DEF RegistryFull, ReleasePermit, CanRelease, Capacity, RoutePhases
  <1>9. ASSUME NEW r \in Jobs, CountQueued(r) PROVE TypeOK'
    BY <1>9 DEF CountQueued, CountState, JobState, RoutePhases
  <1>10. ASSUME NEW r \in Jobs, Enqueue(r) PROVE TypeOK'
    BY <1>10 DEF Enqueue, NeedsThread, JobState, RoutePhases, TaskPhases, ActivePhases
  <1>11. ASSUME NEW r \in Jobs, EnqueueRefused(r) PROVE TypeOK'
    BY <1>11 DEF EnqueueRefused, RoutePhases
  <1>12. ASSUME NEW r \in Jobs, ThreadStartFails(r) PROVE TypeOK'
    BY <1>12 DEF ThreadStartFails, RoutePhases, TaskPhases, ActivePhases
  <1>13. ASSUME NEW r \in Jobs, UndoRecord(r) PROVE TypeOK'
    BY <1>13 DEF UndoRecord, DeleteRecord, RoutePhases
  <1>14. ASSUME NEW r \in Jobs, UndoRaises(r) PROVE TypeOK'
    BY <1>14 DEF UndoRaises, RoutePhases
  <1>15. ASSUME NEW r \in Jobs, UndoPermit(r) PROVE TypeOK'
    BY <1>15 DEF UndoPermit, ReleasePermit, CanRelease, Capacity, RoutePhases
  <1>15a. ASSUME NEW r \in Jobs, ReleaseRaises(r) PROVE TypeOK'
    BY <1>15a DEF ReleaseRaises, RoutePhases
  <1>16. ASSUME NEW r \in Jobs, Refuse(r) PROVE TypeOK'
    BY <1>16 DEF Refuse, RoutePhases
  <1>17. ASSUME NEW j \in Jobs, Begin(j) PROVE TypeOK'
    BY <1>17 DEF Begin, Transition, CanTransition, AllowedMoves, Terminal, JobState, TaskPhases, ActivePhases
  <1>18. ASSUME NEW j \in Jobs, BeginRaises(j) PROVE TypeOK'
    BY <1>18 DEF BeginRaises, TaskPhases, ActivePhases
  <1>19. ASSUME NEW j \in Jobs, CountRunning(j) PROVE TypeOK'
    BY <1>19 DEF CountRunning, CountState, JobState, TaskPhases, ActivePhases
  <1>20. ASSUME NEW j \in Jobs, Operate(j) PROVE TypeOK'
    BY <1>20 DEF Operate, Terminal, TaskPhases, ActivePhases
  <1>21. ASSUME NEW j \in Jobs, Settle(j) PROVE TypeOK'
    BY <1>21 DEF Settle, Transition, CanTransition, AllowedMoves, Terminal, JobState, TaskPhases, ActivePhases
  <1>22. ASSUME NEW j \in Jobs, SettleRaises(j) PROVE TypeOK'
    BY <1>22 DEF SettleRaises, TaskPhases, ActivePhases
  <1>23. ASSUME NEW j \in Jobs, CountOutcome(j) PROVE TypeOK'
    <2>1. CASE outcome[j] \in JobState
      BY <1>23, <2>1 DEF CountOutcome, CountState, JobState, TaskPhases, ActivePhases
    <2>2. CASE outcome[j] \notin JobState
      <3>1. jobsTotal' = jobsTotal
        BY <1>23, <2>2 DEF CountOutcome, CountState
      <3> QED
        BY <1>23, <3>1 DEF CountOutcome, TaskPhases, ActivePhases
    <2> QED
      BY <2>1, <2>2
  <1>24. ASSUME NEW j \in Jobs, Release(j) PROVE TypeOK'
    BY <1>24 DEF Release, ReleasePermit, CanRelease, Capacity, TaskPhases, ActivePhases
  <1>25. ASSUME NEW j \in Polled, PollReadsClock(j) PROVE TypeOK'
    BY <1>25 DEF PollReadsClock, Cutoff
  <1>26. ASSUME NEW j \in Polled, PollSweeps(j) PROVE TypeOK'
    BY <1>26 DEF PollSweeps, Sweep, Expired
  <1>27. ASSUME NEW j \in Polled, PollReads(j) PROVE TypeOK'
    BY <1>27 DEF PollReads, JobState
  <1>28. CASE PickUp
    BY <1>28 DEF PickUp, TaskPhases, ActivePhases
  <1>29. CASE CleanerTimesOut
    BY <1>29 DEF CleanerTimesOut, Cutoff
  <1>30. CASE CleanerSweeps
    BY <1>30 DEF CleanerSweeps, Sweep, Expired
  <1>31. CASE CleanerEnds
    BY <1>31 DEF CleanerEnds
  <1>32. CASE StopServing
    BY <1>32 DEF StopServing
  <1>33. CASE BeginClose
    BY <1>33 DEF BeginClose
  <1>34. CASE EndClose
    BY <1>34 DEF EndClose
  <1>35. CASE Tick
    BY <1>35 DEF Tick
  <1>36. CASE Finished
    BY <1>36 DEF Finished, vars
  <1>37. CASE UNCHANGED vars
    BY <1>37 DEF vars
  <1> QED
    BY <1>1, <1>2, <1>3, <1>4, <1>5, <1>6, <1>7, <1>8, <1>9, <1>10, <1>11, <1>12, <1>13, <1>14, <1>15, <1>15a, <1>16, <1>17, <1>18, <1>19, <1>20, <1>21, <1>22, <1>23, <1>24, <1>25, <1>26, <1>27, <1>28, <1>29, <1>30, <1>31, <1>32, <1>33, <1>34, <1>35, <1>36, <1>37 DEF Next, Route, Run, Poll

\* What the type invariant says holds in every reachable state.
THEOREM TypeCorrect == Spec => []TypeOK
  BY TypeInit, TypeNext, PTL DEF Spec

-----------------------------------------------------------------------------
\* The steps of clients that poll, of the lifespan and of the clock, and
\* stuttering: all they do to the jobs is to sweep finished records.
Background ==
    \/ \E j \in Polled : Poll(j)
    \/ CleanerTimesOut \/ CleanerSweeps \/ CleanerEnds
    \/ StopServing \/ BeginClose \/ EndClose
    \/ Tick \/ Finished
    \/ UNCHANGED vars

SweptOrSame(j) == \/ recordState'[j] = recordState[j]
                  \/ recordState[j] \in Terminal /\ recordState'[j] = NoRecord

LEMMA BackgroundFrame ==
  ASSUME TypeOK, Background
  PROVE  /\ UNCHANGED <<permits, workQueue, threads, task, outcome, staged, route>>
         /\ \A j \in Jobs : SweptOrSame(j)
  <1> USE DEF TypeOK, Terminal, NoRecord, SweptOrSame, Sweep, Expired,
              recordVars, executorVars, taskVars, routeVars, pollVars, lifespanVars
  <1>1. CASE \E j \in Polled : Poll(j)
    <2> PICK j \in Polled : Poll(j)
      BY <1>1
    <2>1. CASE PollReadsClock(j) \/ PollReads(j)
      BY <2>1 DEF PollReadsClock, PollReads
    <2>2. CASE PollSweeps(j)
      BY <2>2 DEF PollSweeps
    <2> QED
      BY <2>1, <2>2 DEF Poll
  <1>2. CASE CleanerTimesOut \/ CleanerSweeps \/ CleanerEnds
    BY <1>2 DEF CleanerTimesOut, CleanerSweeps, CleanerEnds
  <1>3. CASE StopServing \/ BeginClose \/ EndClose
    BY <1>3 DEF StopServing, BeginClose, EndClose
  <1>4. CASE Tick \/ Finished \/ UNCHANGED vars
    BY <1>4 DEF Tick, Finished, vars
  <1> QED
    BY <1>1, <1>2, <1>3, <1>4 DEF Background

LEMMA HeadIsPending ==
  ASSUME TypeOK, QueueIsPending, PickUp
  PROVE  Head(workQueue) \in Jobs /\ task[Head(workQueue)] = "pending"
  BY DEF TypeOK, QueueIsPending, PickUp

\* Whoever holds a permit can give it back: the semaphore is not full.
LEMMA HolderCanRelease ==
  ASSUME NEW j \in Jobs, TypeOK, PermitsAccounted, j \in PermitHolders
  PROVE  CanRelease
  <1>1. IsFiniteSet(PermitHolders)
    BY JobsAssumption, FS_Subset DEF PermitHolders
  <1>2. Cardinality(PermitHolders) # 0 /\ Cardinality(PermitHolders) \in Nat
    BY <1>1, FS_EmptySet, FS_CardinalityType
  <1> QED
    BY <1>2, SizesAssumption DEF PermitsAccounted, TypeOK, Capacity, CanRelease

LEMMA StepCases ==
  ASSUME [Next]_vars
  PROVE  \/ \E r \in Jobs :
              \/ Receive(r) \/ WriteFails(r) \/ SubmitReadsClock(r) \/ SubmitSweeps(r)
              \/ Acquire(r) \/ QueueFull(r) \/ Register(r) \/ RegistryFull(r)
              \/ CountQueued(r) \/ Enqueue(r) \/ EnqueueRefused(r)
              \/ ThreadStartFails(r) \/ UndoRecord(r) \/ UndoRaises(r)
              \/ UndoPermit(r) \/ ReleaseRaises(r) \/ Refuse(r)
         \/ \E j \in Jobs : Run(j)
         \/ PickUp
         \/ Background
  BY DEF Next, Route, Background

LEMMA RouteAndTaskNext ==
  ASSUME ~ThreadStartMayFail, TypeOK, WorkInv, QueueIsPending, [Next]_vars
  PROVE  RouteAndTask'
  <1> USE DEF TypeOK, WorkInv, RouteAndTask, executorVars, taskVars, routeVars
  <1>1. ASSUME NEW r \in Jobs, Receive(r) PROVE RouteAndTask'
    BY <1>1 DEF Receive
  <1>2. ASSUME NEW r \in Jobs, WriteFails(r) PROVE RouteAndTask'
    BY <1>2 DEF WriteFails
  <1>3. ASSUME NEW r \in Jobs, SubmitReadsClock(r) PROVE RouteAndTask'
    BY <1>3 DEF SubmitReadsClock
  <1>4. ASSUME NEW r \in Jobs, SubmitSweeps(r) PROVE RouteAndTask'
    BY <1>4 DEF SubmitSweeps
  <1>5. ASSUME NEW r \in Jobs, Acquire(r) PROVE RouteAndTask'
    BY <1>5 DEF Acquire
  <1>6. ASSUME NEW r \in Jobs, QueueFull(r) PROVE RouteAndTask'
    BY <1>6 DEF QueueFull
  <1>7. ASSUME NEW r \in Jobs, Register(r) PROVE RouteAndTask'
    BY <1>7 DEF Register
  <1>8. ASSUME NEW r \in Jobs, RegistryFull(r) PROVE RouteAndTask'
    BY <1>8 DEF RegistryFull
  <1>9. ASSUME NEW r \in Jobs, CountQueued(r) PROVE RouteAndTask'
    BY <1>9 DEF CountQueued
  <1>10. ASSUME NEW r \in Jobs, Enqueue(r) PROVE RouteAndTask'
    BY <1>10 DEF Enqueue
  <1>11. ASSUME NEW r \in Jobs, EnqueueRefused(r) PROVE RouteAndTask'
    BY <1>11 DEF EnqueueRefused
  <1>12. ASSUME NEW r \in Jobs, ThreadStartFails(r) PROVE RouteAndTask'
    BY <1>12 DEF ThreadStartFails
  <1>13. ASSUME NEW r \in Jobs, UndoRecord(r) PROVE RouteAndTask'
    BY <1>13 DEF UndoRecord
  <1>14. ASSUME NEW r \in Jobs, UndoRaises(r) PROVE RouteAndTask'
    BY <1>14 DEF UndoRaises
  <1>15. ASSUME NEW r \in Jobs, UndoPermit(r) PROVE RouteAndTask'
    BY <1>15 DEF UndoPermit
  <1>15a. ASSUME NEW r \in Jobs, ReleaseRaises(r) PROVE RouteAndTask'
    BY <1>15a DEF ReleaseRaises
  <1>16. ASSUME NEW r \in Jobs, Refuse(r) PROVE RouteAndTask'
    BY <1>16 DEF Refuse
  <1>17. ASSUME NEW j \in Jobs, Begin(j) PROVE RouteAndTask'
    BY <1>17 DEF Begin, ActivePhases
  <1>18. ASSUME NEW j \in Jobs, BeginRaises(j) PROVE RouteAndTask'
    BY <1>18 DEF BeginRaises, RecordFollowsWork, CanTransition, AllowedMoves
  <1>19. ASSUME NEW j \in Jobs, CountRunning(j) PROVE RouteAndTask'
    BY <1>19 DEF CountRunning
  <1>20. ASSUME NEW j \in Jobs, Operate(j) PROVE RouteAndTask'
    BY <1>20 DEF Operate
  <1>21. ASSUME NEW j \in Jobs, Settle(j) PROVE RouteAndTask'
    BY <1>21 DEF Settle
  <1>22. ASSUME NEW j \in Jobs, SettleRaises(j) PROVE RouteAndTask'
    BY <1>22 DEF SettleRaises
  <1>23. ASSUME NEW j \in Jobs, CountOutcome(j) PROVE RouteAndTask'
    BY <1>23 DEF CountOutcome
  <1>24. ASSUME NEW j \in Jobs, Release(j) PROVE RouteAndTask'
    BY <1>24 DEF Release
  <1>25. CASE PickUp
    BY <1>25 DEF PickUp, QueueIsPending
  <1>26. CASE Background
    BY <1>26, BackgroundFrame
  <1> QED
    BY StepCases, <1>1, <1>2, <1>3, <1>4, <1>5, <1>6, <1>7, <1>8, <1>9, <1>10,
       <1>11, <1>12, <1>13, <1>14, <1>15, <1>15a, <1>16, <1>17, <1>18, <1>19, <1>20, <1>21,
       <1>22, <1>23, <1>24, <1>25, <1>26
       DEF Run

LEMMA OutcomeKnownNext ==
  ASSUME ~ThreadStartMayFail, TypeOK, WorkInv, QueueIsPending, [Next]_vars
  PROVE  OutcomeKnown'
  <1> USE DEF TypeOK, WorkInv, OutcomeKnown, executorVars, taskVars, routeVars
  <1>1. ASSUME NEW r \in Jobs, Receive(r) PROVE OutcomeKnown'
    BY <1>1 DEF Receive
  <1>2. ASSUME NEW r \in Jobs, WriteFails(r) PROVE OutcomeKnown'
    BY <1>2 DEF WriteFails
  <1>3. ASSUME NEW r \in Jobs, SubmitReadsClock(r) PROVE OutcomeKnown'
    BY <1>3 DEF SubmitReadsClock
  <1>4. ASSUME NEW r \in Jobs, SubmitSweeps(r) PROVE OutcomeKnown'
    BY <1>4 DEF SubmitSweeps
  <1>5. ASSUME NEW r \in Jobs, Acquire(r) PROVE OutcomeKnown'
    BY <1>5 DEF Acquire
  <1>6. ASSUME NEW r \in Jobs, QueueFull(r) PROVE OutcomeKnown'
    BY <1>6 DEF QueueFull
  <1>7. ASSUME NEW r \in Jobs, Register(r) PROVE OutcomeKnown'
    BY <1>7 DEF Register
  <1>8. ASSUME NEW r \in Jobs, RegistryFull(r) PROVE OutcomeKnown'
    BY <1>8 DEF RegistryFull
  <1>9. ASSUME NEW r \in Jobs, CountQueued(r) PROVE OutcomeKnown'
    BY <1>9 DEF CountQueued
  <1>10. ASSUME NEW r \in Jobs, Enqueue(r) PROVE OutcomeKnown'
    BY <1>10 DEF Enqueue, RouteAndTask
  <1>11. ASSUME NEW r \in Jobs, EnqueueRefused(r) PROVE OutcomeKnown'
    BY <1>11 DEF EnqueueRefused
  <1>12. ASSUME NEW r \in Jobs, ThreadStartFails(r) PROVE OutcomeKnown'
    BY <1>12 DEF ThreadStartFails
  <1>13. ASSUME NEW r \in Jobs, UndoRecord(r) PROVE OutcomeKnown'
    BY <1>13 DEF UndoRecord
  <1>14. ASSUME NEW r \in Jobs, UndoRaises(r) PROVE OutcomeKnown'
    BY <1>14 DEF UndoRaises
  <1>15. ASSUME NEW r \in Jobs, UndoPermit(r) PROVE OutcomeKnown'
    BY <1>15 DEF UndoPermit
  <1>15a. ASSUME NEW r \in Jobs, ReleaseRaises(r) PROVE OutcomeKnown'
    BY <1>15a DEF ReleaseRaises
  <1>16. ASSUME NEW r \in Jobs, Refuse(r) PROVE OutcomeKnown'
    BY <1>16 DEF Refuse
  <1>17. ASSUME NEW j \in Jobs, Begin(j) PROVE OutcomeKnown'
    BY <1>17 DEF Begin
  <1>18. ASSUME NEW j \in Jobs, BeginRaises(j) PROVE OutcomeKnown'
    BY <1>18 DEF BeginRaises, RecordFollowsWork, CanTransition, AllowedMoves
  <1>19. ASSUME NEW j \in Jobs, CountRunning(j) PROVE OutcomeKnown'
    BY <1>19 DEF CountRunning
  <1>20. ASSUME NEW j \in Jobs, Operate(j) PROVE OutcomeKnown'
    BY <1>20 DEF Operate, Terminal
  <1>21. ASSUME NEW j \in Jobs, Settle(j) PROVE OutcomeKnown'
    BY <1>21 DEF Settle
  <1>22. ASSUME NEW j \in Jobs, SettleRaises(j) PROVE OutcomeKnown'
    BY <1>22 DEF SettleRaises
  <1>23. ASSUME NEW j \in Jobs, CountOutcome(j) PROVE OutcomeKnown'
    BY <1>23 DEF CountOutcome
  <1>24. ASSUME NEW j \in Jobs, Release(j) PROVE OutcomeKnown'
    BY <1>24 DEF Release
  <1>25. CASE PickUp
    BY <1>25 DEF PickUp, QueueIsPending
  <1>26. CASE Background
    BY <1>26, BackgroundFrame
  <1> QED
    BY StepCases, <1>1, <1>2, <1>3, <1>4, <1>5, <1>6, <1>7, <1>8, <1>9, <1>10,
       <1>11, <1>12, <1>13, <1>14, <1>15, <1>15a, <1>16, <1>17, <1>18, <1>19, <1>20, <1>21,
       <1>22, <1>23, <1>24, <1>25, <1>26
       DEF Run

LEMMA StagingOwnedNext ==
  ASSUME ~ThreadStartMayFail, TypeOK, WorkInv, QueueIsPending, PermitsAccounted, [Next]_vars
  PROVE  StagingOwned'
  <1> USE DEF TypeOK, WorkInv, RouteAndTask, StagingOwned, Answered, executorVars, taskVars, routeVars
  <1>1. ASSUME NEW r \in Jobs, Receive(r) PROVE StagingOwned'
    BY <1>1 DEF Receive
  <1>2. ASSUME NEW r \in Jobs, WriteFails(r) PROVE StagingOwned'
    BY <1>2 DEF WriteFails
  <1>3. ASSUME NEW r \in Jobs, SubmitReadsClock(r) PROVE StagingOwned'
    BY <1>3 DEF SubmitReadsClock
  <1>4. ASSUME NEW r \in Jobs, SubmitSweeps(r) PROVE StagingOwned'
    BY <1>4 DEF SubmitSweeps
  <1>5. ASSUME NEW r \in Jobs, Acquire(r) PROVE StagingOwned'
    BY <1>5 DEF Acquire
  <1>6. ASSUME NEW r \in Jobs, QueueFull(r) PROVE StagingOwned'
    BY <1>6 DEF QueueFull
  <1>7. ASSUME NEW r \in Jobs, Register(r) PROVE StagingOwned'
    BY <1>7 DEF Register
  <1>8. ASSUME NEW r \in Jobs, RegistryFull(r) PROVE StagingOwned'
    BY <1>8 DEF RegistryFull
  <1>9. ASSUME NEW r \in Jobs, CountQueued(r) PROVE StagingOwned'
    BY <1>9 DEF CountQueued
  <1>10. ASSUME NEW r \in Jobs, Enqueue(r) PROVE StagingOwned'
    BY <1>10 DEF Enqueue
  <1>11. ASSUME NEW r \in Jobs, EnqueueRefused(r) PROVE StagingOwned'
    BY <1>11 DEF EnqueueRefused
  <1>12. ASSUME NEW r \in Jobs, ThreadStartFails(r) PROVE StagingOwned'
    BY <1>12 DEF ThreadStartFails
  <1>13. ASSUME NEW r \in Jobs, UndoRecord(r) PROVE StagingOwned'
    BY <1>13 DEF UndoRecord
  <1>14. ASSUME NEW r \in Jobs, UndoRaises(r) PROVE StagingOwned'
    BY <1>14 DEF UndoRaises, RecordFollowsWork, Registered, NoRecord
  <1>15. ASSUME NEW r \in Jobs, UndoPermit(r) PROVE StagingOwned'
    BY <1>15 DEF UndoPermit
  <1>15a. ASSUME NEW r \in Jobs, ReleaseRaises(r) PROVE StagingOwned'
    <2>1. r \in PermitHolders
      BY <1>15a DEF ReleaseRaises, PermitHolders
    <2> QED
      BY <1>15a, <2>1, HolderCanRelease DEF ReleaseRaises
  <1>16. ASSUME NEW r \in Jobs, Refuse(r) PROVE StagingOwned'
    BY <1>16 DEF Refuse
  <1>17. ASSUME NEW j \in Jobs, Begin(j) PROVE StagingOwned'
    BY <1>17 DEF Begin
  <1>18. ASSUME NEW j \in Jobs, BeginRaises(j) PROVE StagingOwned'
    BY <1>18 DEF BeginRaises, RecordFollowsWork, CanTransition, AllowedMoves
  <1>19. ASSUME NEW j \in Jobs, CountRunning(j) PROVE StagingOwned'
    BY <1>19 DEF CountRunning
  <1>20. ASSUME NEW j \in Jobs, Operate(j) PROVE StagingOwned'
    BY <1>20 DEF Operate, Terminal
  <1>21. ASSUME NEW j \in Jobs, Settle(j) PROVE StagingOwned'
    BY <1>21 DEF Settle
  <1>22. ASSUME NEW j \in Jobs, SettleRaises(j) PROVE StagingOwned'
    BY <1>22 DEF SettleRaises
  <1>23. ASSUME NEW j \in Jobs, CountOutcome(j) PROVE StagingOwned'
    BY <1>23 DEF CountOutcome
  <1>24. ASSUME NEW j \in Jobs, Release(j) PROVE StagingOwned'
    BY <1>24 DEF Release
  <1>25. CASE PickUp
    BY <1>25 DEF PickUp, QueueIsPending
  <1>26. CASE Background
    BY <1>26, BackgroundFrame
  <1> QED
    BY StepCases, <1>1, <1>2, <1>3, <1>4, <1>5, <1>6, <1>7, <1>8, <1>9, <1>10,
       <1>11, <1>12, <1>13, <1>14, <1>15, <1>15a, <1>16, <1>17, <1>18, <1>19, <1>20, <1>21,
       <1>22, <1>23, <1>24, <1>25, <1>26
       DEF Run

LEMMA RecordFollowsWorkNext ==
  ASSUME ~ThreadStartMayFail, TypeOK, WorkInv, QueueIsPending, [Next]_vars
  PROVE  RecordFollowsWork'
  <1> USE DEF TypeOK, WorkInv, RouteAndTask, OutcomeKnown, RecordFollowsWork, SweptOrSame, Terminal, NoRecord, recordVars, executorVars, taskVars, routeVars
  <1>1. ASSUME NEW r \in Jobs, Receive(r) PROVE RecordFollowsWork'
    BY <1>1 DEF Receive
  <1>2. ASSUME NEW r \in Jobs, WriteFails(r) PROVE RecordFollowsWork'
    BY <1>2 DEF WriteFails
  <1>3. ASSUME NEW r \in Jobs, SubmitReadsClock(r) PROVE RecordFollowsWork'
    BY <1>3 DEF SubmitReadsClock
  <1>4. ASSUME NEW r \in Jobs, SubmitSweeps(r) PROVE RecordFollowsWork'
    BY <1>4 DEF SubmitSweeps, Sweep, Expired
  <1>5. ASSUME NEW r \in Jobs, Acquire(r) PROVE RecordFollowsWork'
    BY <1>5 DEF Acquire
  <1>6. ASSUME NEW r \in Jobs, QueueFull(r) PROVE RecordFollowsWork'
    BY <1>6 DEF QueueFull
  <1>7. ASSUME NEW r \in Jobs, Register(r) PROVE RecordFollowsWork'
    BY <1>7 DEF Register
  <1>8. ASSUME NEW r \in Jobs, RegistryFull(r) PROVE RecordFollowsWork'
    BY <1>8 DEF RegistryFull
  <1>9. ASSUME NEW r \in Jobs, CountQueued(r) PROVE RecordFollowsWork'
    BY <1>9 DEF CountQueued
  <1>10. ASSUME NEW r \in Jobs, Enqueue(r) PROVE RecordFollowsWork'
    BY <1>10 DEF Enqueue
  <1>11. ASSUME NEW r \in Jobs, EnqueueRefused(r) PROVE RecordFollowsWork'
    BY <1>11 DEF EnqueueRefused
  <1>12. ASSUME NEW r \in Jobs, ThreadStartFails(r) PROVE RecordFollowsWork'
    BY <1>12 DEF ThreadStartFails
  <1>13. ASSUME NEW r \in Jobs, UndoRecord(r) PROVE RecordFollowsWork'
    BY <1>13 DEF UndoRecord, DeleteRecord
  <1>14. ASSUME NEW r \in Jobs, UndoRaises(r) PROVE RecordFollowsWork'
    BY <1>14 DEF UndoRaises, Registered
  <1>15. ASSUME NEW r \in Jobs, UndoPermit(r) PROVE RecordFollowsWork'
    BY <1>15 DEF UndoPermit
  <1>15a. ASSUME NEW r \in Jobs, ReleaseRaises(r) PROVE RecordFollowsWork'
    BY <1>15a DEF ReleaseRaises
  <1>16. ASSUME NEW r \in Jobs, Refuse(r) PROVE RecordFollowsWork'
    BY <1>16 DEF Refuse
  <1>17. ASSUME NEW j \in Jobs, Begin(j) PROVE RecordFollowsWork'
    BY <1>17 DEF Begin, Transition
  <1>18. ASSUME NEW j \in Jobs, BeginRaises(j) PROVE RecordFollowsWork'
    BY <1>18 DEF BeginRaises, CanTransition, AllowedMoves
  <1>19. ASSUME NEW j \in Jobs, CountRunning(j) PROVE RecordFollowsWork'
    BY <1>19 DEF CountRunning
  <1>20. ASSUME NEW j \in Jobs, Operate(j) PROVE RecordFollowsWork'
    <2>1. recordState[j] = "running" /\ recordState' = recordState /\ route' = route
      BY <1>20 DEF Operate
    <2>2. task' = [task EXCEPT ![j] = "operated"]
      BY <1>20 DEF Operate
    <2>3. PICK o : outcome' = [outcome EXCEPT ![j] = o]
      BY <1>20 DEF Operate
    <2>4. ASSUME NEW k \in Jobs, recordState[k] \in Terminal
          PROVE  outcome'[k] = outcome[k]
      BY <2>1, <2>3, <2>4
    <2>5. ASSUME NEW k \in Jobs
          PROVE  /\ task'[k] \in {"pending", "picked"} <=> task[k] \in {"pending", "picked"}
                 /\ task'[k] \in {"begun", "operating", "operated"}
                        <=> task[k] \in {"begun", "operating", "operated"}
      BY <1>20, <2>2 DEF Operate
    <2> HIDE DEF TypeOK, RouteAndTask, OutcomeKnown, SweptOrSame, Terminal
    <2> QED
      BY <2>1, <2>4, <2>5
  <1>21. ASSUME NEW j \in Jobs, Settle(j) PROVE RecordFollowsWork'
    BY <1>21 DEF Settle, Transition, CanTransition, AllowedMoves
  <1>22. ASSUME NEW j \in Jobs, SettleRaises(j) PROVE RecordFollowsWork'
    <2>1. task[j] = "operated"
      BY <1>22 DEF SettleRaises
    <2>2. recordState[j] = "running"
      BY <2>1
    <2>3. outcome[j] # "none"
      BY <2>1
    <2>4. outcome[j] \in Terminal
      <3>1. outcome \in [Jobs -> Terminal \cup {"none"}]
        BY DEF TypeOK
      <3> HIDE DEF TypeOK, WorkInv, RouteAndTask, OutcomeKnown, RecordFollowsWork, Terminal
      <3> QED
        BY <2>3, <3>1
    <2> QED
      BY <1>22, <2>2, <2>4 DEF SettleRaises, CanTransition, AllowedMoves
  <1>23. ASSUME NEW j \in Jobs, CountOutcome(j) PROVE RecordFollowsWork'
    BY <1>23 DEF CountOutcome
  <1>24. ASSUME NEW j \in Jobs, Release(j) PROVE RecordFollowsWork'
    BY <1>24 DEF Release
  <1>25. CASE PickUp
    <2>1. /\ task[Head(workQueue)] = "pending"
          /\ Head(workQueue) \in Jobs
      BY <1>25, HeadIsPending
    <2>2. /\ task' = [task EXCEPT ![Head(workQueue)] = "picked"]
          /\ UNCHANGED <<recordState, outcome, route>>
      BY <1>25 DEF PickUp
    <2> QED
      BY <2>1, <2>2
  <1>26. CASE Background
    <2>1. UNCHANGED <<task, outcome, route>>
      BY <1>26, BackgroundFrame
    <2>2. ASSUME NEW j \in Jobs
          PROVE  /\ recordState'[j] = "queued" <=> recordState[j] = "queued"
                 /\ recordState'[j] = "running" <=> recordState[j] = "running"
                 /\ recordState'[j] \in Terminal => recordState'[j] = recordState[j]
      <3>1. SweptOrSame(j)
        BY <1>26, BackgroundFrame
      <3> QED
        BY <3>1
    <2>3. ASSUME NEW j \in Jobs
          PROVE  /\ recordState[j] = "queued" <=>
                        \/ route[j] \in {"registered", "counted", "undoRecord"}
                        \/ task[j] \in {"pending", "picked"}
                 /\ recordState[j] = "running" <=> task[j] \in {"begun", "operating", "operated"}
                 /\ recordState[j] \in Terminal => recordState[j] = outcome[j]
      OBVIOUS
    <2> HIDE DEF TypeOK, RouteAndTask, OutcomeKnown, SweptOrSame, Terminal
    <2> QED
      BY <2>1, <2>2, <2>3
  <1> QED
    BY StepCases, <1>1, <1>2, <1>3, <1>4, <1>5, <1>6, <1>7, <1>8, <1>9, <1>10,
       <1>11, <1>12, <1>13, <1>14, <1>15, <1>15a, <1>16, <1>17, <1>18, <1>19, <1>20, <1>21,
       <1>22, <1>23, <1>24, <1>25, <1>26
       DEF Run

LEMMA QueueIsPendingNext ==
  ASSUME ~ThreadStartMayFail, TypeOK, WorkInv, QueueIsPending, [Next]_vars
  PROVE  QueueIsPending'
  <1> USE DEF TypeOK, QueueIsPending, executorVars, taskVars, routeVars
  <1>1. ASSUME NEW r \in Jobs, Receive(r) PROVE QueueIsPending'
    BY <1>1 DEF Receive
  <1>2. ASSUME NEW r \in Jobs, WriteFails(r) PROVE QueueIsPending'
    BY <1>2 DEF WriteFails
  <1>3. ASSUME NEW r \in Jobs, SubmitReadsClock(r) PROVE QueueIsPending'
    BY <1>3 DEF SubmitReadsClock
  <1>4. ASSUME NEW r \in Jobs, SubmitSweeps(r) PROVE QueueIsPending'
    BY <1>4 DEF SubmitSweeps
  <1>5. ASSUME NEW r \in Jobs, Acquire(r) PROVE QueueIsPending'
    BY <1>5 DEF Acquire
  <1>6. ASSUME NEW r \in Jobs, QueueFull(r) PROVE QueueIsPending'
    BY <1>6 DEF QueueFull
  <1>7. ASSUME NEW r \in Jobs, Register(r) PROVE QueueIsPending'
    BY <1>7 DEF Register
  <1>8. ASSUME NEW r \in Jobs, RegistryFull(r) PROVE QueueIsPending'
    BY <1>8 DEF RegistryFull
  <1>9. ASSUME NEW r \in Jobs, CountQueued(r) PROVE QueueIsPending'
    BY <1>9 DEF CountQueued
  <1>10. ASSUME NEW r \in Jobs, Enqueue(r) PROVE QueueIsPending'
    <2>1. /\ workQueue' = Append(workQueue, r)
          /\ task' = [task EXCEPT ![r] = "pending"]
          /\ task[r] = "none"
      BY <1>10 DEF Enqueue, WorkInv, RouteAndTask
    <2>2. \A i \in DOMAIN workQueue : workQueue[i] # r
      BY <2>1
    <2>3. workQueue \in Seq(Jobs) /\ Len(workQueue) \in Nat
      OBVIOUS
    <2>4. \A j \in Jobs : task'[j] = "pending" <=> (j = r \/ task[j] = "pending")
      BY <2>1
    <2>5. \A j \in Jobs : task[j] = "pending" <=> \E i \in DOMAIN workQueue : workQueue[i] = j
      OBVIOUS
    <2>6. \A i, k \in DOMAIN workQueue : workQueue[i] = workQueue[k] => i = k
      OBVIOUS
    <2> HIDE DEF TypeOK, QueueIsPending
    <2>7. /\ DOMAIN workQueue = 1..Len(workQueue)
          /\ DOMAIN workQueue' = 1..(Len(workQueue) + 1)
          /\ \A i \in 1..Len(workQueue) : workQueue'[i] = workQueue[i]
          /\ workQueue'[Len(workQueue) + 1] = r
      BY <2>1, <2>3
    <2>8. ASSUME NEW j \in Jobs
          PROVE  task'[j] = "pending" <=> \E i \in DOMAIN workQueue' : workQueue'[i] = j
      BY <2>2, <2>3, <2>4, <2>5, <2>7
    <2>9. ASSUME NEW i \in DOMAIN workQueue', NEW k \in DOMAIN workQueue',
                 workQueue'[i] = workQueue'[k]
          PROVE  i = k
      BY <2>2, <2>3, <2>6, <2>7, <2>9
    <2> QED
      BY <2>8, <2>9 DEF QueueIsPending
  <1>11. ASSUME NEW r \in Jobs, EnqueueRefused(r) PROVE QueueIsPending'
    BY <1>11 DEF EnqueueRefused
  <1>12. ASSUME NEW r \in Jobs, ThreadStartFails(r) PROVE QueueIsPending'
    BY <1>12 DEF ThreadStartFails
  <1>13. ASSUME NEW r \in Jobs, UndoRecord(r) PROVE QueueIsPending'
    BY <1>13 DEF UndoRecord
  <1>14. ASSUME NEW r \in Jobs, UndoRaises(r) PROVE QueueIsPending'
    BY <1>14 DEF UndoRaises
  <1>15. ASSUME NEW r \in Jobs, UndoPermit(r) PROVE QueueIsPending'
    BY <1>15 DEF UndoPermit
  <1>15a. ASSUME NEW r \in Jobs, ReleaseRaises(r) PROVE QueueIsPending'
    BY <1>15a DEF ReleaseRaises
  <1>16. ASSUME NEW r \in Jobs, Refuse(r) PROVE QueueIsPending'
    BY <1>16 DEF Refuse
  <1>17. ASSUME NEW j \in Jobs, Begin(j) PROVE QueueIsPending'
    BY <1>17 DEF Begin
  <1>18. ASSUME NEW j \in Jobs, BeginRaises(j) PROVE QueueIsPending'
    BY <1>18 DEF BeginRaises
  <1>19. ASSUME NEW j \in Jobs, CountRunning(j) PROVE QueueIsPending'
    BY <1>19 DEF CountRunning
  <1>20. ASSUME NEW j \in Jobs, Operate(j) PROVE QueueIsPending'
    BY <1>20 DEF Operate
  <1>21. ASSUME NEW j \in Jobs, Settle(j) PROVE QueueIsPending'
    BY <1>21 DEF Settle
  <1>22. ASSUME NEW j \in Jobs, SettleRaises(j) PROVE QueueIsPending'
    BY <1>22 DEF SettleRaises
  <1>23. ASSUME NEW j \in Jobs, CountOutcome(j) PROVE QueueIsPending'
    BY <1>23 DEF CountOutcome
  <1>24. ASSUME NEW j \in Jobs, Release(j) PROVE QueueIsPending'
    BY <1>24 DEF Release
  <1>25. CASE PickUp
    <2> DEFINE h == Head(workQueue)
    <2>1. /\ h \in Jobs /\ task[h] = "pending"
          /\ task' = [task EXCEPT ![h] = "picked"]
          /\ workQueue' = Tail(workQueue) /\ workQueue # <<>>
      BY <1>25, HeadIsPending DEF PickUp
    <2>2. workQueue \in Seq(Jobs) /\ Len(workQueue) \in Nat
      OBVIOUS
    <2>3. \A j \in Jobs : task'[j] = "pending" <=> (j # h /\ task[j] = "pending")
      BY <2>1
    <2>4. \A j \in Jobs : task[j] = "pending" <=> \E i \in DOMAIN workQueue : workQueue[i] = j
      OBVIOUS
    <2>5. \A i, k \in DOMAIN workQueue : workQueue[i] = workQueue[k] => i = k
      OBVIOUS
    <2>6. h = workQueue[1] /\ Len(workQueue) > 0
      BY <2>1, <2>2
    <2> HIDE DEF h, TypeOK, QueueIsPending
    <2>7. /\ DOMAIN workQueue = 1..Len(workQueue)
          /\ DOMAIN workQueue' = 1..(Len(workQueue) - 1)
          /\ \A i \in 1..(Len(workQueue) - 1) : workQueue'[i] = workQueue[i + 1]
      BY <2>1, <2>2, <2>6
    <2>8. ASSUME NEW i \in DOMAIN workQueue'
          PROVE  i + 1 \in DOMAIN workQueue /\ workQueue'[i] # h
      BY <2>2, <2>5, <2>6, <2>7
    <2>9. ASSUME NEW i \in DOMAIN workQueue, workQueue[i] # h
          PROVE  i - 1 \in DOMAIN workQueue' /\ workQueue'[i - 1] = workQueue[i]
      BY <2>2, <2>6, <2>7, <2>9
    <2>10. ASSUME NEW j \in Jobs
           PROVE  task'[j] = "pending" <=> \E i \in DOMAIN workQueue' : workQueue'[i] = j
      BY <2>3, <2>4, <2>7, <2>8, <2>9
    <2>11. ASSUME NEW i \in DOMAIN workQueue', NEW k \in DOMAIN workQueue',
                  workQueue'[i] = workQueue'[k]
           PROVE  i = k
      BY <2>2, <2>5, <2>7, <2>8, <2>11
    <2> QED
      BY <2>10, <2>11 DEF QueueIsPending
  <1>26. CASE Background
    BY <1>26, BackgroundFrame
  <1> QED
    BY StepCases, <1>1, <1>2, <1>3, <1>4, <1>5, <1>6, <1>7, <1>8, <1>9, <1>10,
       <1>11, <1>12, <1>13, <1>14, <1>15, <1>15a, <1>16, <1>17, <1>18, <1>19, <1>20, <1>21,
       <1>22, <1>23, <1>24, <1>25, <1>26
       DEF Run

LEMMA ThreadsServeQueueNext ==
  ASSUME ~ThreadStartMayFail, TypeOK, ThreadsServeQueue, [Next]_vars
  PROVE  ThreadsServeQueue'
  <1> USE DEF TypeOK, ThreadsServeQueue, Active, ActivePhases, executorVars, taskVars, routeVars, pollVars, lifespanVars
  <1>1. ASSUME NEW r \in Jobs, Receive(r) PROVE ThreadsServeQueue'
    BY <1>1 DEF Receive
  <1>2. ASSUME NEW r \in Jobs, WriteFails(r) PROVE ThreadsServeQueue'
    BY <1>2 DEF WriteFails
  <1>3. ASSUME NEW r \in Jobs, SubmitReadsClock(r) PROVE ThreadsServeQueue'
    BY <1>3 DEF SubmitReadsClock
  <1>4. ASSUME NEW r \in Jobs, SubmitSweeps(r) PROVE ThreadsServeQueue'
    BY <1>4 DEF SubmitSweeps
  <1>5. ASSUME NEW r \in Jobs, Acquire(r) PROVE ThreadsServeQueue'
    BY <1>5 DEF Acquire
  <1>6. ASSUME NEW r \in Jobs, QueueFull(r) PROVE ThreadsServeQueue'
    BY <1>6 DEF QueueFull
  <1>7. ASSUME NEW r \in Jobs, Register(r) PROVE ThreadsServeQueue'
    BY <1>7 DEF Register
  <1>8. ASSUME NEW r \in Jobs, RegistryFull(r) PROVE ThreadsServeQueue'
    BY <1>8 DEF RegistryFull
  <1>9. ASSUME NEW r \in Jobs, CountQueued(r) PROVE ThreadsServeQueue'
    BY <1>9 DEF CountQueued
  <1>10. ASSUME NEW r \in Jobs, Enqueue(r) PROVE ThreadsServeQueue'
    <2>1. IsFiniteSet(Active)
      BY JobsAssumption, FS_Subset
    <2>2. Cardinality(Active) \in Nat
      BY <2>1, FS_CardinalityType
    <2>3. threads' > 0
      BY <1>10, <2>2, SizesAssumption DEF Enqueue, NeedsThread
    <2> QED
      BY <1>10, <2>3 DEF Enqueue
  <1>11. ASSUME NEW r \in Jobs, EnqueueRefused(r) PROVE ThreadsServeQueue'
    BY <1>11 DEF EnqueueRefused
  <1>12. ASSUME NEW r \in Jobs, ThreadStartFails(r) PROVE ThreadsServeQueue'
    BY <1>12 DEF ThreadStartFails
  <1>13. ASSUME NEW r \in Jobs, UndoRecord(r) PROVE ThreadsServeQueue'
    BY <1>13 DEF UndoRecord
  <1>14. ASSUME NEW r \in Jobs, UndoRaises(r) PROVE ThreadsServeQueue'
    BY <1>14 DEF UndoRaises
  <1>15. ASSUME NEW r \in Jobs, UndoPermit(r) PROVE ThreadsServeQueue'
    BY <1>15 DEF UndoPermit
  <1>15a. ASSUME NEW r \in Jobs, ReleaseRaises(r) PROVE ThreadsServeQueue'
    BY <1>15a DEF ReleaseRaises
  <1>16. ASSUME NEW r \in Jobs, Refuse(r) PROVE ThreadsServeQueue'
    BY <1>16 DEF Refuse
  <1>17. ASSUME NEW j \in Jobs, Begin(j) PROVE ThreadsServeQueue'
    BY <1>17 DEF Begin
  <1>18. ASSUME NEW j \in Jobs, BeginRaises(j) PROVE ThreadsServeQueue'
    BY <1>18 DEF BeginRaises
  <1>19. ASSUME NEW j \in Jobs, CountRunning(j) PROVE ThreadsServeQueue'
    BY <1>19 DEF CountRunning
  <1>20. ASSUME NEW j \in Jobs, Operate(j) PROVE ThreadsServeQueue'
    BY <1>20 DEF Operate
  <1>21. ASSUME NEW j \in Jobs, Settle(j) PROVE ThreadsServeQueue'
    BY <1>21 DEF Settle
  <1>22. ASSUME NEW j \in Jobs, SettleRaises(j) PROVE ThreadsServeQueue'
    BY <1>22 DEF SettleRaises
  <1>23. ASSUME NEW j \in Jobs, CountOutcome(j) PROVE ThreadsServeQueue'
    BY <1>23 DEF CountOutcome
  <1>24. ASSUME NEW j \in Jobs, Release(j) PROVE ThreadsServeQueue'
    BY <1>24 DEF Release
  <1>25. CASE PickUp
    BY <1>25 DEF PickUp
  <1>26. CASE Background
    <2>1. CASE (\E j \in Polled : Poll(j)) \/ CleanerTimesOut \/ CleanerSweeps \/ CleanerEnds
      BY <2>1 DEF Poll, PollReadsClock, PollSweeps, PollReads,
                  CleanerTimesOut, CleanerSweeps, CleanerEnds
    <2>2. CASE StopServing
      BY <2>2 DEF StopServing
    <2>3. CASE BeginClose
      BY <2>3 DEF BeginClose
    <2>4. CASE EndClose
      BY <2>4 DEF EndClose
    <2>5. CASE Tick \/ Finished \/ UNCHANGED vars
      BY <2>5 DEF Tick, Finished, vars
    <2> QED
      BY <1>26, <2>1, <2>2, <2>3, <2>4, <2>5 DEF Background
  <1> QED
    BY StepCases, <1>1, <1>2, <1>3, <1>4, <1>5, <1>6, <1>7, <1>8, <1>9, <1>10,
       <1>11, <1>12, <1>13, <1>14, <1>15, <1>15a, <1>16, <1>17, <1>18, <1>19, <1>20, <1>21,
       <1>22, <1>23, <1>24, <1>25, <1>26
       DEF Run

\* The request or job j takes a permit that was free.
LEMMA OneMoreHolder ==
  ASSUME NEW j \in Jobs, TypeOK, PermitsAccounted, j \notin PermitHolders,
         permits' = permits - 1, PermitHolders' = PermitHolders \cup {j}
  PROVE  PermitsAccounted'
  <1>1. IsFiniteSet(PermitHolders)
    BY JobsAssumption, FS_Subset DEF PermitHolders
  <1>2. Cardinality(PermitHolders') = Cardinality(PermitHolders) + 1
    BY <1>1, FS_AddElement
  <1>3. Cardinality(PermitHolders) \in Nat
    BY <1>1, FS_CardinalityType
  <1> QED
    BY <1>2, <1>3, SizesAssumption DEF PermitsAccounted, TypeOK, Capacity

\* A holder gives its permit back.
LEMMA OneHolderLess ==
  ASSUME NEW j \in Jobs, TypeOK, PermitsAccounted, j \in PermitHolders,
         ReleasePermit, PermitHolders' = PermitHolders \ {j}
  PROVE  PermitsAccounted'
  <1>1. IsFiniteSet(PermitHolders)
    BY JobsAssumption, FS_Subset DEF PermitHolders
  <1>2. Cardinality(PermitHolders') = Cardinality(PermitHolders) - 1
    BY <1>1, FS_RemoveElement
  <1>3. Cardinality(PermitHolders) \in Nat /\ Cardinality(PermitHolders') \in Nat
    BY <1>1, FS_CardinalityType, FS_Subset
  <1> QED
    BY <1>2, <1>3, SizesAssumption DEF PermitsAccounted, TypeOK, Capacity, ReleasePermit

LEMMA PermitsAccountedNext ==
  ASSUME ~ThreadStartMayFail, TypeOK, WorkInv, QueueIsPending, PermitsAccounted, [Next]_vars
  PROVE  PermitsAccounted'
  <1> USE DEF TypeOK, WorkInv, RouteAndTask, PermitHolders, ActivePhases, executorVars, taskVars, routeVars
  <1>1. ASSUME NEW r \in Jobs, Receive(r) PROVE PermitsAccounted'
    <2>1. PermitHolders' = PermitHolders /\ permits' = permits
      BY <1>1 DEF Receive
    <2> QED
      BY <2>1 DEF PermitsAccounted
  <1>2. ASSUME NEW r \in Jobs, WriteFails(r) PROVE PermitsAccounted'
    <2>1. PermitHolders' = PermitHolders /\ permits' = permits
      BY <1>2 DEF WriteFails
    <2> QED
      BY <2>1 DEF PermitsAccounted
  <1>3. ASSUME NEW r \in Jobs, SubmitReadsClock(r) PROVE PermitsAccounted'
    <2>1. PermitHolders' = PermitHolders /\ permits' = permits
      BY <1>3 DEF SubmitReadsClock
    <2> QED
      BY <2>1 DEF PermitsAccounted
  <1>4. ASSUME NEW r \in Jobs, SubmitSweeps(r) PROVE PermitsAccounted'
    <2>1. PermitHolders' = PermitHolders /\ permits' = permits
      BY <1>4 DEF SubmitSweeps
    <2> QED
      BY <2>1 DEF PermitsAccounted
  <1>5. ASSUME NEW r \in Jobs, Acquire(r) PROVE PermitsAccounted'
    <2>1. r \notin PermitHolders /\ permits' = permits - 1
      BY <1>5 DEF Acquire
    <2>2. PermitHolders' = PermitHolders \cup {r}
      BY <1>5 DEF Acquire
    <2> QED
      BY <2>1, <2>2, OneMoreHolder
  <1>6. ASSUME NEW r \in Jobs, QueueFull(r) PROVE PermitsAccounted'
    <2>1. PermitHolders' = PermitHolders /\ permits' = permits
      BY <1>6 DEF QueueFull
    <2> QED
      BY <2>1 DEF PermitsAccounted
  <1>7. ASSUME NEW r \in Jobs, Register(r) PROVE PermitsAccounted'
    <2>1. PermitHolders' = PermitHolders /\ permits' = permits
      BY <1>7 DEF Register
    <2> QED
      BY <2>1 DEF PermitsAccounted
  <1>8. ASSUME NEW r \in Jobs, RegistryFull(r) PROVE PermitsAccounted'
    <2>1. r \in PermitHolders /\ ReleasePermit
      BY <1>8 DEF RegistryFull
    <2>2. PermitHolders' = PermitHolders \ {r}
      BY <1>8 DEF RegistryFull
    <2> QED
      BY <2>1, <2>2, OneHolderLess
  <1>9. ASSUME NEW r \in Jobs, CountQueued(r) PROVE PermitsAccounted'
    <2>1. PermitHolders' = PermitHolders /\ permits' = permits
      BY <1>9 DEF CountQueued
    <2> QED
      BY <2>1 DEF PermitsAccounted
  <1>10. ASSUME NEW r \in Jobs, Enqueue(r) PROVE PermitsAccounted'
    <2>1. PermitHolders' = PermitHolders /\ permits' = permits
      BY <1>10 DEF Enqueue
    <2> QED
      BY <2>1 DEF PermitsAccounted
  <1>11. ASSUME NEW r \in Jobs, EnqueueRefused(r) PROVE PermitsAccounted'
    <2>1. PermitHolders' = PermitHolders /\ permits' = permits
      BY <1>11 DEF EnqueueRefused
    <2> QED
      BY <2>1 DEF PermitsAccounted
  <1>12. ASSUME NEW r \in Jobs, ThreadStartFails(r) PROVE PermitsAccounted'
    <2>1. PermitHolders' = PermitHolders /\ permits' = permits
      BY <1>12 DEF ThreadStartFails
    <2> QED
      BY <2>1 DEF PermitsAccounted
  <1>13. ASSUME NEW r \in Jobs, UndoRecord(r) PROVE PermitsAccounted'
    <2>1. PermitHolders' = PermitHolders /\ permits' = permits
      BY <1>13 DEF UndoRecord
    <2> QED
      BY <2>1 DEF PermitsAccounted
  <1>14. ASSUME NEW r \in Jobs, UndoRaises(r) PROVE PermitsAccounted'
    BY <1>14 DEF UndoRaises, RecordFollowsWork, Registered, NoRecord
  <1>15. ASSUME NEW r \in Jobs, UndoPermit(r) PROVE PermitsAccounted'
    <2>1. r \in PermitHolders /\ ReleasePermit
      BY <1>15 DEF UndoPermit
    <2>2. PermitHolders' = PermitHolders \ {r}
      BY <1>15 DEF UndoPermit
    <2> QED
      BY <2>1, <2>2, OneHolderLess
  <1>15a. ASSUME NEW r \in Jobs, ReleaseRaises(r) PROVE PermitsAccounted'
    <2>1. r \in PermitHolders
      BY <1>15a DEF ReleaseRaises, PermitHolders
    <2> QED
      BY <1>15a, <2>1, HolderCanRelease DEF ReleaseRaises
  <1>16. ASSUME NEW r \in Jobs, Refuse(r) PROVE PermitsAccounted'
    <2>1. PermitHolders' = PermitHolders /\ permits' = permits
      BY <1>16 DEF Refuse
    <2> QED
      BY <2>1 DEF PermitsAccounted
  <1>17. ASSUME NEW j \in Jobs, Begin(j) PROVE PermitsAccounted'
    <2>1. PermitHolders' = PermitHolders /\ permits' = permits
      BY <1>17 DEF Begin
    <2> QED
      BY <2>1 DEF PermitsAccounted
  <1>18. ASSUME NEW j \in Jobs, BeginRaises(j) PROVE PermitsAccounted'
    BY <1>18 DEF BeginRaises, RecordFollowsWork, CanTransition, AllowedMoves
  <1>19. ASSUME NEW j \in Jobs, CountRunning(j) PROVE PermitsAccounted'
    <2>1. PermitHolders' = PermitHolders /\ permits' = permits
      BY <1>19 DEF CountRunning
    <2> QED
      BY <2>1 DEF PermitsAccounted
  <1>20. ASSUME NEW j \in Jobs, Operate(j) PROVE PermitsAccounted'
    <2>1. PermitHolders' = PermitHolders /\ permits' = permits
      BY <1>20 DEF Operate
    <2> QED
      BY <2>1 DEF PermitsAccounted
  <1>21. ASSUME NEW j \in Jobs, Settle(j) PROVE PermitsAccounted'
    <2>1. PermitHolders' = PermitHolders /\ permits' = permits
      BY <1>21 DEF Settle
    <2> QED
      BY <2>1 DEF PermitsAccounted
  <1>22. ASSUME NEW j \in Jobs, SettleRaises(j) PROVE PermitsAccounted'
    <2>1. PermitHolders' = PermitHolders /\ permits' = permits
      BY <1>22 DEF SettleRaises
    <2> QED
      BY <2>1 DEF PermitsAccounted
  <1>23. ASSUME NEW j \in Jobs, CountOutcome(j) PROVE PermitsAccounted'
    <2>1. PermitHolders' = PermitHolders /\ permits' = permits
      BY <1>23 DEF CountOutcome
    <2> QED
      BY <2>1 DEF PermitsAccounted
  <1>24. ASSUME NEW j \in Jobs, Release(j) PROVE PermitsAccounted'
    <2>1. j \in PermitHolders /\ ReleasePermit
      BY <1>24, HolderCanRelease DEF Release
    <2>2. PermitHolders' = PermitHolders \ {j}
      BY <1>24 DEF Release
    <2> QED
      BY <2>1, <2>2, OneHolderLess
  <1>25. CASE PickUp
    <2>1. PermitHolders' = PermitHolders /\ permits' = permits
      BY <1>25, HeadIsPending DEF PickUp
    <2> QED
      BY <2>1 DEF PermitsAccounted
  <1>26. CASE Background
    <2>1. PermitHolders' = PermitHolders /\ permits' = permits
      BY <1>26, BackgroundFrame
    <2> QED
      BY <2>1 DEF PermitsAccounted
  <1> QED
    BY StepCases, <1>1, <1>2, <1>3, <1>4, <1>5, <1>6, <1>7, <1>8, <1>9, <1>10,
       <1>11, <1>12, <1>13, <1>14, <1>15, <1>15a, <1>16, <1>17, <1>18, <1>19, <1>20, <1>21,
       <1>22, <1>23, <1>24, <1>25, <1>26
       DEF Run

LEMMA RecordsBoundedNext ==
  ASSUME TypeOK, RecordsBounded, [Next]_vars
  PROVE  RecordsBounded'
  <1>1. IsFiniteSet(Registered) /\ Registered \subseteq Jobs
    BY JobsAssumption, FS_Subset DEF Registered
  <1>2. ASSUME Registered' \subseteq Registered PROVE RecordsBounded'
    BY <1>1, <1>2, FS_Subset, FS_CardinalityType, SizesAssumption DEF RecordsBounded
  <1>3. ASSUME NEW r \in Jobs, Register(r) PROVE RecordsBounded'
    <2>1. Registered' = Registered \cup {r}
      BY <1>3 DEF Register, Registered, TypeOK, NoRecord
    <2>2. Cardinality(Registered) \in Nat
      BY <1>1, FS_CardinalityType
    <2>3. \/ Cardinality(Registered') = Cardinality(Registered) + 1
          \/ Cardinality(Registered') = Cardinality(Registered)
      <3>1. CASE r \in Registered
        BY <2>1, <3>1
      <3>2. CASE r \notin Registered
        BY <1>1, <2>1, <3>2, FS_AddElement
      <3> QED
        BY <3>1, <3>2
    <2> QED
      BY <1>3, <2>2, <2>3, SizesAssumption DEF Register, RoomForRecord, RecordsBounded
  <1> USE DEF TypeOK, Registered, NoRecord, recordVars
  <1>4. ASSUME NEW r \in Jobs,
               \/ Receive(r) \/ WriteFails(r) \/ SubmitReadsClock(r) \/ Acquire(r)
               \/ QueueFull(r) \/ RegistryFull(r) \/ CountQueued(r) \/ Enqueue(r)
               \/ EnqueueRefused(r) \/ ThreadStartFails(r) \/ UndoRaises(r)
               \/ UndoPermit(r) \/ ReleaseRaises(r) \/ Refuse(r)
        PROVE  RecordsBounded'
    <2>1. UNCHANGED recordState
      BY <1>4 DEF Receive, WriteFails, SubmitReadsClock, Acquire, QueueFull, RegistryFull,
                  CountQueued, Enqueue, EnqueueRefused, ThreadStartFails, UndoRaises,
                  UndoPermit, ReleaseRaises, Refuse
    <2> QED
      BY <1>2, <2>1
  <1>5. ASSUME NEW r \in Jobs, SubmitSweeps(r) PROVE RecordsBounded'
    BY <1>2, <1>5 DEF SubmitSweeps, Sweep, Expired, Terminal
  <1>6. ASSUME NEW r \in Jobs, UndoRecord(r) PROVE RecordsBounded'
    BY <1>2, <1>6 DEF UndoRecord, DeleteRecord
  <1>7. ASSUME NEW j \in Jobs, Begin(j) PROVE RecordsBounded'
    BY <1>2, <1>7 DEF Begin, Transition, CanTransition, AllowedMoves
  <1>8. ASSUME NEW j \in Jobs, Settle(j) PROVE RecordsBounded'
    BY <1>2, <1>8 DEF Settle, Transition, CanTransition, AllowedMoves
  <1>9. ASSUME NEW j \in Jobs,
               \/ BeginRaises(j) \/ CountRunning(j) \/ Operate(j)
               \/ SettleRaises(j) \/ CountOutcome(j) \/ Release(j)
        PROVE  RecordsBounded'
    BY <1>2, <1>9 DEF BeginRaises, CountRunning, Operate, SettleRaises, CountOutcome, Release
  <1>10. CASE PickUp
    BY <1>2, <1>10 DEF PickUp
  <1>11. CASE Background
    BY <1>2, <1>11, BackgroundFrame DEF SweptOrSame, Terminal
  <1> QED
    BY StepCases, <1>3, <1>4, <1>5, <1>6, <1>7, <1>8, <1>9, <1>10, <1>11 DEF Run

-----------------------------------------------------------------------------
(* The inductive invariant, and what follows from it *)

LEMMA IInvInit == Init => IInv
  <1> SUFFICES ASSUME Init PROVE IInv
    OBVIOUS
  <1>1. TypeOK
    BY TypeInit
  <1>2. WorkInv
    BY DEF Init, WorkInv, RouteAndTask, OutcomeKnown, RecordFollowsWork, StagingOwned,
           Answered, NoRecord, Terminal
  <1>3. QueueIsPending
    BY DEF Init, QueueIsPending
  <1>4. ThreadsServeQueue
    BY DEF Init, ThreadsServeQueue
  <1>5. PermitsAccounted
    <2>1. PermitHolders = {}
      BY DEF Init, PermitHolders, ActivePhases
    <2> QED
      BY <2>1, FS_EmptySet, SizesAssumption DEF Init, PermitsAccounted, Capacity
  <1>6. RecordsBounded
    <2>1. Registered = {}
      BY DEF Init, Registered
    <2> QED
      BY <2>1, FS_EmptySet, SizesAssumption DEF RecordsBounded
  <1> QED
    BY <1>1, <1>2, <1>3, <1>4, <1>5, <1>6 DEF IInv

LEMMA IInvNext ==
  ASSUME ~ThreadStartMayFail, IInv, [Next]_vars
  PROVE  IInv'
  <1>1. TypeOK'
    BY TypeNext DEF IInv
  <1>2. WorkInv'
    BY RouteAndTaskNext, OutcomeKnownNext, StagingOwnedNext, RecordFollowsWorkNext
    DEF IInv, WorkInv
  <1>3. QueueIsPending'
    BY QueueIsPendingNext DEF IInv
  <1>4. ThreadsServeQueue'
    BY ThreadsServeQueueNext DEF IInv
  <1>5. PermitsAccounted'
    BY PermitsAccountedNext DEF IInv
  <1>6. RecordsBounded'
    BY RecordsBoundedNext DEF IInv
  <1> QED
    BY <1>1, <1>2, <1>3, <1>4, <1>5, <1>6 DEF IInv

THEOREM Inductive == ASSUME ~ThreadStartMayFail PROVE Spec => []IInv
  <1>1. IInv /\ [Next]_vars => IInv'
    BY IInvNext
  <1> QED
    BY IInvInit, <1>1, PTL DEF Spec

\* No path through submit and _run loses a permit or gives one back twice.
THEOREM PermitsSafe == ASSUME ~ThreadStartMayFail PROVE Spec => []PermitsAccounted
  BY Inductive, PTL DEF IInv

\* No record is stuck in a state that nobody will move it out of.
THEOREM RecordsSafe == ASSUME ~ThreadStartMayFail PROVE Spec => []RecordFollowsWork
  BY Inductive, PTL DEF IInv, WorkInv

\* No upload directory leaks, and none is removed under a running operation.
THEOREM StagingSafe == ASSUME ~ThreadStartMayFail PROVE Spec => []StagingOwned
  BY Inductive, PTL DEF IInv, WorkInv

(***************************************************************************)
(* Admission is bounded: the queue and the workers hold distinct jobs, and *)
(* each of these jobs holds a permit.                                      *)
(***************************************************************************)
LEMMA QueueBounded == ASSUME IInv PROVE Len(workQueue) + Cardinality(Active) <= Capacity
  <1> DEFINE P == {j \in Jobs : task[j] = "pending"}
  <1> USE DEF IInv, TypeOK
  <1>1. /\ IsFiniteSet(P) /\ IsFiniteSet(Active) /\ IsFiniteSet(PermitHolders)
        /\ IsFiniteSet(P \cup Active)
    BY JobsAssumption, FS_Subset DEF Active, PermitHolders
  <1>2. Len(workQueue) <= Cardinality(P)
    <2>1. workQueue \in [1..Len(workQueue) -> P] /\ Len(workQueue) \in Nat
      BY DEF QueueIsPending
    <2>2. workQueue \in Injection(1..Len(workQueue), P)
      BY <2>1 DEF QueueIsPending, Injection, IsInjective
    <2>3. Cardinality(1..Len(workQueue)) <= Cardinality(P)
      BY <1>1, <2>2, FS_Injection
    <2>4. Cardinality(1..Len(workQueue)) = Len(workQueue)
      <3> DEFINE n == Len(workQueue)
      <3> HIDE DEF IInv, TypeOK, n, P
      <3>1. n \in Nat
        BY <2>1 DEF n
      <3>2. Cardinality(1..n) = IF 1 > n THEN 0 ELSE n - 1 + 1
        BY <3>1, FS_Interval
      <3> QED
        BY <3>1, <3>2 DEF n
    <2> QED
      BY <2>3, <2>4
  <1>3. Cardinality(P \cup Active) = Cardinality(P) + Cardinality(Active)
    <2>1. P \cap Active = {}
      BY DEF Active, ActivePhases
    <2>2. Cardinality(P \cap Active) = 0
      BY <2>1, FS_EmptySet
    <2>3. Cardinality(P) \in Nat /\ Cardinality(Active) \in Nat
      BY <1>1, FS_CardinalityType
    <2>4. Cardinality(P \cup Active)
            = Cardinality(P) + Cardinality(Active) - Cardinality(P \cap Active)
      BY <1>1, FS_Union
    <2> HIDE DEF IInv, TypeOK, P
    <2> QED
      BY <2>2, <2>3, <2>4
  <1>4. Cardinality(P \cup Active) <= Cardinality(PermitHolders)
    <2>1. P \cup Active \in SUBSET PermitHolders
      BY DEF Active, PermitHolders
    <2> QED
      BY <1>1, <2>1, FS_Subset
  <1>5. Cardinality(PermitHolders) <= Capacity
    BY <1>1, FS_CardinalityType, SizesAssumption DEF PermitsAccounted, Capacity
  <1>6. /\ Cardinality(P) \in Nat /\ Cardinality(Active) \in Nat
        /\ Cardinality(PermitHolders) \in Nat /\ Len(workQueue) \in Nat
    BY <1>1, FS_CardinalityType
  <1> HIDE DEF P
  <1> QED
    BY <1>2, <1>3, <1>4, <1>5, <1>6, SizesAssumption DEF Capacity

THEOREM AdmissionSafe == ASSUME ~ThreadStartMayFail PROVE Spec => []AdmissionBounded
  <1>1. IInv => AdmissionBounded
    BY QueueBounded DEF IInv, AdmissionBounded, RecordsBounded
  <1> QED
    BY <1>1, Inductive, PTL

\* close() returns only when every accepted job has been run to its end.
THEOREM CloseDrains == ASSUME ~ThreadStartMayFail PROVE Spec => []ClosedIsDrained
  <1>1. ASSUME IInv, phase = "closed", NEW j \in Jobs, route[j] = "accepted"
        PROVE  task[j] = "done" /\ j \notin staged
    <2>1. Active = {} /\ workQueue = <<>>
      BY <1>1 DEF IInv, ThreadsServeQueue
    <2>2. task[j] \notin ActivePhases
      BY <2>1 DEF Active
    <2>3. task[j] # "pending"
      BY <1>1, <2>1 DEF IInv, QueueIsPending
    <2>4. task[j] = "done"
      BY <1>1, <2>2, <2>3 DEF IInv, TypeOK, TaskPhases, WorkInv, RouteAndTask
    <2> QED
      BY <1>1, <2>4 DEF IInv, WorkInv, StagingOwned, Answered
  <1>2. IInv => ClosedIsDrained
    BY <1>1 DEF ClosedIsDrained
  <1> QED
    BY <1>2, Inductive, PTL

-----------------------------------------------------------------------------
(***************************************************************************)
(* Retention.  Every clean-up works from a cutoff computed in the past, so *)
(* it can only be too lenient; this holds whether or not the platform      *)
(* starts threads.                                                         *)
(***************************************************************************)
CutoffsPast ==
    /\ \A j \in Jobs :
          /\ route[j] = "sweeping" => submitCutoff[j] <= now - Retention
          /\ poll[j] \in {"sweeping", "swept"} => getCutoff[j] <= now - Retention
    /\ cleaner = "sweeping" => cleanerCutoff <= now - Retention

LEMMA CutoffsPastNext ==
  ASSUME TypeOK, CutoffsPast, [Next]_vars
  PROVE  CutoffsPast'
  <1> USE SizesAssumption, JobsAssumption
  <1> USE DEF TypeOK, CutoffsPast, Cutoff, routeVars, pollVars, lifespanVars
  <1>1. ASSUME NEW r \in Jobs,
               \/ Receive(r) \/ WriteFails(r) \/ SubmitReadsClock(r) \/ SubmitSweeps(r)
               \/ Acquire(r) \/ QueueFull(r) \/ Register(r) \/ RegistryFull(r)
        PROVE  CutoffsPast'
    <2>1. CASE Receive(r) \/ WriteFails(r)
      BY <2>1 DEF Receive, WriteFails
    <2>2. CASE SubmitReadsClock(r)
      BY <2>2 DEF SubmitReadsClock
    <2>3. CASE SubmitSweeps(r)
      BY <2>3 DEF SubmitSweeps
    <2>4. CASE Acquire(r) \/ QueueFull(r)
      BY <2>4 DEF Acquire, QueueFull
    <2>5. CASE Register(r) \/ RegistryFull(r)
      BY <2>5 DEF Register, RegistryFull
    <2> QED
      BY <1>1, <2>1, <2>2, <2>3, <2>4, <2>5
  <1>2. ASSUME NEW r \in Jobs,
               \/ CountQueued(r) \/ Enqueue(r) \/ EnqueueRefused(r) \/ ThreadStartFails(r)
               \/ UndoRecord(r) \/ UndoRaises(r) \/ UndoPermit(r) \/ ReleaseRaises(r) \/ Refuse(r)
        PROVE  CutoffsPast'
    <2>1. CASE CountQueued(r) \/ EnqueueRefused(r)
      BY <2>1 DEF CountQueued, EnqueueRefused
    <2>2. CASE Enqueue(r)
      BY <2>2 DEF Enqueue
    <2>3. CASE ThreadStartFails(r)
      BY <2>3 DEF ThreadStartFails
    <2>4. CASE UndoRecord(r) \/ UndoRaises(r) \/ UndoPermit(r) \/ ReleaseRaises(r)
      BY <2>4 DEF UndoRecord, UndoRaises, UndoPermit, ReleaseRaises
    <2>5. CASE Refuse(r)
      BY <2>5 DEF Refuse
    <2> QED
      BY <1>2, <2>1, <2>2, <2>3, <2>4, <2>5
  <1>3. ASSUME NEW j \in Jobs, Run(j) PROVE CutoffsPast'
    BY <1>3 DEF Run, Begin, BeginRaises, CountRunning, Operate, Settle, SettleRaises,
                CountOutcome, Release
  <1>4. CASE PickUp
    BY <1>4 DEF PickUp
  <1>5. ASSUME NEW j \in Polled, Poll(j) PROVE CutoffsPast'
    <2>1. CASE PollReadsClock(j)
      BY <2>1 DEF PollReadsClock
    <2>2. CASE PollSweeps(j)
      BY <2>2 DEF PollSweeps
    <2>3. CASE PollReads(j)
      BY <2>3 DEF PollReads
    <2> QED
      BY <1>5, <2>1, <2>2, <2>3 DEF Poll
  <1>6. CASE CleanerTimesOut \/ CleanerSweeps \/ CleanerEnds
    BY <1>6 DEF CleanerTimesOut, CleanerSweeps, CleanerEnds
  <1>7. CASE StopServing \/ BeginClose \/ EndClose
    BY <1>7 DEF StopServing, BeginClose, EndClose
  <1>8. CASE Tick \/ Finished \/ UNCHANGED vars
    BY <1>8 DEF Tick, Finished, vars
  <1> QED
    BY <1>1, <1>2, <1>3, <1>4, <1>5, <1>6, <1>7, <1>8, StepCases DEF Background

\* A clean-up with a cutoff of the past removes only records that are past
\* their retention now.
LEMMA SweepKeeps ==
  ASSUME TypeOK, NEW cutoff \in Int, cutoff <= now - Retention, Sweep(cutoff),
         NEW j \in Jobs, j \in Registered, j \notin Registered'
  PROVE  Expires(j)
  BY SizesAssumption DEF TypeOK, Sweep, Expired, Registered, Expires

LEMMA OnlyExpiredLeave ==
  ASSUME TypeOK, CutoffsPast, [Next]_vars,
         NEW j \in Jobs, route[j] = "accepted", j \in Registered, j \notin Registered'
  PROVE  Expires(j)
  <1> USE SizesAssumption, JobsAssumption
  <1> USE DEF TypeOK, CutoffsPast, recordVars
  <1>1. recordState'[j] # recordState[j] /\ recordState'[j] = NoRecord
    BY DEF Registered
  <1>2. ASSUME NEW r \in Jobs,
               \/ Receive(r) \/ WriteFails(r) \/ SubmitReadsClock(r)
               \/ Acquire(r) \/ QueueFull(r) \/ RegistryFull(r) \/ CountQueued(r)
               \/ Enqueue(r) \/ EnqueueRefused(r) \/ ThreadStartFails(r)
               \/ UndoRaises(r) \/ UndoPermit(r) \/ ReleaseRaises(r) \/ Refuse(r)
        PROVE  FALSE
    BY <1>1, <1>2 DEF Receive, WriteFails, SubmitReadsClock, Acquire, QueueFull, RegistryFull,
             CountQueued, Enqueue, EnqueueRefused, ThreadStartFails, UndoRaises,
             UndoPermit, ReleaseRaises, Refuse
  <1>3. ASSUME NEW r \in Jobs, SubmitSweeps(r) PROVE Expires(j)
    BY <1>3, SweepKeeps DEF SubmitSweeps
  <1>4. ASSUME NEW r \in Jobs, Register(r) \/ UndoRecord(r) PROVE FALSE
    BY <1>1, <1>4 DEF Register, UndoRecord, DeleteRecord, NoRecord
  <1>5. ASSUME NEW k \in Jobs, Run(k) PROVE FALSE
    BY <1>1, <1>5 DEF Run, Begin, BeginRaises, CountRunning, Operate, Settle, SettleRaises,
                CountOutcome, Release, Transition, CanTransition, AllowedMoves, NoRecord
  <1>6. CASE PickUp
    BY <1>1, <1>6 DEF PickUp
  <1>7. ASSUME NEW k \in Polled, Poll(k) PROVE Expires(j)
    BY <1>1, <1>7, SweepKeeps DEF Poll, PollReadsClock, PollSweeps, PollReads
  <1>8. CASE CleanerTimesOut \/ CleanerSweeps \/ CleanerEnds
    BY <1>1, <1>8, SweepKeeps DEF CleanerTimesOut, CleanerSweeps, CleanerEnds
  <1>9. CASE StopServing \/ BeginClose \/ EndClose \/ Tick \/ Finished \/ UNCHANGED vars
    BY <1>1, <1>9 DEF StopServing, BeginClose, EndClose, Tick, Finished, vars
  <1> QED
    BY <1>2, <1>3, <1>4, <1>5, <1>6, <1>7, <1>8, <1>9, StepCases DEF Background

\* A client that has its 202 can fetch the result for the whole retention period.
THEOREM RetentionSafe == Spec => RetentionKept
  <1>1. Init => CutoffsPast
    BY DEF Init, CutoffsPast
  <1>2. TypeOK /\ CutoffsPast /\ [Next]_vars => CutoffsPast'
    BY CutoffsPastNext
  <1>3. TypeOK /\ CutoffsPast /\ [Next]_vars =>
          [\A j \in Jobs :
             route[j] = "accepted" /\ j \in Registered /\ j \notin Registered' => Expires(j)]_vars
    BY OnlyExpiredLeave
  <1> QED
    BY <1>1, <1>2, <1>3, TypeCorrect, PTL DEF Spec, RetentionKept

-----------------------------------------------------------------------------
(***************************************************************************)
(* Polls.  Between the clean-up of a poll and its reading a record may     *)
(* end, but then it is newer than any cutoff of the past.                  *)
(***************************************************************************)
SweptFresh ==
    \A j \in Jobs :
        poll[j] = "swept" /\ recordState[j] \in Terminal => updatedAt[j] >= getCutoff[j]

\* What a step other than a poll's own clean-up does to it.
Aged(j) ==
    /\ recordState'[j] \in Terminal =>
           \/ recordState'[j] = recordState[j] /\ updatedAt'[j] = updatedAt[j]
           \/ updatedAt'[j] = now
    /\ poll'[j] = "swept" => poll[j] = "swept" /\ getCutoff'[j] = getCutoff[j]

LEMMA AgedStaysFresh ==
  ASSUME TypeOK, CutoffsPast, SweptFresh, NEW j \in Jobs, Aged(j),
         poll'[j] = "swept", recordState'[j] \in Terminal
  PROVE  updatedAt'[j] >= getCutoff'[j]
  BY SizesAssumption DEF Aged, TypeOK, CutoffsPast, SweptFresh

LEMMA StatesApart ==
  NoRecord \notin Terminal /\ "queued" \notin Terminal /\ "running" \notin Terminal
  BY DEF NoRecord, Terminal

\* A clean-up leaves alone the results it keeps, and keeps those since the cutoff.
LEMMA SweepAges ==
  ASSUME NEW cutoff, Sweep(cutoff), NEW j \in Jobs, recordState'[j] \in Terminal
  PROVE  /\ recordState'[j] = recordState[j] /\ updatedAt'[j] = updatedAt[j]
         /\ ~(updatedAt[j] < cutoff)
  <1>1. j \notin Expired(cutoff)
    BY StatesApart DEF Sweep
  <1> QED
    BY <1>1 DEF Sweep, Expired

LEMMA SweptFreshNext ==
  ASSUME TypeOK, CutoffsPast, SweptFresh, [Next]_vars
  PROVE  SweptFresh'
  <1> SUFFICES ASSUME NEW j \in Jobs, poll'[j] = "swept", recordState'[j] \in Terminal
               PROVE  updatedAt'[j] >= getCutoff'[j]
    BY DEF SweptFresh
  <1> USE JobsAssumption, StatesApart
  <1>0. /\ recordState \in [Jobs -> JobState \cup {NoRecord}] /\ updatedAt \in [Jobs -> Nat]
        /\ poll \in [Jobs -> {"idle", "sweeping", "swept"}] /\ getCutoff \in [Jobs -> Int]
    BY DEF TypeOK
  <1> USE DEF Aged, recordVars, pollVars
  <1>1. ASSUME NEW r \in Jobs,
               \/ Receive(r) \/ WriteFails(r) \/ SubmitReadsClock(r)
               \/ Acquire(r) \/ QueueFull(r) \/ RegistryFull(r) \/ CountQueued(r)
               \/ Enqueue(r) \/ EnqueueRefused(r) \/ ThreadStartFails(r)
               \/ UndoRaises(r) \/ UndoPermit(r) \/ ReleaseRaises(r) \/ Refuse(r)
        PROVE  Aged(j)
    BY <1>1 DEF Receive, WriteFails, SubmitReadsClock, Acquire, QueueFull, RegistryFull,
             CountQueued, Enqueue, EnqueueRefused, ThreadStartFails, UndoRaises,
             UndoPermit, ReleaseRaises, Refuse
  <1>2. ASSUME NEW r \in Jobs, SubmitSweeps(r) PROVE Aged(j)
    BY <1>2, SweepAges DEF SubmitSweeps
  <1>3. ASSUME NEW r \in Jobs, Register(r) \/ UndoRecord(r) PROVE Aged(j)
    BY <1>0, <1>3 DEF Register, UndoRecord, DeleteRecord
  <1>4. ASSUME NEW k \in Jobs, Run(k) PROVE Aged(j)
    BY <1>0, <1>4 DEF Run, Begin, BeginRaises, CountRunning, Operate, Settle, SettleRaises,
                      CountOutcome, Release, Transition
  <1>5. ASSUME PickUp PROVE Aged(j)
    BY <1>5 DEF PickUp
  <1>6. ASSUME NEW k \in Jobs, PollReadsClock(k) \/ PollReads(k) PROVE Aged(j)
    BY <1>0, <1>6 DEF PollReadsClock, PollReads
  <1>7. ASSUME NEW k \in Jobs, PollSweeps(k) PROVE updatedAt'[j] >= getCutoff'[j]
    <2>1. CASE k = j
      BY <1>0, <1>7, <2>1, SweepAges DEF PollSweeps
    <2>2. CASE k # j
      <3>1. Aged(j)
        BY <1>0, <1>7, <2>2, SweepAges DEF PollSweeps
      <3> QED
        BY <3>1, AgedStaysFresh
    <2> QED
      BY <2>1, <2>2
  <1>8. ASSUME CleanerTimesOut \/ CleanerSweeps \/ CleanerEnds PROVE Aged(j)
    BY <1>8, SweepAges DEF CleanerTimesOut, CleanerSweeps, CleanerEnds
  <1>9. ASSUME StopServing \/ BeginClose \/ EndClose \/ Tick \/ Finished \/ UNCHANGED vars
        PROVE  Aged(j)
    BY <1>9 DEF StopServing, BeginClose, EndClose, Tick, Finished, vars
  <1> HIDE DEF Aged
  <1>10. ASSUME NEW k \in Polled, Poll(k) PROVE updatedAt'[j] >= getCutoff'[j]
    BY <1>6, <1>7, <1>10, AgedStaysFresh DEF Poll
  <1>11. ASSUME Background PROVE updatedAt'[j] >= getCutoff'[j]
    BY <1>8, <1>9, <1>10, <1>11, AgedStaysFresh DEF Background
  <1> QED
    BY <1>1, <1>2, <1>3, <1>4, <1>5, <1>11, AgedStaysFresh, StepCases

\* A client is never shown a result that had expired when its poll arrived.
THEOREM ExpiredHidden == Spec => ExpiredNotShown
  <1>1. Init => CutoffsPast /\ SweptFresh
    BY DEF Init, CutoffsPast, SweptFresh
  <1>2. TypeOK /\ CutoffsPast /\ SweptFresh /\ [Next]_vars => CutoffsPast' /\ SweptFresh'
    BY CutoffsPastNext, SweptFreshNext
  <1>3. TypeOK /\ SweptFresh /\ [Next]_vars =>
          [\A j \in Jobs : PollReads(j) /\ seen'[j] \in Terminal => updatedAt[j] >= getCutoff[j]]_vars
    <2> SUFFICES ASSUME TypeOK, SweptFresh, NEW j \in Jobs, PollReads(j), seen'[j] \in Terminal
                 PROVE  updatedAt[j] >= getCutoff[j]
      OBVIOUS
    <2>1. seen'[j] = recordState[j] /\ poll[j] = "swept"
      BY DEF PollReads, TypeOK, Terminal
    <2> QED
      BY <2>1 DEF SweptFresh
  <1> QED
    BY <1>1, <1>2, <1>3, TypeCorrect, PTL DEF Spec, ExpiredNotShown

-----------------------------------------------------------------------------
(***************************************************************************)
(* The workers at work are no more than the threads there are: every       *)
(* thread takes one item at a time.                                        *)
(***************************************************************************)
WorkersBounded == Cardinality(Active) <= threads

LEMMA WorkersBoundedNext ==
  ASSUME IInv, WorkersBounded, [Next]_vars
  PROVE  WorkersBounded'
  <1> USE DEF TypeOK, Active, WorkersBounded, executorVars, taskVars
  <1>1. TypeOK /\ IsFiniteSet(Active) /\ Cardinality(Active) \in Nat
    BY JobsAssumption, FS_Subset, FS_CardinalityType DEF IInv
  <1>2. ASSUME Active' \subseteq Active, threads' = threads \/ threads' = threads + 1
        PROVE  WorkersBounded'
    <2>1. Cardinality(Active') <= Cardinality(Active) /\ Cardinality(Active') \in Nat
      BY <1>1, <1>2, FS_Subset, FS_CardinalityType
    <2>2. threads \in Int
      BY <1>1, SizesAssumption
    <2> HIDE DEF Active, TypeOK
    <2> QED
      BY <1>1, <1>2, <2>1, <2>2
  <1>3. ASSUME NEW r \in Jobs,
               \/ Receive(r) \/ WriteFails(r) \/ SubmitReadsClock(r) \/ SubmitSweeps(r)
               \/ Acquire(r) \/ QueueFull(r) \/ Register(r) \/ RegistryFull(r)
               \/ CountQueued(r) \/ EnqueueRefused(r) \/ UndoRecord(r) \/ UndoRaises(r)
               \/ UndoPermit(r) \/ ReleaseRaises(r) \/ Refuse(r)
        PROVE  WorkersBounded'
    <2>1. task' = task /\ threads' = threads
      BY <1>3 DEF Receive, WriteFails, SubmitReadsClock, SubmitSweeps, Acquire, QueueFull,
                  Register, RegistryFull, CountQueued, EnqueueRefused, UndoRecord,
                  UndoRaises, UndoPermit, ReleaseRaises, Refuse
    <2> QED
      BY <2>1
  <1>4. ASSUME NEW r \in Jobs, Enqueue(r) \/ ThreadStartFails(r) PROVE WorkersBounded'
    BY <1>1, <1>2, <1>4 DEF Enqueue, ThreadStartFails, ActivePhases
  <1>5. ASSUME NEW j \in Jobs, Run(j) PROVE WorkersBounded'
    BY <1>1, <1>2, <1>5 DEF Run, Begin, BeginRaises, CountRunning, Operate, Settle,
                            SettleRaises, CountOutcome, Release, ActivePhases
  <1>6. CASE PickUp
    <2>1. Head(workQueue) \in Jobs /\ task[Head(workQueue)] = "pending"
      BY <1>1, <1>6, HeadIsPending DEF IInv
    <2>2. Active' = Active \cup {Head(workQueue)} /\ Head(workQueue) \notin Active
      BY <1>1, <1>6, <2>1 DEF PickUp, ActivePhases
    <2>3. Cardinality(Active') = Cardinality(Active) + 1
      BY <1>1, <2>2, FS_AddElement
    <2>4. Cardinality(Active) < threads /\ threads' = threads /\ threads \in Int
      BY <1>1, <1>6, SizesAssumption DEF PickUp
    <2> HIDE DEF Active, TypeOK
    <2> QED
      BY <1>1, <2>3, <2>4
  <1>7. CASE Background
    BY <1>1, <1>2, <1>7, BackgroundFrame
  <1> QED
    BY <1>3, <1>4, <1>5, <1>6, <1>7, StepCases

-----------------------------------------------------------------------------
(***************************************************************************)
(* What a client has been shown.  A client is shown something once its     *)
(* request is answered 202, and what it has been shown never runs ahead of *)
(* the work: "running" only once a worker has the job, an end only if the  *)
(* record says the same or has expired, "not found" only once it has.      *)
(***************************************************************************)
ShownIsTrue(j) ==
    /\ seen[j] = "none" <=> route[j] # "accepted"
    /\ poll[j] # "idle" => seen[j] # "none"
    /\ seen[j] = "running" => task[j] \notin {"none", "pending", "picked"}
    /\ seen[j] \in Terminal => recordState[j] \in {seen[j], NoRecord} /\ outcome[j] # "none"
    /\ seen[j] = "notFound" => recordState[j] = NoRecord /\ outcome[j] # "none"
SeenFollowsRecord == \A j \in Jobs : ShownIsTrue(j)

LEMMA SeenFollowsRecordNext ==
  ASSUME ~ThreadStartMayFail, IInv, SeenFollowsRecord, [Next]_vars
  PROVE  SeenFollowsRecord'
  <1> USE JobsAssumption
  <1> SUFFICES ASSUME NEW k \in Jobs PROVE ShownIsTrue(k)'
    BY DEF SeenFollowsRecord
  <1>0. /\ TypeOK /\ ShownIsTrue(k)
        /\ route[k] = "accepted" <=> task[k] # "none"
        /\ recordState[k] = "queued" => (task[k] # "none" => task[k] \in {"pending", "picked"})
        /\ outcome[k] = "none" <=> task[k] \in {"none", "pending", "picked", "begun", "operating"}
        /\ recordState[k] = NoRecord => task[k] \notin {"pending", "picked", "begun", "operating"}
        /\ recordState[k] \in Terminal => recordState[k] = outcome[k]
        /\ recordState[k] = "running" => task[k] \in {"begun", "operating", "operated"}
    BY DEF IInv, WorkInv, RouteAndTask, RecordFollowsWork, OutcomeKnown, SeenFollowsRecord, NoRecord
  <1> USE DEF TypeOK, ShownIsTrue, recordVars, executorVars, taskVars, routeVars,
              pollVars, lifespanVars, NoRecord, Terminal
  <1>1. ASSUME NEW r \in Jobs,
               \/ Receive(r) \/ WriteFails(r) \/ SubmitReadsClock(r)
               \/ Acquire(r) \/ QueueFull(r) \/ RegistryFull(r)
               \/ CountQueued(r) \/ EnqueueRefused(r) \/ UndoRaises(r)
               \/ UndoPermit(r) \/ ReleaseRaises(r) \/ Refuse(r)
        PROVE  ShownIsTrue(k)'
    <2>1. UNCHANGED <<recordState, task, outcome, seen, poll>>
      BY <1>1 DEF Receive, WriteFails, SubmitReadsClock, Acquire, QueueFull,
                  RegistryFull, CountQueued, EnqueueRefused,
                  UndoRaises, UndoPermit, ReleaseRaises, Refuse
    <2>2. route'[k] = "accepted" <=> route[k] = "accepted"
      BY <1>0, <1>1 DEF Receive, WriteFails, SubmitReadsClock, Acquire, QueueFull,
                  RegistryFull, CountQueued, EnqueueRefused,
                  UndoRaises, UndoPermit, ReleaseRaises, Refuse
    <2> QED
      BY <1>0, <2>1, <2>2
  <1>2. ASSUME NEW r \in Jobs, SubmitSweeps(r) PROVE ShownIsTrue(k)'
    BY <1>0, <1>2 DEF SubmitSweeps, Sweep, Expired
  <1>3. ASSUME NEW r \in Jobs, Register(r) PROVE ShownIsTrue(k)'
    BY <1>0, <1>3 DEF Register
  <1>4. ASSUME NEW r \in Jobs, Enqueue(r) PROVE ShownIsTrue(k)'
    BY <1>0, <1>4 DEF Enqueue
  <1>5. ASSUME NEW r \in Jobs, UndoRecord(r) PROVE ShownIsTrue(k)'
    BY <1>0, <1>5 DEF UndoRecord, DeleteRecord
  <1>6. ASSUME NEW j \in Jobs, Begin(j) PROVE ShownIsTrue(k)'
    BY <1>0, <1>6 DEF Begin, Transition
  <1>7. ASSUME NEW j \in Jobs, CountRunning(j) \/ CountOutcome(j) \/ Release(j)
        PROVE  ShownIsTrue(k)'
    BY <1>0, <1>7 DEF CountRunning, CountOutcome, Release
  <1>8. ASSUME NEW j \in Jobs, Operate(j) PROVE ShownIsTrue(k)'
    BY <1>0, <1>8 DEF Operate
  <1>9. ASSUME NEW j \in Jobs, Settle(j) PROVE ShownIsTrue(k)'
    BY <1>0, <1>9 DEF Settle, Transition, CanTransition, AllowedMoves
  <1>10. ASSUME NEW j \in Jobs, BeginRaises(j) \/ SettleRaises(j) PROVE ShownIsTrue(k)'
    BY <1>0, <1>10 DEF BeginRaises, SettleRaises
  <1>11. CASE PickUp
    <2>1. task[Head(workQueue)] = "pending" /\ Head(workQueue) \in Jobs
      BY <1>11, HeadIsPending DEF IInv
    <2> QED
      BY <1>0, <1>11, <2>1 DEF PickUp
  <1>12. ASSUME NEW j \in Polled, PollReadsClock(j) PROVE ShownIsTrue(k)'
    BY <1>0, <1>12 DEF PollReadsClock
  <1>13. ASSUME NEW j \in Polled, PollSweeps(j) PROVE ShownIsTrue(k)'
    BY <1>0, <1>13 DEF PollSweeps, Sweep, Expired
  <1>14. ASSUME NEW j \in Polled, PollReads(j) PROVE ShownIsTrue(k)'
    BY <1>0, <1>14 DEF PollReads, JobState
  <1>15. CASE CleanerTimesOut \/ CleanerSweeps \/ CleanerEnds
    BY <1>0, <1>15 DEF CleanerTimesOut, CleanerSweeps, CleanerEnds, Sweep, Expired
  <1>16. CASE StopServing \/ BeginClose \/ EndClose \/ Tick \/ Finished \/ UNCHANGED vars
    BY <1>0, <1>16 DEF StopServing, BeginClose, EndClose, Tick, Finished, vars
  <1>17. ASSUME NEW r \in Jobs, ThreadStartFails(r) PROVE FALSE
    BY <1>17 DEF ThreadStartFails
  <1> QED
    BY <1>1, <1>2, <1>3, <1>4, <1>5, <1>6, <1>7, <1>8, <1>9, <1>10, <1>11, <1>12, <1>13,
       <1>14, <1>15, <1>16, <1>17, StepCases DEF Background, Run, Poll

\* What a poll reads is what the client was shown, or something later.
LEMMA PollReadsLater ==
  ASSUME IInv, SeenFollowsRecord, NEW j \in Jobs, PollReads(j), seen'[j] # seen[j]
  PROVE  /\ seen'[j] \in Later(seen[j])
         /\ seen'[j] = "notFound" => outcome[j] # "none"
  <1> USE DEF TypeOK, Terminal, NoRecord
  <1>1. /\ seen'[j] = IF recordState[j] = NoRecord THEN "notFound" ELSE recordState[j]
        /\ recordState[j] \in JobState \cup {NoRecord}
        /\ seen[j] \in JobState \cup {"none", "notFound"}
    BY DEF PollReads, IInv
  <1>2. seen[j] # "none" /\ task[j] # "none"
    BY DEF PollReads, IInv, WorkInv, RouteAndTask, SeenFollowsRecord, ShownIsTrue
  <1>3. recordState[j] = NoRecord => outcome[j] # "none"
    BY <1>2 DEF IInv, WorkInv, OutcomeKnown, RecordFollowsWork
  <1>4. recordState[j] = "queued" => task[j] \in {"pending", "picked"}
    BY <1>2 DEF IInv, WorkInv, RouteAndTask, RecordFollowsWork
  <1>5. /\ seen[j] = "running" => task[j] \notin {"none", "pending", "picked"}
        /\ seen[j] \in Terminal => recordState[j] \in {seen[j], NoRecord}
        /\ seen[j] = "notFound" => recordState[j] = NoRecord
    BY DEF SeenFollowsRecord, ShownIsTrue
  <1>6. seen'[j] \in Later(seen[j])
    <2>1. CASE seen[j] = "queued"
      BY <1>1, <2>1 DEF Later, JobState
    <2>2. CASE seen[j] = "running"
      BY <1>1, <1>4, <1>5, <2>2 DEF Later, JobState
    <2>3. CASE seen[j] \in Terminal
      BY <1>1, <1>5, <2>3 DEF Later, JobState
    <2>4. CASE seen[j] = "notFound"
      BY <1>1, <1>5, <2>4
    <2> QED
      BY <1>1, <1>2, <2>1, <2>2, <2>3, <2>4 DEF JobState
  <1> QED
    BY <1>1, <1>3, <1>6 DEF JobState

\* Only the answer 202 and a poll show a client anything.
LEMMA ShownForward ==
  ASSUME ~ThreadStartMayFail, IInv, SeenFollowsRecord, [Next]_vars,
         NEW k \in Jobs, seen'[k] # seen[k]
  PROVE  /\ seen'[k] \in Later(seen[k])
         /\ seen'[k] = "notFound" => outcome[k] # "none"
  <1> USE JobsAssumption
  <1>0. TypeOK
    BY DEF IInv
  <1> USE DEF recordVars, executorVars, taskVars, routeVars, pollVars, lifespanVars
  <1>1. ASSUME NEW r \in Jobs, Enqueue(r)
        PROVE  seen'[k] \in Later(seen[k]) /\ seen'[k] # "notFound"
    <2>1. r = k /\ seen'[k] = "queued" /\ route[k] = "counted"
      BY <1>0, <1>1 DEF Enqueue, TypeOK
    <2>2. seen[k] = "none"
      BY <2>1 DEF SeenFollowsRecord, ShownIsTrue
    <2> QED
      BY <2>1, <2>2 DEF Later, Terminal
  <1>2. ASSUME NEW r \in Jobs,
               \/ Receive(r) \/ WriteFails(r) \/ SubmitReadsClock(r) \/ SubmitSweeps(r)
               \/ Acquire(r) \/ QueueFull(r) \/ Register(r) \/ RegistryFull(r)
               \/ CountQueued(r) \/ EnqueueRefused(r) \/ ThreadStartFails(r)
               \/ UndoRecord(r) \/ UndoRaises(r) \/ UndoPermit(r) \/ ReleaseRaises(r) \/ Refuse(r)
        PROVE  FALSE
    BY <1>2 DEF Receive, WriteFails, SubmitReadsClock, SubmitSweeps, Acquire, QueueFull,
                Register, RegistryFull, CountQueued, EnqueueRefused, ThreadStartFails,
                UndoRecord, UndoRaises, UndoPermit, ReleaseRaises, Refuse
  <1>3. ASSUME NEW j \in Jobs, Run(j) PROVE FALSE
    BY <1>3 DEF Run, Begin, BeginRaises, CountRunning, Operate, Settle, SettleRaises,
                CountOutcome, Release
  <1>4. ASSUME NEW j \in Polled, PollReadsClock(j) \/ PollSweeps(j) PROVE FALSE
    BY <1>4 DEF PollReadsClock, PollSweeps
  <1>5. ASSUME NEW j \in Polled, PollReads(j) PROVE j = k
    BY <1>0, <1>5 DEF PollReads, TypeOK
  <1>6. CASE PickUp \/ CleanerTimesOut \/ CleanerSweeps \/ CleanerEnds
    BY <1>6 DEF PickUp, CleanerTimesOut, CleanerSweeps, CleanerEnds
  <1>7. CASE StopServing \/ BeginClose \/ EndClose \/ Tick \/ Finished \/ UNCHANGED vars
    BY <1>7 DEF StopServing, BeginClose, EndClose, Tick, Finished, vars
  <1> QED
    BY <1>1, <1>2, <1>3, <1>4, <1>5, <1>6, <1>7, PollReadsLater, StepCases
    DEF Background, Poll

\* What a client is told never goes backwards, and "not found" comes only after the end.
THEOREM ObservationsForward == ASSUME ~ThreadStartMayFail PROVE Spec => ObservedForward
  <1>1. Init => SeenFollowsRecord
    BY DEF Init, SeenFollowsRecord, ShownIsTrue, Terminal
  <1>2. IInv /\ SeenFollowsRecord /\ [Next]_vars => SeenFollowsRecord'
    BY SeenFollowsRecordNext
  <1>3. IInv /\ SeenFollowsRecord /\ [Next]_vars =>
          [\A j \in Jobs :
             seen'[j] # seen[j] =>
                 /\ seen'[j] \in Later(seen[j])
                 /\ seen'[j] = "notFound" => outcome[j] # "none"]_vars
    BY ShownForward
  <1> QED
    BY <1>1, <1>2, <1>3, Inductive, PTL DEF Spec, ObservedForward

-----------------------------------------------------------------------------
(***************************************************************************)
(* The counters of the metrics.  The jobs counted as running and not as    *)
(* finished are the ones on a worker; the jobs counted as queued and not   *)
(* as running include those that still wait for one.                       *)
(***************************************************************************)
OnWork == {j \in Jobs : task[j] \in {"operating", "operated", "settled"}}
Awaited == {j \in Jobs : route[j] = "counted" \/ task[j] \in {"pending", "picked", "begun"}}
CountsAddUp ==
    /\ jobsTotal["running"] - jobsTotal["succeeded"] - jobsTotal["failed"] = Cardinality(OnWork)
    /\ jobsTotal["running"] + Cardinality(Awaited) <= jobsTotal["queued"]

LEMMA WorkSetsFinite ==
  /\ IsFiniteSet(OnWork) /\ Cardinality(OnWork) \in Nat
  /\ IsFiniteSet(Awaited) /\ Cardinality(Awaited) \in Nat
  BY JobsAssumption, FS_Subset, FS_CardinalityType DEF OnWork, Awaited

\* A step that counts nothing puts no job on a worker and none in the queue.
LEMMA CountsKept ==
  ASSUME TypeOK, CountsAddUp, jobsTotal' = jobsTotal, OnWork' = OnWork, Awaited' \subseteq Awaited
  PROVE  CountsAddUp'
  <1>1. Cardinality(Awaited') <= Cardinality(Awaited) /\ Cardinality(Awaited') \in Nat
    BY WorkSetsFinite, FS_Subset, FS_CardinalityType
  <1>2. jobsTotal["running"] \in Nat /\ jobsTotal["queued"] \in Nat
    BY DEF TypeOK, JobState, Terminal
  <1> QED
    BY <1>1, <1>2, WorkSetsFinite DEF CountsAddUp

LEMMA CountQueuedAddsUp ==
  ASSUME IInv, CountsAddUp, NEW r \in Jobs, CountQueued(r)
  PROVE  CountsAddUp'
  <1> USE DEF TypeOK, JobState, Terminal
  <1>1. /\ jobsTotal \in [JobState -> Nat]
        /\ jobsTotal' = [jobsTotal EXCEPT !["queued"] = @ + 1]
    BY DEF IInv, CountQueued, CountState
  <1>2. OnWork' = OnWork /\ Awaited' = Awaited \cup {r} /\ r \notin Awaited
    BY DEF CountQueued, OnWork, Awaited, IInv, WorkInv, RouteAndTask, taskVars, NoRecord
  <1>3. Cardinality(Awaited') = Cardinality(Awaited) + 1
    BY <1>2, WorkSetsFinite, FS_AddElement
  <1>4. /\ jobsTotal'["queued"] = jobsTotal["queued"] + 1
        /\ \A s \in {"running", "succeeded", "failed"} : jobsTotal'[s] = jobsTotal[s]
        /\ jobsTotal["running"] \in Nat /\ jobsTotal["queued"] \in Nat
    BY <1>1
  <1> HIDE DEF TypeOK, JobState, Terminal
  <1> QED
    BY <1>2, <1>3, <1>4, WorkSetsFinite DEF CountsAddUp

LEMMA CountRunningAddsUp ==
  ASSUME IInv, CountsAddUp, NEW j \in Jobs, CountRunning(j)
  PROVE  CountsAddUp'
  <1> USE DEF TypeOK, JobState, Terminal
  <1>1. /\ jobsTotal \in [JobState -> Nat]
        /\ jobsTotal' = [jobsTotal EXCEPT !["running"] = @ + 1]
    BY DEF IInv, CountRunning, CountState
  <1>2. route[j] = "accepted"
    BY DEF IInv, WorkInv, RouteAndTask, CountRunning
  <1>3. OnWork' = OnWork \cup {j} /\ j \notin OnWork
    BY DEF CountRunning, OnWork, IInv
  <1>4. Awaited' = Awaited \ {j} /\ j \in Awaited
    BY <1>2 DEF CountRunning, Awaited, IInv, routeVars
  <1>5. Cardinality(OnWork') = Cardinality(OnWork) + 1
    BY <1>3, WorkSetsFinite, FS_AddElement
  <1>6. Cardinality(Awaited') = Cardinality(Awaited) - 1
    BY <1>4, WorkSetsFinite, FS_RemoveElement
  <1>7. /\ jobsTotal'["running"] = jobsTotal["running"] + 1
        /\ \A s \in {"queued", "succeeded", "failed"} :
               jobsTotal'[s] = jobsTotal[s] /\ jobsTotal[s] \in Nat
        /\ jobsTotal["running"] \in Nat
    BY <1>1
  <1> HIDE DEF TypeOK, JobState, Terminal
  <1> QED
    BY <1>5, <1>6, <1>7, WorkSetsFinite DEF CountsAddUp

LEMMA CountOutcomeAddsUp ==
  ASSUME IInv, CountsAddUp, NEW j \in Jobs, CountOutcome(j)
  PROVE  CountsAddUp'
  <1>1. outcome[j] \in Terminal
    BY DEF IInv, WorkInv, OutcomeKnown, TypeOK, CountOutcome
  <1> USE DEF TypeOK, JobState, Terminal
  <1>2. /\ jobsTotal \in [JobState -> Nat]
        /\ jobsTotal' = [jobsTotal EXCEPT ![outcome[j]] = @ + 1]
    BY DEF IInv, CountOutcome, CountState
  <1>3. OnWork' = OnWork \ {j} /\ j \in OnWork
    BY DEF CountOutcome, OnWork, IInv
  <1>4. Awaited' = Awaited
    BY DEF CountOutcome, Awaited, IInv, routeVars
  <1>5. Cardinality(OnWork') = Cardinality(OnWork) - 1
    BY <1>3, WorkSetsFinite, FS_RemoveElement
  <1>6. /\ jobsTotal'["succeeded"] + jobsTotal'["failed"]
               = jobsTotal["succeeded"] + jobsTotal["failed"] + 1
        /\ \A s \in {"queued", "running"} : jobsTotal'[s] = jobsTotal[s]
        /\ \A s \in JobState : jobsTotal[s] \in Nat /\ jobsTotal'[s] \in Nat
    BY <1>1, <1>2
  <1> QED
    BY <1>4, <1>5, <1>6, WorkSetsFinite DEF CountsAddUp

LEMMA CountsAddUpNext ==
  ASSUME ~ThreadStartMayFail, IInv, CountsAddUp, [Next]_vars
  PROVE  CountsAddUp'
  <1>0. TypeOK
    BY DEF IInv
  <1> USE DEF TypeOK, recordVars, executorVars, taskVars, routeVars, pollVars, lifespanVars
  <1>1. ASSUME NEW r \in Jobs,
               \/ Receive(r) \/ WriteFails(r) \/ SubmitReadsClock(r) \/ SubmitSweeps(r)
               \/ Acquire(r) \/ QueueFull(r) \/ Register(r) \/ RegistryFull(r)
               \/ EnqueueRefused(r) \/ UndoRecord(r) \/ UndoRaises(r)
               \/ UndoPermit(r) \/ ReleaseRaises(r) \/ Refuse(r)
        PROVE  CountsAddUp'
    <2>1. jobsTotal' = jobsTotal /\ task' = task
      BY <1>1 DEF Receive, WriteFails, SubmitReadsClock, SubmitSweeps, Acquire, QueueFull,
                  Register, RegistryFull, EnqueueRefused, UndoRecord, UndoRaises, UndoPermit, ReleaseRaises, Refuse
    <2>2. \A k \in Jobs : route'[k] = "counted" => route[k] = "counted"
      BY <1>0, <1>1 DEF Receive, WriteFails, SubmitReadsClock, SubmitSweeps, Acquire, QueueFull,
                  Register, RegistryFull, EnqueueRefused, UndoRecord, UndoRaises, UndoPermit, ReleaseRaises, Refuse
    <2> QED
      BY <1>0, <2>1, <2>2, CountsKept DEF OnWork, Awaited
  <1>2. ASSUME NEW r \in Jobs, Enqueue(r) PROVE CountsAddUp'
    <2>1. jobsTotal' = jobsTotal /\ OnWork' = OnWork /\ Awaited' = Awaited
      BY <1>0, <1>2 DEF Enqueue, OnWork, Awaited, IInv, WorkInv, RouteAndTask
    <2> QED
      BY <1>0, <2>1, CountsKept
  <1>3. ASSUME NEW j \in Jobs, Begin(j) \/ Operate(j) \/ Settle(j) \/ Release(j)
        PROVE  CountsAddUp'
    <2>1. jobsTotal' = jobsTotal /\ OnWork' = OnWork /\ Awaited' = Awaited
      BY <1>0, <1>3 DEF Begin, Operate, Settle, Release, OnWork, Awaited
    <2> QED
      BY <1>0, <2>1, CountsKept
  <1>4. ASSUME NEW j \in Jobs, BeginRaises(j) PROVE CountsAddUp'
    BY <1>4 DEF BeginRaises, IInv, WorkInv, RecordFollowsWork, CanTransition, AllowedMoves
  <1>5. ASSUME NEW j \in Jobs, SettleRaises(j) PROVE CountsAddUp'
    <2>1. task[j] = "operated" /\ ~CanTransition(j, outcome[j])
      BY <1>5 DEF SettleRaises
    <2>2. recordState[j] = "running" /\ outcome[j] # "none"
      BY <2>1 DEF IInv, WorkInv, RecordFollowsWork, OutcomeKnown
    <2>3. outcome[j] \in Terminal \cup {"none"}
      BY <1>0
    <2> HIDE DEF TypeOK
    <2> QED
      BY <2>1, <2>2, <2>3 DEF Terminal, CanTransition, AllowedMoves
  <1>6. CASE PickUp
    <2>1. task[Head(workQueue)] = "pending" /\ Head(workQueue) \in Jobs
      BY <1>6, HeadIsPending DEF IInv
    <2>2. jobsTotal' = jobsTotal /\ OnWork' = OnWork /\ Awaited' = Awaited
      BY <1>0, <1>6, <2>1 DEF PickUp, OnWork, Awaited
    <2> QED
      BY <1>0, <2>2, CountsKept
  <1>7. CASE Background
    <2>1. jobsTotal' = jobsTotal
      BY <1>7 DEF Background, Poll, PollReadsClock, PollSweeps, PollReads, CleanerTimesOut,
                  CleanerSweeps, CleanerEnds, StopServing, BeginClose, EndClose, Tick,
                  Finished, vars
    <2>2. OnWork' = OnWork /\ Awaited' = Awaited
      BY <1>0, <1>7, BackgroundFrame DEF OnWork, Awaited
    <2> QED
      BY <1>0, <2>1, <2>2, CountsKept
  <1>8. ASSUME NEW r \in Jobs, ThreadStartFails(r) PROVE FALSE
    BY <1>8 DEF ThreadStartFails
  <1> QED
    BY <1>1, <1>2, <1>3, <1>4, <1>5, <1>6, <1>7, <1>8, CountQueuedAddsUp,
       CountRunningAddsUp, CountOutcomeAddsUp, StepCases DEF Run

\* Every scrape of geoqc_jobs_total adds up.
THEOREM MetricsSafe == ASSUME ~ThreadStartMayFail PROVE Spec => []MetricsAddUp
  <1>1. Init => CountsAddUp
    <2> SUFFICES ASSUME Init PROVE CountsAddUp
      OBVIOUS
    <2>1. OnWork = {} /\ Awaited = {}
      BY DEF Init, OnWork, Awaited
    <2>2. Cardinality(OnWork) = 0 /\ Cardinality(Awaited) = 0
      BY <2>1, FS_EmptySet
    <2>3. \A s \in {"queued", "running", "succeeded", "failed"} : jobsTotal[s] = 0
      BY DEF Init, JobState, Terminal
    <2> QED
      BY <2>2, <2>3 DEF CountsAddUp
  <1>2. IInv /\ CountsAddUp /\ [Next]_vars => CountsAddUp'
    BY CountsAddUpNext
  <1>3. IInv /\ CountsAddUp => MetricsAddUp
    BY WorkSetsFinite DEF CountsAddUp, MetricsAddUp, OnWork, IInv, TypeOK, JobState, Terminal
  <1> QED
    BY <1>1, <1>2, <1>3, Inductive, PTL DEF Spec

-----------------------------------------------------------------------------
(***************************************************************************)
(* The refinement of JobService.  A registration is the admission of the   *)
(* job, handing it to the executor is the promise to the client, the first *)
(* transition is the start and the last one the end; every clean-up        *)
(* forgets some of the jobs that ended.  All other steps are invisible.    *)
(***************************************************************************)
MappingInv == IInv /\ WorkersBounded /\ SeenFollowsRecord

serviceVars == <<serviceStatus, serviceTold>>

\* The states of records are the states of the service.
LEMMA StatusOfRecord ==
  ASSUME TypeOK
  PROVE  /\ DOMAIN serviceStatus = Jobs
         /\ \A j \in Jobs : \A s \in JobState : serviceStatus[j] = s <=> recordState[j] = s
         /\ \A j \in Jobs : serviceStatus[j] = "unknown" <=>
                                recordState[j] = NoRecord /\ outcome[j] = "none"
  BY DEF TypeOK, serviceStatus, JobState, Terminal, NoRecord

\* A step that leaves the records alone, and the outcomes of jobs without one.
LEMMA StatusKept ==
  ASSUME recordState' = recordState,
         \A j \in Jobs : recordState[j] = NoRecord => outcome'[j] = outcome[j]
  PROVE  serviceStatus' = serviceStatus
  BY DEF serviceStatus

\* JobService counts as this module does: both take Cardinality from FiniteSets.
LEMMA SameCount == ASSUME NEW S PROVE Service!Cardinality(S) = Cardinality(S)
  BY DEF Service!Cardinality, Cardinality

LEMMA RegisterAdmits ==
  ASSUME MappingInv, NEW r \in Jobs, Register(r)
  PROVE  Service!Admit(r)
  <1> USE DEF MappingInv, IInv
  <1>1. /\ recordState[r] = NoRecord /\ outcome[r] = "none"
        /\ route[r] = "acquired"
    <2>1. route[r] = "acquired" /\ task[r] = "none"
      BY DEF Register, WorkInv, RouteAndTask
    <2>2. outcome[r] = "none"
      BY <2>1 DEF WorkInv, OutcomeKnown
    <2>3. recordState[r] \notin {"queued", "running"} \cup Terminal
      BY <2>1, <2>2 DEF WorkInv, RecordFollowsWork, Terminal
    <2>4. recordState[r] \in JobState \cup {NoRecord}
      BY DEF TypeOK
    <2> QED
      BY <2>1, <2>2, <2>3, <2>4 DEF JobState
  <1>2. serviceStatus[r] = "unknown"
    BY <1>1 DEF serviceStatus
  <1>3. Cardinality(Service!InStatus(Service!Live)) < Capacity
    <2>1. Service!InStatus(Service!Live) \subseteq PermitHolders \ {r}
      <3>1. ASSUME NEW j \in Jobs, serviceStatus[j] \in {"queued", "running"}
            PROVE  recordState[j] \in {"queued", "running"} /\ j # r
        BY <1>1, <3>1, StatusOfRecord DEF JobState, NoRecord
      <3>2. ASSUME NEW j \in Jobs, recordState[j] \in {"queued", "running"}
            PROVE  j \in PermitHolders
        BY <3>2 DEF WorkInv, RecordFollowsWork, PermitHolders, ActivePhases
      <3> QED
        BY <3>1, <3>2 DEF Service!InStatus, Service!Live
    <2>2. r \in PermitHolders /\ IsFiniteSet(PermitHolders)
      BY <1>1, JobsAssumption, FS_Subset DEF PermitHolders
    <2>3. Cardinality(PermitHolders \ {r}) = Cardinality(PermitHolders) - 1
      BY <2>2, FS_RemoveElement
    <2>4. /\ IsFiniteSet(PermitHolders \ {r})
          /\ Cardinality(Service!InStatus(Service!Live)) <= Cardinality(PermitHolders \ {r})
          /\ Cardinality(Service!InStatus(Service!Live)) \in Nat
      BY <2>1, <2>2, FS_Subset, FS_CardinalityType
    <2>5. Cardinality(PermitHolders) \in Nat /\ permits \in Nat
      BY <2>2, FS_CardinalityType, SizesAssumption DEF TypeOK, Capacity
    <2>6. Cardinality(PermitHolders) <= Capacity
      BY <2>5, SizesAssumption DEF PermitsAccounted, Capacity
    <2>7. Capacity \in Nat
      BY SizesAssumption DEF Capacity
    <2> QED
      BY <2>3, <2>4, <2>5, <2>6, <2>7
  <1>4. Cardinality(Service!InStatus(Service!Live \cup Service!Ends)) < MaxRecords
    <2>1. Service!InStatus(Service!Live \cup Service!Ends) = Registered
      BY StatusOfRecord DEF Service!InStatus, Service!Live, Service!Ends, Registered, TypeOK,
                            JobState, Terminal, NoRecord
    <2> QED
      BY <2>1 DEF Register, RoomForRecord
  <1>5. serviceStatus' = [serviceStatus EXCEPT ![r] = "queued"]
    BY DEF Register, serviceStatus, TypeOK, taskVars, NoRecord
  <1>6. serviceTold' = serviceTold
    BY DEF Register, serviceTold, pollVars
  <1> QED
    BY <1>2, <1>3, <1>4, <1>5, <1>6, SameCount DEF Service!Admit

LEMMA EnqueueTells ==
  ASSUME MappingInv, NEW r \in Jobs, Enqueue(r)
  PROVE  Service!Tell(r)
  <1> USE DEF MappingInv, IInv
  <1>1. recordState[r] = "queued" /\ seen[r] = "none"
    BY DEF Enqueue, WorkInv, RecordFollowsWork, SeenFollowsRecord, ShownIsTrue
  <1>2. serviceStatus[r] = "queued" /\ r \notin serviceTold
    BY <1>1 DEF serviceStatus, serviceTold, NoRecord
  <1>3. serviceTold' = serviceTold \cup {r}
    BY DEF Enqueue, serviceTold, TypeOK
  <1>4. serviceStatus' = serviceStatus
    BY StatusKept DEF Enqueue, recordVars
  <1> QED
    BY <1>2, <1>3, <1>4 DEF Service!Tell

LEMMA UndoRecordWithdraws ==
  ASSUME MappingInv, NEW r \in Jobs, UndoRecord(r)
  PROVE  Service!Withdraw(r)
  <1> USE DEF MappingInv, IInv
  <1>1. recordState[r] = "queued" /\ seen[r] = "none" /\ outcome[r] = "none"
    BY DEF UndoRecord, WorkInv, RecordFollowsWork, RouteAndTask, OutcomeKnown,
           SeenFollowsRecord, ShownIsTrue
  <1>2. serviceStatus[r] = "queued" /\ r \notin serviceTold
    BY <1>1 DEF serviceStatus, serviceTold, NoRecord
  <1>3. serviceTold' = serviceTold
    BY DEF UndoRecord, serviceTold, pollVars
  <1>4. serviceStatus' = [serviceStatus EXCEPT ![r] = "unknown"]
    BY <1>1 DEF UndoRecord, DeleteRecord, serviceStatus, TypeOK, taskVars, NoRecord
  <1> QED
    BY <1>2, <1>3, <1>4 DEF Service!Withdraw

LEMMA BeginStarts ==
  ASSUME MappingInv, NEW j \in Jobs, Begin(j)
  PROVE  Service!Start(j)
  <1> USE DEF MappingInv, IInv
  <1>1. /\ task[j] = "picked" /\ recordState[j] = "queued" /\ seen[j] # "none"
    BY DEF Begin, WorkInv, RecordFollowsWork, RouteAndTask, SeenFollowsRecord, ShownIsTrue
  <1>2. serviceStatus[j] = "queued" /\ j \in serviceTold
    BY <1>1 DEF serviceStatus, serviceTold, NoRecord
  <1>3. Cardinality(Service!InStatus({"running"})) < Workers
    <2>1. Service!InStatus({"running"}) \subseteq Active \ {j}
      BY <1>1, StatusOfRecord DEF Service!InStatus, JobState, WorkInv, RecordFollowsWork,
                                  Active, ActivePhases
    <2>2. j \in Active /\ IsFiniteSet(Active)
      BY <1>1, JobsAssumption, FS_Subset DEF Active, ActivePhases
    <2>3. Cardinality(Active \ {j}) = Cardinality(Active) - 1
      BY <2>2, FS_RemoveElement
    <2>4. /\ Cardinality(Service!InStatus({"running"})) <= Cardinality(Active \ {j})
          /\ Cardinality(Service!InStatus({"running"})) \in Nat
      BY <2>1, <2>2, FS_Subset, FS_CardinalityType
    <2>5. Cardinality(Active) \in Nat /\ threads \in Nat /\ threads <= Workers
      BY <2>2, FS_CardinalityType, SizesAssumption DEF TypeOK
    <2> QED
      BY <2>3, <2>4, <2>5, SizesAssumption DEF WorkersBounded
  <1>4. serviceStatus' = [serviceStatus EXCEPT ![j] = "running"]
    BY DEF Begin, Transition, serviceStatus, TypeOK, NoRecord
  <1>5. serviceTold' = serviceTold
    BY DEF Begin, serviceTold, pollVars
  <1> QED
    BY <1>2, <1>3, <1>4, <1>5, SameCount DEF Service!Start

LEMMA SettleEnds ==
  ASSUME MappingInv, NEW j \in Jobs, Settle(j)
  PROVE  Service!End(j)
  <1> USE DEF MappingInv, IInv
  <1>1. recordState[j] = "running"
    BY DEF Settle, WorkInv, RecordFollowsWork
  <1>2. serviceStatus[j] = "running"
    BY <1>1 DEF serviceStatus, NoRecord
  <1>3. outcome[j] \in Service!Ends
    BY DEF Settle, TypeOK, WorkInv, OutcomeKnown, Service!Ends, Terminal
  <1>4. serviceStatus' = [serviceStatus EXCEPT ![j] = outcome[j]]
    BY <1>3 DEF Settle, Transition, serviceStatus, TypeOK, NoRecord, Service!Ends
  <1>5. serviceTold' = serviceTold
    BY DEF Settle, serviceTold, pollVars
  <1> QED
    BY <1>2, <1>3, <1>4, <1>5 DEF Service!End

LEMMA SweepForgets ==
  ASSUME MappingInv, NEW cutoff, Sweep(cutoff), outcome' = outcome, serviceTold' = serviceTold
  PROVE  Service!Forget \/ UNCHANGED serviceVars
  <1> USE DEF MappingInv, IInv
  <1>1. \A j \in Expired(cutoff) : j \in Jobs /\ recordState[j] \in Terminal /\ outcome[j] # "none"
    BY DEF Expired, WorkInv, RecordFollowsWork, Terminal
  <1>2. Expired(cutoff) \subseteq Service!InStatus(Service!Ends)
    BY <1>1, StatusOfRecord DEF Service!InStatus, Service!Ends, JobState, Terminal
  <1>3. serviceStatus' = [j \in Jobs |-> IF j \in Expired(cutoff) THEN "forgotten"
                                                                 ELSE serviceStatus[j]]
    BY <1>1 DEF Sweep, serviceStatus
  <1>4. CASE Expired(cutoff) = {}
    <2>1. serviceStatus' = serviceStatus
      BY <1>3, <1>4 DEF serviceStatus
    <2> QED
      BY <2>1 DEF serviceVars
  <1>5. CASE Expired(cutoff) # {}
    <2>1. Service!InStatus(Service!Ends) # {}
      BY <1>2, <1>5
    <2> QED
      BY <1>2, <1>3, <2>1 DEF Service!Forget
  <1> QED
    BY <1>4, <1>5

\* Every step is a step of the service, or invisible to it.
LEMMA StepMaps ==
  ASSUME ~ThreadStartMayFail, MappingInv, [Next]_vars
  PROVE  [Service!Next]_serviceVars
  <1> USE JobsAssumption
  <1> USE DEF recordVars, taskVars, pollVars, routeVars, executorVars, lifespanVars
  <1>1. ASSUME recordState' = recordState, outcome' = outcome, seen' = seen
        PROVE  UNCHANGED serviceVars
    BY <1>1 DEF serviceVars, serviceStatus, serviceTold
  <1>2. ASSUME NEW r \in Jobs,
               \/ Receive(r) \/ WriteFails(r) \/ SubmitReadsClock(r)
               \/ Acquire(r) \/ QueueFull(r) \/ RegistryFull(r)
               \/ CountQueued(r) \/ EnqueueRefused(r) \/ UndoRaises(r)
               \/ UndoPermit(r) \/ ReleaseRaises(r) \/ Refuse(r)
        PROVE  UNCHANGED serviceVars
    BY <1>1, <1>2 DEF Receive, WriteFails, SubmitReadsClock, Acquire, QueueFull, RegistryFull,
                      CountQueued, EnqueueRefused, UndoRaises, UndoPermit, ReleaseRaises, Refuse
  <1>3. ASSUME NEW r \in Jobs, SubmitSweeps(r) PROVE [Service!Next]_serviceVars
    BY <1>3, SweepForgets DEF SubmitSweeps, serviceTold, Service!Next
  <1>4. ASSUME NEW r \in Jobs, Register(r) \/ Enqueue(r) \/ UndoRecord(r)
        PROVE  Service!Next
    BY <1>4, RegisterAdmits, EnqueueTells, UndoRecordWithdraws DEF Service!Next
  <1>5. ASSUME NEW r \in Jobs, ThreadStartFails(r) PROVE FALSE
    BY <1>5 DEF ThreadStartFails
  <1>6. ASSUME NEW j \in Jobs, Begin(j) \/ Settle(j) PROVE Service!Next
    BY <1>6, BeginStarts, SettleEnds DEF Service!Next
  <1>7. ASSUME NEW j \in Jobs, Operate(j) PROVE UNCHANGED serviceVars
    <2>1. recordState[j] # NoRecord /\ recordState' = recordState /\ seen' = seen
      BY <1>7 DEF Operate, MappingInv, IInv, WorkInv, RecordFollowsWork, NoRecord
    <2>2. \A k \in Jobs : recordState[k] = NoRecord => outcome'[k] = outcome[k]
      BY <1>7, <2>1 DEF Operate, MappingInv, IInv, TypeOK
    <2> QED
      BY <2>1, <2>2, StatusKept DEF serviceVars, serviceTold
  <1>8. ASSUME NEW j \in Jobs,
               \/ BeginRaises(j) \/ CountRunning(j) \/ SettleRaises(j) \/ CountOutcome(j)
               \/ Release(j)
        PROVE  UNCHANGED serviceVars
    BY <1>1, <1>8 DEF BeginRaises, CountRunning, SettleRaises, CountOutcome, Release
  <1>9. CASE PickUp
    BY <1>1, <1>9 DEF PickUp
  <1>10. ASSUME NEW j \in Polled, PollReadsClock(j) PROVE UNCHANGED serviceVars
    BY <1>1, <1>10 DEF PollReadsClock
  <1>11. ASSUME NEW j \in Polled, PollSweeps(j) PROVE [Service!Next]_serviceVars
    BY <1>11, SweepForgets DEF PollSweeps, serviceTold, Service!Next
  <1>12. ASSUME NEW j \in Polled, PollReads(j) PROVE UNCHANGED serviceVars
    <2>1. j \in serviceTold /\ serviceTold' = serviceTold
      <3>1. seen[j] # "none" /\ j \in Jobs
        BY <1>12 DEF PollReads, MappingInv, SeenFollowsRecord, ShownIsTrue
      <3>2. PICK s : s # "none" /\ seen' = [seen EXCEPT ![j] = s]
        BY <1>12 DEF PollReads, MappingInv, IInv, TypeOK, JobState, Terminal
      <3> QED
        BY <3>1, <3>2 DEF serviceTold, MappingInv, IInv, TypeOK
    <2> QED
      BY <1>12, <2>1, StatusKept DEF PollReads, serviceVars
  <1>13. CASE CleanerSweeps
    BY <1>13, SweepForgets DEF CleanerSweeps, serviceTold, Service!Next
  <1>14. CASE \/ CleanerTimesOut \/ CleanerEnds \/ StopServing \/ BeginClose \/ EndClose
              \/ Tick \/ Finished \/ UNCHANGED vars
    BY <1>1, <1>14 DEF CleanerTimesOut, CleanerEnds, StopServing, BeginClose, EndClose,
                       Tick, Finished, vars
  <1> QED
    BY <1>2, <1>3, <1>4, <1>5, <1>6, <1>7, <1>8, <1>9, <1>10, <1>11, <1>12, <1>13, <1>14,
       StepCases DEF Background, Run, Poll

\* The threads, locks and queues together are the service a client sees.
THEOREM ServiceImplemented == ASSUME ~ThreadStartMayFail PROVE Spec => ImplementsService
  <1>1. Init => SeenFollowsRecord
    BY DEF Init, SeenFollowsRecord, ShownIsTrue, Terminal
  <1>2. IInv /\ SeenFollowsRecord /\ [Next]_vars => SeenFollowsRecord'
    BY SeenFollowsRecordNext
  <1>3. Init => WorkersBounded
    <2> SUFFICES ASSUME Init PROVE WorkersBounded
      OBVIOUS
    <2>1. Active = {}
      BY DEF Init, Active, ActivePhases
    <2> QED
      BY <2>1, FS_EmptySet DEF Init, WorkersBounded
  <1>4. IInv /\ WorkersBounded /\ [Next]_vars => WorkersBounded'
    BY WorkersBoundedNext
  <1>5. Init => Service!Init
    BY DEF Init, Service!Init, serviceStatus, serviceTold
  <1>6. MappingInv /\ [Next]_vars => [Service!Next]_serviceVars
    BY StepMaps
  <1> QED
    BY <1>1, <1>2, <1>3, <1>4, <1>5, <1>6, Inductive, PTL
    DEF Spec, MappingInv, ImplementsService, Service!Spec, serviceVars
=============================================================================
