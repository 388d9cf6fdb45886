----------------------------- MODULE JobService -----------------------------
(***************************************************************************)
(* What the job endpoints promise, with no thread, lock, queue or          *)
(* directory in it: a job is admitted while there is room, or is not       *)
(* admitted at all; it goes from queued to running to an end, is kept for  *)
(* a while and then forgotten.  JobManager implements this specification.  *)
(***************************************************************************)
EXTENDS Integers, FiniteSets

CONSTANTS
    Jobs,
    Backlog,        \* how many jobs may be queued or running
    MaxRunning,     \* how many may be running
    MaxRetained     \* how many may be known

VARIABLES
    status,         \* where each job is in its life
    told            \* the jobs whose client was told they were admitted

Ends == {"succeeded", "failed"}

InStatus(set) == {j \in Jobs : status[j] \in set}
Live == {"queued", "running"}

Admit(j) ==
    /\ status[j] = "unknown"
    /\ Cardinality(InStatus(Live)) < Backlog
    /\ Cardinality(InStatus(Live \cup Ends)) < MaxRetained
    /\ status' = [status EXCEPT ![j] = "queued"]
    /\ UNCHANGED told

\* The promise is made to the client: from here on the job is not withdrawn.
Tell(j) ==
    /\ status[j] = "queued"
    /\ j \notin told
    /\ told' = told \cup {j}
    /\ UNCHANGED status

Withdraw(j) ==
    /\ status[j] = "queued"
    /\ j \notin told
    /\ status' = [status EXCEPT ![j] = "unknown"]
    /\ UNCHANGED told

Start(j) ==
    /\ status[j] = "queued"
    /\ j \in told
    /\ Cardinality(InStatus({"running"})) < MaxRunning
    /\ status' = [status EXCEPT ![j] = "running"]
    /\ UNCHANGED told

End(j) ==
    /\ status[j] = "running"
    /\ \E e \in Ends : status' = [status EXCEPT ![j] = e]
    /\ UNCHANGED told

\* One clean-up forgets some of the jobs that have ended.
Forget ==
    /\ InStatus(Ends) # {}
    /\ \E gone \in SUBSET InStatus(Ends) :
           status' = [j \in Jobs |-> IF j \in gone THEN "forgotten" ELSE status[j]]
    /\ UNCHANGED told

Init == status = [j \in Jobs |-> "unknown"] /\ told = {}
Next == (\E j \in Jobs : Admit(j) \/ Tell(j) \/ Withdraw(j) \/ Start(j) \/ End(j)) \/ Forget

\* Whoever was told so gets a job that ends, and that is forgotten only then.
Promise == \A j \in Jobs : j \in told ~> status[j] \in Ends \cup {"forgotten"}

Spec == Init /\ [][Next]_<<status, told>>
FairSpec == Spec /\ Promise
=============================================================================
