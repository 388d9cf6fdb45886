------------------------------ MODULE Pipelines -----------------------------
(***************************************************************************)
(* The programs that read datasets and end: the road repairer followed by  *)
(* the connector of components, the chunked audits and copies, and the     *)
(* spatial analyses.  One of them runs; the first two publish their output *)
(* in the way of Publication.                                              *)
(***************************************************************************)
EXTENDS RoadConnector, StreamingAudit, SpatialAnalysis

VARIABLE program    \* "roads", "stream" or "spatial"

pipeVars == <<program, roadVars, connectVars, streamVars, spatialVars, fileVars>>

AnyJob == CHOOSE j \in Jobs : TRUE
AnyNetwork == CHOOSE n \in Networks : TRUE
AnyRequest == CHOOSE r \in SpatialRequests : TRUE
NoFile == [existing |-> "absent", overwrite |-> FALSE]

\* The variables of the program that does not run keep any one value.
Init ==
    /\ \/ program = "roads" /\ network \in Networks /\ job = AnyJob /\ request = AnyRequest
       \/ program = "stream" /\ job \in Jobs /\ network = AnyNetwork /\ request = AnyRequest
       \/ program = "spatial" /\ request \in SpatialRequests /\ network = AnyNetwork /\ job = AnyJob
    /\ RoadIdle
    /\ StreamIdle
    /\ ConnectInit
    /\ SpatialIdle
    /\ FileInit(CASE program = "roads" -> network [] program = "stream" -> job [] OTHER -> NoFile)

Roads ==
    /\ program = "roads"
    /\ RoadNext
    /\ UNCHANGED <<connectVars, streamVars, spatialVars, program>>

Connecting ==
    /\ program = "roads"
    /\ ConnectNext
    /\ UNCHANGED <<streamVars, spatialVars, program>>

Streaming ==
    /\ program = "stream"
    /\ StreamNext
    /\ UNCHANGED <<roadVars, connectVars, spatialVars, program>>

Analysing ==
    /\ program = "spatial"
    /\ SpatialNext
    /\ UNCHANGED <<roadVars, connectVars, streamVars, fileVars, program>>

Next == Roads \/ Connecting \/ Streaming \/ Analysing

Spec == Init /\ [][Next]_pipeVars

(***************************************************************************)
(* Properties                                                              *)
(***************************************************************************)
Publishes == program = "roads" \/ (program = "stream" /\ job.consumer = "writer")

\* The output is what it was or a finished file, never a part of one, and an
\* output that may not be replaced stays.  A program that succeeds has replaced
\* it; one that fails has removed its temporary file, unless the writer could
\* not be closed, and only the steps after the rename fail beside a new output.
OutputWhole ==
    /\ output \in {before, "whole"}
    /\ ~Publishes \/ (before = "old" /\ ~overwrite) => output = before
    /\ exit = "ok" /\ Publishes => output = "whole" /\ temporary = "none"
    /\ exit = "error" /\ temporary # "none" => program = "stream" /\ phase = "copy"
    /\ exit = "error" /\ output # before =>
           IF program = "roads" THEN stage = "report" ELSE phase = "stat"
=============================================================================
