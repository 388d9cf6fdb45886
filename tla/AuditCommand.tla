---------------------------- MODULE AuditCommand -----------------------------
(***************************************************************************)
(* geoqc audit over files and folders (cli/main.py), after any number of   *)
(* geoqc check runs on them: the sources are discovered, the batch         *)
(* executor audits the single-layer datasets, then multi-layer GeoPackages *)
(* are audited layer by layer in the parent, and the verdicts are folded   *)
(* into the exit code.  geoqc batch (cli/delivery.py) audits one after the *)
(* other whatever it discovers.                                            *)
(***************************************************************************)
EXTENDS ParallelBatch, Discovery

CONSTANTS
    Datasets,    \* the files of the user, in folders
    Requests,    \* what the user may ask for
    MaxDepth     \* bound of the model: folders inside each other

ASSUME RequestsAssumption ==
    /\ MaxDepth \in Nat
    /\ None \notin Requests
    /\ \A r \in Requests : \A d \in r.folders : IsPath(d)
ASSUME DatasetsAssumption ==
    /\ IsFiniteSet(Datasets)
    /\ \A f \in Datasets : IsFile(f) /\ ~f.written

VARIABLES
    files,       \* the files of the user and those that check wrote
    asked,       \* the request, None before the command starts
    layers,      \* audit: verdicts of the layers audited so far
    layerTotal,  \* audit: how many layers the multi-layer GeoPackages have
    audited,     \* batch: how many datasets are audited
    codes,       \* batch: their exit codes
    exitCode     \* the process's exit code, or Running

commandVars == <<files, asked, layers, layerTotal, audited, codes, exitCode>>
vars == <<batchVars, commandVars>>

Running == -1
Verdicts == {result[i][2] : i \in DOMAIN result} \cup Range(layers)

\* Multi-layer GeoPackages are taken out of the batch; one whose layers cannot be
\* listed stays and fails there.
Layered(sources) == {f \in sources : f.suffix = "gpkg" /\ Cardinality(f.layers) > 1}

\* Faulty variants of the definitions below, to show that the properties can fail.
ExitIgnoresLayers == IF \E i \in DOMAIN result : result[i][2] # "clean" THEN 1 ELSE 0

-----------------------------------------------------------------------------
(* Before the command *)

\* geoqc check on one of the files; its outputs replace those of an earlier check.
CheckDataset(f) ==
    /\ asked = None
    /\ Len(f.dir) < MaxDepth
    /\ f.suffix \in AuditSuffixes /\ f.layers # {}
    /\ \E outputs \in {CheckOutputs(f, issueLayers) : issueLayers \in {{"lines", "points"}}} :
           files' = {g \in files : \A o \in outputs : PathOf(g) # PathOf(o)} \cup outputs
    /\ UNCHANGED <<batchVars, asked, layers, layerTotal, audited, codes, exitCode>>

\* The command line is refused, also when batch discovers nothing.
RefuseInputs(request) ==
    /\ asked = None
    /\ \/ InputsRefused(files, request)
       \/ request.command = "batch" /\ Sources(files, request) = {}
    /\ asked' = request
    /\ exitCode' = 2
    /\ UNCHANGED <<batchVars, files, layers, layerTotal, audited, codes>>

-----------------------------------------------------------------------------
(* geoqc audit *)

Begin(request) ==
    /\ asked = None
    /\ request.command = "audit"
    /\ ~InputsRefused(files, request)
    /\ \E layered \in {Layered(Sources(files, request))} :
           /\ layerTotal' = MapThenSumSet(LAMBDA f : Cardinality(f.layers), layered)
           /\ Plan(Cardinality(Sources(files, request) \ layered))
    /\ asked' = request
    /\ UNCHANGED <<files, layers, audited, codes, exitCode>>

\* result.is_successful, layer_failed and quality_failed.
ExitOf == IF Verdicts \subseteq {"clean"} THEN 0 ELSE 1

Command(step) == step /\ UNCHANGED commandVars

AuditingLayers ==
    /\ phase = "returned"
    /\ exitCode = Running
    /\ Len(layers) < layerTotal

\* One layer of a multi-layer GeoPackage, after the batch. Read errors are this
\* layer's failure.
AuditLayer(verdict) ==
    /\ AuditingLayers
    /\ layers' = Append(layers, verdict)
    /\ UNCHANGED <<batchVars, files, asked, layerTotal, audited, codes, exitCode>>

\* An exception the loop does not catch (GeoQCError, MemoryError) ends the command.
LayerCrashes ==
    /\ AuditingLayers
    /\ exitCode' = 1
    /\ UNCHANGED <<batchVars, files, asked, layers, layerTotal, audited, codes>>

Exit ==
    /\ exitCode = Running
    /\ \/ phase = "returned" /\ Len(layers) = layerTotal /\ exitCode' = ExitOf
       \/ phase = "raised" /\ exitCode' = 1
    /\ UNCHANGED <<batchVars, files, asked, layers, layerTotal, audited, codes>>

-----------------------------------------------------------------------------
(* geoqc batch *)

BeginBatch(request) ==
    /\ asked = None
    /\ request.command = "batch"
    /\ ~InputsRefused(files, request)
    /\ Sources(files, request) # {}
    /\ asked' = request
    /\ UNCHANGED <<batchVars, files, layers, layerTotal, audited, codes, exitCode>>

Batching == asked # None /\ asked.command = "batch" /\ exitCode = Running

\* The datasets in order: passed, failed, invalid input, or any other exception.
BatchItem(code) ==
    /\ Batching
    /\ audited < Cardinality(Sources(files, asked))
    /\ audited' = audited + 1
    /\ codes' = codes \cup {code}
    /\ UNCHANGED <<batchVars, files, asked, layers, layerTotal, exitCode>>

BatchExit ==
    /\ Batching
    /\ audited = Cardinality(Sources(files, asked))
    /\ exitCode' = Max(codes)
    /\ UNCHANGED <<batchVars, files, asked, layers, layerTotal, audited, codes>>

Init ==
    /\ BatchInit
    /\ files = Datasets
    /\ asked = None
    /\ layers = <<>>
    /\ layerTotal = 0
    /\ audited = 0
    /\ codes = {}
    /\ exitCode = Running

Next ==
    \/ \E f \in files : CheckDataset(f)
    \/ \E request \in Requests : RefuseInputs(request) \/ Begin(request) \/ BeginBatch(request)
    \/ Command(BatchNext)
    \/ LayerCrashes \/ Exit \/ \E verdict \in Values : AuditLayer(verdict)
    \/ BatchExit \/ \E code \in 0..3 : BatchItem(code)

Spec == Init /\ [][Next]_vars

\* A command that was given runs: the parent runs, the pool hands out queued items,
\* and audits terminate. Nothing makes a user give one or interrupt it, an observer
\* raise or a worker die.
Fairness ==
    /\ WF_vars(Command(SerialReturns \/ \E value \in Values : SerialTask(value)))
    /\ WF_vars(Command(Submit \/ (broken /\ SubmitRaises) \/ AllSubmitted))
    /\ WF_vars(Command(AllCollected \/ \E t \in Tasks : Collect(t)))
    /\ WF_vars(Command(LeavePool))
    /\ WF_vars(Command(\E t \in Tasks : Start(t) \/ \E value \in Values : Finish(t, value)))
    /\ WF_vars(Exit \/ \E verdict \in Values : AuditLayer(verdict))
    /\ WF_vars(BatchExit \/ \E code \in 0..3 : BatchItem(code))

FairSpec == Spec /\ Fairness

-----------------------------------------------------------------------------
(* Properties *)

\* The batch a caller gets back has one item per dataset, in source order, and the
\* item says what the dataset's own audit said, whatever the order of completion;
\* the observer was told of every one of them.
ResultInOrder ==
    phase = "returned" =>
        /\ Len(result) = total
        /\ reported = total
        /\ \A i \in DOMAIN result :
              /\ result[i][1] = i - 1
              /\ future[i - 1] \in Values => result[i][2] = future[i - 1]
              /\ future[i - 1] \notin Values => broken /\ result[i][2] = "failed"

\* Once run() is over no worker begins another dataset behind the caller's back:
\* Ctrl-C while results are collected cancels what has not begun, as the parent
\* then leaves without waiting; an observer that raises, a broken pool and Ctrl-C
\* during the submissions cancel nothing and wait for the whole queue instead.
NothingBegunLater ==
    [][\A t \in Tasks :
          phase \in {"returned", "raised"} => ~(future[t] = "queued" /\ future'[t] = "running")]_vars

LeftOutRightly(f, sources) ==
    \/ f \in Skipped(files, asked) /\ (f.link \/ f.suffix \notin AuditSuffixes)
    \/ \E g \in sources : g.suffix = "shp" /\ <<f.dir, f.stem>> = <<g.dir, g.stem>>
    \/ NamedLikeIssues(f)

\* The command exits with 0 exactly when every dataset it chose was audited and
\* passed, layer by layer where it has several; an interrupted or aborted audit
\* never exits with 0.  What it chose misses no file of the user's because of what
\* an earlier check wrote, and no issue layers are added: a file below the folders
\* asked for is audited, named as skipped (a link, or a suffix audit does not
\* take), part of an audited Shapefile, or has a name that ends in _issues.gpkg,
\* which audit takes for an output of check and says nothing about.
ExitCodeHonest ==
    /\ exitCode # Running /\ asked.command = "audit" /\ ~InputsRefused(files, asked) =>
        /\ exitCode = 0 => /\ phase = "returned"
                           /\ \A t \in Tasks : future[t] = "clean"
                           /\ Len(layers) = layerTotal
                           /\ \A i \in DOMAIN layers : layers[i] = "clean"
        /\ exitCode = 1 => \/ phase = "raised"
                           \/ \E t \in Tasks : future[t] # "clean"
                           \/ \E i \in DOMAIN layers : layers[i] # "clean"
                           \/ Len(layers) < layerTotal
        /\ exitCode = 0 => \A sources \in {Sources(files, asked)} :
               /\ \A f \in sources : f.written => PathOf(f) \in asked.named
               /\ At(Datasets, asked.named) \subseteq sources
               /\ \A d \in asked.folders :
                      \A f \in Candidates(Datasets, asked, d) \ sources : LeftOutRightly(f, sources)
    /\ exitCode = 0 /\ asked.command = "batch" =>
        audited = Cardinality(Sources(files, asked)) /\ codes = {0}

\* A batch whose worker processes cannot be started is not lost: run() falls back
\* to serial execution (docs/parallel-streaming.md:60-61).
StartupFallsBack == phase = "raised" => leaving # "startup"

\* A command that was given always ends, also when workers die while it submits or
\* collects.
CommandEnds == asked # None ~> exitCode # Running
=============================================================================
