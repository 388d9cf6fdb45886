----------------------------- MODULE Discovery ------------------------------
(***************************************************************************)
(* Which files geoqc audits when it is given files and folders: what the   *)
(* batch processor discovers (application/services/batch_processor.py),    *)
(* less what geoqc check wrote on earlier runs (interfaces/cli/main.py).   *)
(*                                                                         *)
(* A file is [dir, stem, suffix, link, layers, written]: the names of its  *)
(* folders, its name cut at the underscores, whether it is a link, the     *)
(* layers that can be listed, and, as history, whether check wrote it.     *)
(* A request is [command, named, folders, recursive]: "audit" or "batch"   *)
(* with the paths of files and folders.                                    *)
(***************************************************************************)
EXTENDS Sequences, FiniteSets, SequencesExt

CONSTANT None

OutputDir == "geoqc_output"
AuditSuffixes == {"fgb", "geojson", "gpkg", "parquet", "shp"}
BatchSuffixes == AuditSuffixes \cup {"gml", "json", "kml"}
Sidecars == {"cpg", "dbf", "prj", "qix", "qmd", "sbn", "sbx", "shx", "xml"}

IsPath(p) == p \in Seq(Range(p))
IsFile(f) == IsPath(f.dir) /\ IsPath(f.stem) /\ f.stem # <<>> /\ IsFiniteSet(f.layers)

PathOf(f) == <<f.dir, f.stem, f.suffix>>
At(files, paths) == {f \in files : PathOf(f) \in paths}

\* _default_output.
DefaultOutput(f, layer, what, suffix, names) ==
    [dir |-> Append(f.dir, OutputDir), suffix |-> suffix, link |-> FALSE, layers |-> names, written |-> TRUE,
     stem |-> (IF layer = None THEN f.stem ELSE Append(f.stem, layer)) \o <<what>>]

\* The issue layers and the report that check writes for a dataset, or for each
\* of its layers.
CheckOutputs(f, issueLayers) ==
    UNION {{DefaultOutput(f, layer, "issues", "gpkg", issueLayers), DefaultOutput(f, layer, "report", "html", {})} :
               layer \in IF f.suffix = "gpkg" /\ Cardinality(f.layers) > 1 THEN f.layers ELSE {None}}

Supported(request) == IF request.command = "audit" THEN AuditSuffixes ELSE BatchSuffixes

\* discover(): an input that is missing, a link or an unsupported file is an error.
InputsRefused(files, request) ==
    \/ \E p \in request.named : \A f \in At(files, {p}) : f.link \/ f.suffix \notin Supported(request)
    \/ \E d \in request.folders : \A f \in files : ~IsPrefix(d, f.dir)

Candidates(files, request, d) ==
    {f \in files : IF request.recursive THEN IsPrefix(d, f.dir) ELSE f.dir = d}

Discovered(files, request) ==
    At(files, request.named)
    \cup UNION {{f \in Candidates(files, request, d) : ~f.link /\ f.suffix \in Supported(request)} :
                    d \in request.folders}

\* The name ends in _issues.gpkg.
NamedLikeIssues(f) == f.suffix = "gpkg" /\ Len(f.stem) > 1 /\ Last(f.stem) = "issues"

\* A file below folder d that is taken for an output of check.
IsCheckOutput(f, d) ==
    \/ NamedLikeIssues(f)
    \/ OutputDir \in Range(SubSeq(f.dir, Len(d) + 1, Len(f.dir)))

\* _drop_check_outputs: a file named directly stays.
Kept(files, request) ==
    {f \in Discovered(files, request) :
        \/ PathOf(f) \in request.named
        \/ \A d \in request.folders : IsPrefix(d, f.dir) => ~IsCheckOutput(f, d)}

\* geoqc batch does not drop anything.
Sources(files, request) ==
    IF request.command = "audit" THEN Kept(files, request) ELSE Discovered(files, request)

\* _skipped_files: what the user is told was left out.
Skipped(files, request) ==
    LET kept == Sources(files, request)
        shapefiles == {<<f.dir, f.stem>> : f \in {s \in kept : s.suffix = "shp"}}
    IN UNION {{f \in Candidates(files, request, d) \ kept :
                  /\ ~IsCheckOutput(f, d)
                  /\ ~(f.suffix \in Sidecars /\ <<f.dir, f.stem>> \in shapefiles)} : d \in request.folders}
=============================================================================
