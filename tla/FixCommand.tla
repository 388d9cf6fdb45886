----------------------------- MODULE FixCommand -----------------------------
(***************************************************************************)
(* geoqc fix: every layer of the source goes twice through the repairer.   *)
(* The first call mends single features, and its result is what is         *)
(* written; the second erases overlaps and fills gaps only to see where    *)
(* they are, and what it did becomes the geoqc_review column.  The layers  *)
(* are written to a temporary file that replaces the output at the end.    *)
(*                                                                         *)
(* A layer is [opens, features, badLines]: whether it can be read, its     *)
(* non-line features and the number of its lines that are invalid or not   *)
(* simple, which are flagged and never rewritten.                          *)
(***************************************************************************)
EXTENDS CoverageRepair

CONSTANT Sources    \* the sources: sequences of layers

Layers == [opens : BOOLEAN, features : Seq(Geometries), badLines : Nat]

\* exit is None until there is an exit code.
ASSUME SourceAssumption == Sources \subseteq Seq(Layers) /\ None \notin Nat

SafeFixConfig ==
    [mend |-> TRUE, slivers |-> TRUE, resolve |-> FALSE, fill |-> FALSE,
     gap |-> 0, budget |-> None]

ReviewConfigFillsOnly == [SafeFixConfig EXCEPT !.fill = TRUE, !.gap = None]

\* gap_area_threshold=inf.
ReviewConfig == [SafeFixConfig EXCEPT !.resolve = TRUE, !.fill = TRUE, !.gap = None]

VARIABLES
    source,         \* the layers of the source
    overwrite,      \* --overwrite
    stage,          \* where the command stands
    layer,          \* the layer the loop has reached
    safe,           \* the first call's result for it
    temporary,      \* whether there is a temporary file
    written,        \* the layers in the temporary file, and then in the new output
    output,         \* the output: "absent", "old" or "new"
    before,         \* the output before the command
    exit            \* exit code, None while the command runs

fixVars == <<source, overwrite, stage, layer, safe, temporary, written, output, before, exit>>
vars == <<repairVars, fixVars>>

Init ==
    /\ RepairInit
    /\ source \in Sources
    /\ overwrite \in BOOLEAN
    /\ stage = "start"
    /\ layer = 1
    /\ safe = None
    /\ temporary = FALSE
    /\ written = <<>>
    /\ before \in {"absent", "old"}
    /\ output = before
    /\ exit = None

FailKeepsTemporary ==
    /\ stage' = "exit"
    /\ exit' \in {1, 2}
    /\ UNCHANGED <<temporary, written>>

\* Whatever is raised, the finally clause removes the temporary file; what the
\* command does not catch (an error of GEOS) ends it with a traceback and 1.
Fail ==
    /\ temporary' = FALSE
    /\ written' = <<>>
    /\ stage' = "exit"
    /\ exit' \in {1, 2}

Start ==
    /\ stage = "start"
    /\ before = "absent" \/ overwrite
    /\ stage' = "read"
    /\ UNCHANGED <<repairVars, source, overwrite, layer, safe, temporary, written, output, before, exit>>

\* The output exists, or its suffix, its path or the source is refused.
Refuse ==
    /\ stage = "start"
    /\ Fail
    /\ UNCHANGED <<repairVars, source, overwrite, layer, safe, output, before>>

\* _fix_layer reads the layer and makes the first call.
ReadLayer ==
    /\ stage = "read"
    /\ layer <= Len(source)
    /\ source[layer].opens
    /\ Call(source[layer].features, SafeFixConfig)
    /\ stage' = "safe"
    /\ UNCHANGED <<source, overwrite, layer, safe, temporary, written, output, before, exit>>

LayerFails ==
    /\ stage = "read"
    /\ layer <= Len(source)
    /\ ~source[layer].opens
    /\ Fail
    /\ UNCHANGED <<repairVars, source, overwrite, layer, safe, output, before>>

\* The first call returns; the second works on its geometries.
SafeReturns ==
    /\ stage = "safe"
    /\ phase = "done"
    /\ safe' = [after |-> repaired, failed |-> {k \in Features : Status(k) = "failed"}]
    /\ Call(repaired, ReviewConfig)
    /\ stage' = "review"
    /\ UNCHANGED <<source, overwrite, layer, temporary, written, output, before, exit>>

\* The reasons a feature is flagged for.
Reasons(k) ==
    (ReportedActions(k) \cap {"overlap", "gap"})
        \cup (IF k \in safe.failed THEN {"repair_failed"} ELSE {})

WrittenFromReview ==
    [features |-> repaired, reasons |-> [k \in Features |-> Reasons(k)],
     badLines |-> source[layer].badLines]

\* The layer as it is written: the mended features and their review column.
Written ==
    [features |-> safe.after, reasons |-> [k \in Features |-> Reasons(k)],
     badLines |-> source[layer].badLines]

\* The second call returns and the layer is appended to the temporary file.
WriteLayer ==
    /\ stage = "review"
    /\ temporary' = TRUE
    /\ written' = Append(written, Written)
    /\ layer' = layer + 1
    /\ stage' = IF layer < Len(source) THEN "read" ELSE "log"
    /\ safe' = None
    /\ Return
    /\ UNCHANGED <<source, overwrite, output, before, exit>>

\* The layer cannot be written.
WriteFails ==
    /\ stage = "review"
    /\ safe' = None
    /\ Return
    /\ Fail
    /\ UNCHANGED <<source, overwrite, layer, output, before>>

\* The geoqc_fix_log layer is written and the file takes the output's place.
Publish ==
    /\ stage = "log"
    /\ output' = "new"
    /\ temporary' = FALSE
    /\ stage' = "exit"
    /\ exit' = 0
    /\ UNCHANGED <<repairVars, source, overwrite, layer, safe, written, before>>

PublishFails ==
    /\ stage = "log"
    /\ Fail
    /\ UNCHANGED <<repairVars, source, overwrite, layer, safe, output, before>>

\* The process is killed: no finally clause runs.
Killed ==
    /\ stage \notin {"start", "exit"}
    /\ stage' = "exit"
    /\ exit' = 137
    /\ UNCHANGED <<repairVars, source, overwrite, layer, safe, temporary, written, output, before>>

Fixing ==
    /\ stage \in {"safe", "review"}
    /\ RepairStep
    /\ UNCHANGED fixVars

Next ==
    \/ Start \/ Refuse \/ ReadLayer \/ LayerFails \/ SafeReturns \/ WriteLayer \/ WriteFails
    \/ Publish \/ PublishFails \/ Killed \/ Fixing

Spec == Init /\ [][Next]_vars

(***************************************************************************)
(* Properties                                                              *)
(***************************************************************************)

\* The output is either what it was or complete, with a layer for every layer
\* of the source and a row for every feature; a command that fails leaves the
\* old output and no temporary file behind, and one that succeeds has replaced
\* it.
OutputWhole ==
    /\ output # before =>
        /\ Len(written) = Len(source)
        /\ \A n \in DOMAIN source :
               /\ Len(written[n].features) = Len(source[n].features)
               /\ written[n].badLines = source[n].badLines
    /\ exit \in {1, 2} => output = before /\ ~temporary
    /\ exit = 0 => output # before /\ ~temporary

\* "Apply safe geometry fixes and flag overlaps, gaps ...": no written feature
\* has lost or gained anything but slivers, whatever the review pass tried.
OnlySafeChanges ==
    \A n \in DOMAIN written : \A k \in DOMAIN written[n].features :
        LET was == source[n].features[k]
            now == written[n].features[k]
        IN now.faces = was.faces \/ now.faces = Solid(was)

Reviewed(w, k) == w.reasons[k] # {}

Earlier(w, k) == UNION {w.features[j].faces : j \in 1..(k - 1)}

\* A written feature that overlaps earlier ones, and is not covered by them, is
\* flagged, when no geometry of the layer makes GEOS raise.
OverlapsFlagged ==
    \A n \in DOMAIN written : LET w == written[n] IN
        (\A k \in DOMAIN w.features : w.features[k].kind # "broken") =>
            \A k \in DOMAIN w.features :
                LET faces == w.features[k].faces IN
                faces \cap Earlier(w, k) # {} /\ ~(faces \subseteq Earlier(w, k))
                    => "overlap" \in w.reasons[k]

\* "Preview-only pass: detects every overlap and enclosed gap without applying
\* it." (comment on _REVIEW_CONFIG): of two features that overlap in the output
\* at least one is flagged for review.
EveryOverlapFlagged ==
    \A n \in DOMAIN written : LET w == written[n] IN
        \A j, k \in DOMAIN w.features :
            j # k /\ w.features[j].faces \cap w.features[k].faces # {}
                => Reviewed(w, j) \/ Reviewed(w, k)
=============================================================================
