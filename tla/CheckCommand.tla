---------------------------- MODULE CheckCommand ----------------------------
(***************************************************************************)
(* geoqc check: a dataset is audited layer by layer under one profile or,  *)
(* without one, a profile chosen by each layer's geometry type; the issue  *)
(* layers and the report of a layer are written one after the other, each  *)
(* through a temporary file; the exit code is the verdict of the gate.     *)
(*                                                                         *)
(* A source with several layers keeps going after an error; a single layer *)
(* does not.  Anything that is read may have become unreadable and any     *)
(* write may fail.                                                         *)
(***************************************************************************)
EXTENDS AuditGate

CONSTANTS
    Scenarios,      \* the commands: [source, profile, preset, layer, explicit, noOutput,
                    \* overwrite, minimum, failOn]; options left out are None
    Builtin,        \* the packaged presets: name -> profile as it stands in its file
    GenericPresets  \* names of the presets without a file

IsSequence(s) == s \in Seq(Range(s))

\* The lists of a profile are lists, and the tolerances in it are numbers.
HasLists(raw) ==
    /\ "topology" \in DOMAIN raw =>
           /\ IsSequence(raw.topology)
           /\ \A k \in DOMAIN raw.topology :
                  "tolerance" \in DOMAIN raw.topology[k] => raw.topology[k].tolerance \in Int
    /\ "attributes" \in DOMAIN raw => IsSequence(raw.attributes)

ASSUME ScenarioAssumption ==
    \A c \in Scenarios :
        /\ c.source # <<>> /\ IsSequence(c.source)
        /\ \A n \in DOMAIN c.source : \A k \in Rows(c.source[n]) : At(c.source[n], k) \in Geometry \cup {None}
        /\ c.layer # None => c.layer \in DOMAIN c.source
        /\ c.profile # None => HasLists(c.profile)
        /\ c.noOutput \in BOOLEAN
        /\ c.overwrite \in BOOLEAN

ASSUME BuiltinAssumption == \A name \in DOMAIN Builtin : HasLists(Builtin[name])

VARIABLES
    command,        \* the scenario
    profile,        \* the profile of the command, None when each layer picks its own
    step,           \* what the command does next
    current,        \* the layer it is at, an index of the layers it works on
    result,         \* audit result of that layer, None before
    worst,          \* worst exit code of the layers so far
    files,          \* <<layer, kind>> -> "absent", "old" or "new"
    before,         \* files at the start
    temporary,      \* temporary files left, as <<layer, kind>>
    hinted,         \* layers whose report was skipped for want of the report extra
    exit            \* exit code, None while the command runs

vars == <<command, profile, step, current, result, worst, files, before, temporary, hinted, exit>>

Kinds == {"issues", "report"}
Source == command.source
Multi == command.layer = None /\ Len(Source) > 1
Targets == IF command.layer = None THEN [n \in DOMAIN Source |-> n] ELSE <<command.layer>>
Slots == (DOMAIN Targets) \X Kinds

Frame(n) == Source[Targets[n]]

\* _preset_profile.
PresetProfile(name) ==
    IF name \in DOMAIN Builtin THEN ProfileFromDict(Builtin[name])
    ELSE IF name \in GenericPresets
    THEN [DefaultProfile EXCEPT !.name = name, !.preset = name, !.crsRequired = FALSE]
    ELSE None

\* The profile file goes before the preset, and with neither the type of the
\* layer decides.
Chosen ==
    IF command.profile # None THEN ProfileFromDict(command.profile)
    ELSE IF command.preset # None THEN PresetProfile(command.preset)
    ELSE IF Multi THEN None ELSE AutoProfile(Frame(1).kind)

\* A preset is bound to the layer when there is one layer only.
Resolved ==
    IF command.preset = None \/ Chosen = None \/ Multi THEN Chosen
    ELSE BindPresetLayer(Chosen, Frame(1).name)

Asked == command.profile # None \/ command.preset # None

LayerProfile(n) == IF profile = None THEN AutoProfile(Frame(n).kind) ELSE profile

Policy ==
    LET gate == IF profile = None THEN DefaultGate ELSE profile.gate
    IN [minimum |-> IF command.minimum = None THEN gate.minimum ELSE command.minimum,
        failOn |-> IF command.failOn = None THEN gate.failOn ELSE command.failOn,
        unknownCrs |-> gate.unknownCrs]

\* Default outputs are regenerated; of the explicit ones only the issue layers
\* may be replaced, and only with --overwrite.
Requested(kind) == kind \in command.explicit \/ ~command.noOutput
MayReplace(kind) == kind \notin command.explicit \/ (kind = "issues" /\ command.overwrite)

Init ==
    /\ command \in Scenarios
    /\ profile = None
    /\ step = "setup"
    /\ current = 1
    /\ result = None
    /\ worst = 0
    /\ files \in [Slots -> {"absent", "old"}]
    /\ before = files
    /\ temporary = {}
    /\ hinted = {}
    /\ exit = None

Exit(code) ==
    /\ step' = "done"
    /\ exit' = code

\* Before any layer: the profile and the options, errors of the reader included.
Setup ==
    /\ step = "setup"
    /\ IF (Asked /\ Resolved = None) \/ (Multi /\ command.explicit # {})
       THEN Exit(2) /\ UNCHANGED profile
       ELSE profile' = Resolved /\ step' = "audit" /\ UNCHANGED exit
    /\ UNCHANGED <<command, current, result, worst, files, before, temporary, hinted>>

Unreadable ==
    /\ step = "setup"
    /\ Exit(2)
    /\ UNCHANGED <<command, profile, current, result, worst, files, before, temporary, hinted>>

\* The next layer, or the exit code after the last one.
Proceed(code) ==
    /\ worst' = code
    /\ result' = None
    /\ IF current < Len(Targets)
       THEN current' = current + 1 /\ step' = "audit" /\ UNCHANGED exit
       ELSE UNCHANGED current /\ Exit(code)

FailsQuietly ==
    IF Multi THEN Proceed(worst) ELSE Exit(2) /\ UNCHANGED <<current, result, worst>>

\* An error that the command catches ends a single layer; several layers go on
\* with the next one.
Fails ==
    IF Multi THEN Proceed(2) ELSE Exit(2) /\ UNCHANGED <<current, result, worst>>

\* One that it does not catch ends the process with a traceback.
Escapes ==
    /\ step' = "traceback"
    /\ exit' = 1
    /\ UNCHANGED <<current, result, worst>>

\* run_dataset_audit and load_impact, which reads the layer again.
Audit ==
    /\ step = "audit"
    /\ \E frame \in {Frame(current)}, p \in {LayerProfile(current)} :
           CASE AuditRaises(frame, p) = "AttributeError" -> Escapes
             [] AuditRaises(frame, p) = "TypeError" -> Fails
             [] OTHER -> /\ \E issues \in {Reported(frame, p)} : result' = Result(frame, issues)
                         /\ step' = "issues"
                         /\ UNCHANGED <<current, worst, exit>>
    /\ UNCHANGED <<command, profile, files, before, temporary, hinted>>

\* The layer cannot be read; the loop over layers also catches the errors of the
\* reader, a single layer does not.
AuditFails ==
    /\ step = "audit"
    /\ Fails \/ (~Multi /\ Escapes)
    /\ UNCHANGED <<command, profile, files, before, temporary, hinted>>

After(kind) == IF kind = "issues" THEN "report" ELSE "verdict"

Skip(kind) ==
    /\ step = kind
    /\ ~Requested(kind)
    /\ step' = After(kind)
    /\ UNCHANGED <<command, profile, current, result, worst, files, before, temporary, hinted, exit>>

\* write_issue_layers and write_audit_report: an existing file is kept, unless
\* it may be replaced.
Open(kind) ==
    /\ step = kind
    /\ Requested(kind)
    /\ IF files[<<current, kind>>] # "absent" /\ ~MayReplace(kind)
       THEN Fails /\ UNCHANGED temporary
       ELSE /\ temporary' = temporary \cup {<<current, kind>>}
            /\ step' = IF kind = "issues" THEN "replace issues" ELSE "replace report"
            /\ UNCHANGED <<current, result, worst, exit>>
    /\ UNCHANGED <<command, profile, files, before, hinted>>

Replacing(kind) == step = (IF kind = "issues" THEN "replace issues" ELSE "replace report")

Publish(kind) ==
    /\ Replacing(kind)
    /\ files' = [files EXCEPT ![<<current, kind>>] = "new"]
    /\ temporary' = temporary \ {<<current, kind>>}
    /\ step' = After(kind)
    /\ UNCHANGED <<command, profile, current, result, worst, before, hinted, exit>>

WriteFailsLeavingTemporary(kind) ==
    /\ Replacing(kind)
    /\ Fails
    /\ UNCHANGED <<command, profile, files, before, temporary, hinted>>

\* The finally clause removes the temporary file.
WriteFails(kind) ==
    /\ Replacing(kind)
    /\ temporary' = temporary \ {<<current, kind>>}
    /\ Fails
    /\ UNCHANGED <<command, profile, files, before, hinted>>

\* Without the report extra the report is skipped with a hint.
Hint ==
    /\ Replacing("report")
    /\ temporary' = temporary \ {<<current, "report">>}
    /\ hinted' = hinted \cup {current}
    /\ step' = "verdict"
    /\ UNCHANGED <<command, profile, current, result, worst, files, before, exit>>

Verdict ==
    /\ step = "verdict"
    /\ Proceed(IF Passes(result, Policy) THEN worst ELSE Max({worst, 1}))
    /\ UNCHANGED <<command, profile, files, before, temporary, hinted>>

\* The process is killed: no finally clause runs.
Killed ==
    /\ exit = None
    /\ step' = "killed"
    /\ exit' = 137
    /\ UNCHANGED <<command, profile, current, result, worst, files, before, temporary, hinted>>

Next ==
    \/ Setup \/ Unreadable \/ Audit \/ AuditFails \/ Hint \/ Verdict \/ Killed
    \/ \E kind \in Kinds : Skip(kind) \/ Open(kind) \/ Publish(kind) \/ WriteFails(kind)

Spec == Init /\ [][Next]_vars

(***************************************************************************)
(* Properties                                                              *)
(***************************************************************************)

\* A finding counts when its check is enabled and its severity, as the profile
\* overrides it, is not below the gate.
Counts(p, code, category, severity) ==
    /\ CheckName(category) \in p.enabled
    /\ ~(Ranks[Override(p, [code |-> code, category |-> category, severity |-> severity])] < Ranks[Policy.failOn])

LocalSeverities(frame, p, type) ==
    {r.severity : r \in {q \in LocalRules(frame, p) : q.type = type /\ ~MetricUnsafe(frame, p)}}

\* The severities with which the audit reports two features that are equal, two
\* that overlap, and a cell that breaks a rule.
DuplicateSeverities(frame, p) ==
    {"error"} \cup (IF RunPreset(frame, p) = "point_survey" /\ p.tolerance > 0 /\ ~MetricUnsafe(frame, p)
                    THEN {"warning"} ELSE {})
              \cup LocalSeverities(frame, p, "no_duplicate")

OverlapSeverities(frame, p) ==
    (IF RunPreset(frame, p) \in {"parcel", "admin_boundary"} THEN {"error"} ELSE {})
        \cup LocalSeverities(frame, p, "no_overlap")

OverlapTolerances(p) ==
    {0, p.tolerance} \cup {p.topology[k].tolerance : k \in DOMAIN p.topology}

BrokenRules(frame, p, k) ==
    {r \in Range(p.attributes) : r.type # "required" /\ r.column \in frame.rows[k].bad \cap frame.columns}

\* What a layer that passes is free of, in terms of its rows.
Sound(frame, p) ==
    /\ \A k \in Rows(frame) : At(frame, k) # None
    /\ frame.crs = "none" => Policy.unknownCrs
    /\ \A k \in Rows(frame) : Empty(frame, k) \/ ~Valid(frame, k) =>
           \E d \in Detected(frame, k) : ~Counts(p, <<"GEO", d>>, "geometry", "error")
    /\ p.types # {} /\ Counts(p, <<"GEO", "unexpected_type">>, "geometry", "error") => ExpectedTypes(frame, p)
    /\ \A q \in Pairs(frame) :
           Usable(frame, q[1]) /\ Usable(frame, q[2]) /\ Apart[At(frame, q[1]), At(frame, q[2])] = 0 =>
               \E s \in DuplicateSeverities(frame, p) : ~Counts(p, <<"TOP", "no_duplicate">>, "topology", s)
    /\ OverlapSeverities(frame, p) # {} =>
           \A q \in Pairs(frame) : (\A t \in OverlapTolerances(p) : q \in Overlapping(frame, t)) =>
               \E s \in OverlapSeverities(frame, p) : ~Counts(p, <<"TOP", "no_overlap">>, "topology", s)
    /\ \A k \in Rows(frame) : \A r \in BrokenRules(frame, p, k) :
           \E q \in BrokenRules(frame, p, k) :
               q.type = r.type /\ ~Counts(p, <<"ATTR", q.type>>, "attribute", q.severity)
    /\ Counts(p, <<"META", "geographic_crs">>, "metadata", "error") /\ p.projected => frame.crs # "geographic"

\* Exit 0 means that every layer was audited and has no defect that the profile
\* turns into a failure: no empty or invalid geometry, no unexpected type, no
\* equal or overlapping features, no broken cell, no missing CRS.  A defect that
\* several checks report may pass when one of them grades it below the gate.
PassedMeansSound ==
    step = "done" /\ exit = 0 =>
        \A n \in DOMAIN Targets : \A frame \in {Frame(n)}, p \in {LayerProfile(n)} : Sound(frame, p)

DangleRules(frame, p) ==
    {r \in LocalRules(frame, p) : r.type = "no_dangles" /\ ~MetricUnsafe(frame, p)}

\* The ends of a layer that its profile reports as not connected.
UnconnectedEnds(frame, p) ==
    LET open(r) == {e \in LineEnds(frame) : \E i \in EndpointIssues(frame, r) : i.index = e[1] /\ i.place = End(frame, e)}
    IN (IF RunPreset(frame, p) = "road" THEN DeadEnds(frame) ELSE {})
           \cup (UNION {open(r) : r \in DangleRules(frame, p)})

ReportsOn(issues, frame, e) == {i \in Reports(issues) : i.index = e[1] /\ i.place = End(frame, e)}

\* Of the reports on one end of a line exactly one is left, whichever checks made
\* them; it is no more than a hint only where nothing lies within the tolerances
\* of the rules on undershoots, and then no rule calls the end an undershoot.
EndpointsReportedOnce ==
    result # None =>
        \A p \in {LayerProfile(current)}, frame \in {Frame(current)} :
            p.overrides = <<>> /\ "topology" \in p.enabled =>
                /\ \A e \in UnconnectedEnds(frame, p) : Cardinality(ReportsOn(result.issues, frame, e)) = 1
                /\ \A i \in Reports(result.issues) :
                       /\ \E e \in UnconnectedEnds(frame, p) : i.index = e[1] /\ i.place = End(frame, e)
                       /\ GradesRoadEnds(p) /\ ~HasNeighbour(frame, p, i.index, i.place) => i.severity = "info"
                       /\ i.severity = "info" /\ (\A r \in DangleRules(frame, p) : r.severity # "info") =>
                              /\ ~HasNeighbour(frame, p, i.index, i.place)
                              /\ \A j \in result.issues : j.code = <<"TOP", "no_overshoot_undershoot">> =>
                                     ~(j.index = i.index /\ j.place = i.place)

\* The files tell what the exit code says: a verdict (0 or 1) leaves the requested
\* outputs of every layer new, but for a report skipped with a hint; a new
\* report never stands beside old issue layers; what may not be replaced is
\* kept; and only a kill leaves a temporary file.
OutputsHonest ==
    /\ step = "done" /\ exit \in {0, 1} =>
           \A slot \in Slots : Requested(slot[2]) =>
               files[slot] = "new" \/ (slot[2] = "report" /\ slot[1] \in hinted /\ files[slot] = before[slot])
    /\ \A n \in DOMAIN Targets :
           files[<<n, "report">>] = "new" /\ Requested("issues") => files[<<n, "issues">>] = "new"
    /\ \A slot \in Slots : files[slot] # before[slot] =>
           Requested(slot[2]) /\ (before[slot] = "absent" \/ MayReplace(slot[2]))
    /\ step \in {"done", "traceback"} => temporary = {}

\* "The default quality policy always ... rejects exact duplicate feature
\* geometries ... Dataset-specific profiles add ... rules without replacing
\* those baseline integrity checks" (docs/quality-workflow.md): a layer with two
\* equal features fails the default gate.
BaselineKept ==
    result # None /\ LayerProfile(current).overrides = <<>> /\ "topology" \in LayerProfile(current).enabled =>
        LET frame == Frame(current) IN
        (\E q \in Pairs(frame) : Usable(frame, q[1]) /\ Usable(frame, q[2])
                                 /\ Apart[At(frame, q[1]), At(frame, q[2])] = 0)
            => ~Passes(result, DefaultGate)
=============================================================================
