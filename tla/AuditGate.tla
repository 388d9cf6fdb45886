------------------------------ MODULE AuditGate -----------------------------
(***************************************************************************)
(* The dataset audit: what audit_geodataframe finds in one layer under a   *)
(* quality profile, which checks it reports as passed, failed or skipped,  *)
(* its score, and the verdict of the quality gate.                         *)
(*                                                                         *)
(* A frame is [name, crs, kind, columns, rows]: the layer's name, "none",  *)
(* "geographic" or "projected", the geometry type the layer declares, its  *)
(* columns, and rows [geometry, bad] where bad are the columns whose cell  *)
(* breaks the rules on it.  Geometry is a plane of facts: GEOS is asked by *)
(* the constants.  Findings are kept in the batches the code appends them  *)
(* in, because of two findings with one key the later one survives.        *)
(***************************************************************************)
EXTENDS Integers, Sequences, FiniteSets, FiniteSetsExt, SequencesExt

CONSTANTS
    None,               \* absent value, and the geometry of a row without one
    Geometry,           \* the geometries a row may hold
    Fact,               \* Fact[g]: [type, flaws, area, thin, ends]; a flaw is one of
                        \* those below or a rule type that the feature breaks
    Common,             \* Common[g, h]: area that two geometries share
    Apart,              \* Apart[g, h]: the tolerance within which they are equal
    Holes(_),           \* enclosed gaps [place, area] of a set of polygons
    Distance,           \* Distance[p, g]: distance of a place from a geometry
    Gap,                \* Gap[p, q]: distance between two places
    Meets,              \* Meets[g, h]: whether two lines intersect
    Junction,           \* Junction[g, h]: a place they share that is not an end of both, or None
    TailLength          \* TailLength[p, g, h]: length of the end p of line g beyond its
                        \* crossing with line h, 0 when there is none

Ranks == [info |-> 0, warning |-> 1, error |-> 2, critical |-> 3]

Polygonal == {"Polygon", "MultiPolygon"}
Linear == {"LineString", "MultiLineString"}
MetricPresets == {"parcel", "admin_boundary", "road"}
AllChecks == {"geometry", "crs", "attributes", "topology", "spatial"}

\* An end is no further from a line than it reaches beyond its crossing with it.
ASSUME TailAssumption ==
    \A g, h \in {k \in Geometry : Fact[k].type \in Linear} : \A n \in {1, 2} :
        LET place == Fact[g].ends[n]
        IN TailLength[place, g, h] > 0 => Distance[place, h] \in 0..TailLength[place, g, h]

(***************************************************************************)
(* Profiles                                                                *)
(***************************************************************************)
DefaultGate == [minimum |-> 75, failOn |-> "error", unknownCrs |-> FALSE]

DefaultProfile ==
    [name |-> "default", preset |-> None, tolerance |-> 0, minimumArea |-> 0, crsRequired |-> TRUE,
     projected |-> FALSE, allowed |-> {}, id |-> None, enabled |-> AllChecks, types |-> {},
     topology |-> <<>>, attributes |-> <<>>, overrides |-> <<>>, gate |-> DefaultGate]

DefaultRule ==
    [type |-> "", layer |-> "", reference |-> None, tolerance |-> 0, minimum |-> 0, types |-> {},
     column |-> None, policy |-> "deny_all", severity |-> "error"]

With(given, default) == [f \in DOMAIN default |-> IF f \in DOMAIN given THEN given[f] ELSE default[f]]

NeedsReference ==
    {"must_be_inside", "must_not_intersect", "boundary_must_match", "must_touch",
     "must_intersect", "must_cover"}

\* TopologyRule.__post_init__: what a rule of each type must bring.
RuleAccepted(r) ==
    /\ r.layer # "" /\ r.tolerance >= 0 /\ r.minimum >= 0
    /\ r.type \in NeedsReference => r.reference # None
    /\ r.type = "allowed_geometry_type" => r.types # {}
    /\ r.type \in {"no_spikes", "minimum_segment_length", "minimum_vertex_distance", "precision_grid"}
           => r.minimum > 0
    /\ r.type = "attribute_overlap" => r.column # None

ProfileAccepted(p) ==
    /\ p.name # ""
    /\ p.tolerance >= 0 /\ p.minimumArea >= 0
    /\ p.enabled # {} /\ p.enabled \subseteq AllChecks
    /\ p.gate.minimum \in 0..100
    /\ \A k \in DOMAIN p.topology : RuleAccepted(p.topology[k])

\* quality_profile_from_dict: unknown fields are refused and missing ones have
\* the defaults above, those of the crs, gate and rule sections among them;
\* None when the file is refused.
ProfileFromDict(raw) ==
    LET rules == IF "topology" \in DOMAIN raw THEN raw.topology ELSE <<>>
        gate == IF "gate" \in DOMAIN raw THEN raw.gate ELSE <<>>
        profile == With([f \in DOMAIN raw \ {"topology", "gate"} |-> raw[f]],
            [DefaultProfile EXCEPT
                !.name = "",
                !.topology = [k \in DOMAIN rules |-> With(rules[k], DefaultRule)],
                !.gate = With(gate, DefaultGate)])
        known ==
            /\ DOMAIN raw \subseteq DOMAIN DefaultProfile
            /\ DOMAIN gate \subseteq DOMAIN DefaultGate
            /\ \A k \in DOMAIN rules : DOMAIN rules[k] \subseteq DOMAIN DefaultRule
    IN IF known /\ ProfileAccepted(profile) THEN profile ELSE None

\* _GENERIC_PROFILES, the try-out profiles by declared geometry type.
GenericProfile(kind) ==
    LET generic(name, preset, types) ==
            [DefaultProfile EXCEPT !.name = name, !.preset = preset, !.types = types, !.crsRequired = FALSE]
    IN CASE kind \in Polygonal -> generic("generic-polygon", "parcel", Polygonal)
         [] kind \in Linear -> generic("generic-line", "road", Linear)
         [] kind \in {"Point", "MultiPoint"} -> generic("generic-point", "point_survey", {"Point", "MultiPoint"})
         [] OTHER -> None

\* _auto_profile: lines may be rivers, so their network checks are off.
AutoProfile(kind) ==
    LET generic == GenericProfile(kind)
    IN IF generic = None THEN [DefaultProfile EXCEPT !.name = "geometry-cli", !.crsRequired = FALSE]
       ELSE IF generic.name = "generic-line" THEN [generic EXCEPT !.preset = None]
       ELSE generic

\* _bind_preset_layer: a preset whose rules name one layer is pointed at the
\* audited one.
BindPresetLayer(p, layer) ==
    LET named == {p.topology[k].layer : k \in DOMAIN p.topology}
            \cup ({p.topology[k].reference : k \in DOMAIN p.topology} \ {None})
        bound(r) == [r EXCEPT !.layer = layer, !.reference = IF r.reference = None THEN None ELSE layer]
    IN IF Cardinality(named) # 1 \/ layer \in named THEN p
       ELSE [p EXCEPT !.topology = [k \in DOMAIN p.topology |-> bound(p.topology[k])]]

(***************************************************************************)
(* Findings                                                                *)
(***************************************************************************)
\* A finding; place stands for its geometry.
Issue(code, type, category, severity, index, related, place) ==
    [code |-> code, type |-> type, category |-> category, severity |-> severity, index |-> index,
     related |-> related, place |-> place, column |-> None, id |-> None, relatedId |-> None]

Rows(frame) == DOMAIN frame.rows
At(frame, k) == frame.rows[k].geometry
Flaws(frame, k) == Fact[At(frame, k)].flaws
Is(frame, k, types) == Fact[At(frame, k)].type \in types
Empty(frame, k) == "empty" \in Flaws(frame, k)
Valid(frame, k) == Flaws(frame, k) \cap {"invalid", "ring", "crossing", "infinite"} = {}
Usable(frame, k) == {"empty", "infinite"} \cap Flaws(frame, k) = {}
Pairs(frame) == {p \in Rows(frame) \X Rows(frame) : p[1] < p[2]}

\* ShapelyGeometryValidator.validate.
Detected(frame, k) ==
    {d \in {"empty_geometry", "invalid_geometry", "ring_error", "self_intersection", "duplicate_vertex"} :
        \/ d = "empty_geometry" /\ Empty(frame, k)
        \/ d = "invalid_geometry" /\ ~Valid(frame, k)
        \/ d = "ring_error" /\ "ring" \in Flaws(frame, k)
        \/ d = "self_intersection" /\ {"crossing", "notsimple"} \cap Flaws(frame, k) # {}
        \/ d = "duplicate_vertex" /\ "repeated" \in Flaws(frame, k)}

\* One finding per root cause: a specific defect drops the generic one.
GeometryIssues(frame) ==
    LET specific(k) == Detected(frame, k) \cap {"empty_geometry", "self_intersection", "ring_error"}
        kept(k) == IF specific(k) = {} THEN Detected(frame, k) ELSE Detected(frame, k) \ {"invalid_geometry"}
    IN UNION {{Issue(<<"GEO", d>>, d, "geometry", IF d = "duplicate_vertex" THEN "warning" ELSE "error",
                     k, None, At(frame, k)) : d \in kept(k)} : k \in Rows(frame)}

DuplicateIssues(frame, tolerance, severity) ==
    {Issue(<<"TOP", "no_duplicate">>, "duplicate_feature", "topology", severity, p[1], p[2], At(frame, p[1])) :
        p \in {q \in Pairs(frame) : Usable(frame, q[1]) /\ Usable(frame, q[2])
                                    /\ Apart[At(frame, q[1]), At(frame, q[2])] <= tolerance}}

\* The pairs an overlay finds to share more than the tolerance; it is not
\* asked about invalid geometries.
Overlapping(frame, tolerance) ==
    {q \in Pairs(frame) : ~Empty(frame, q[1]) /\ Valid(frame, q[1]) /\ Valid(frame, q[2])
                          /\ Common[At(frame, q[1]), At(frame, q[2])] > tolerance}

OverlapIssues(frame, tolerance, severity) ==
    {Issue(<<"TOP", "no_overlap">>, "overlap", "topology", severity, p[1], p[2],
           <<At(frame, p[1]), At(frame, p[2])>>) : p \in Overlapping(frame, tolerance)}

\* With a tolerance, larger gaps are taken for intended ones.
GapIssues(frame, tolerance, severity) ==
    LET polygons == {At(frame, k) : k \in {j \in Rows(frame) :
            Is(frame, j, Polygonal) /\ ~Empty(frame, j) /\ Valid(frame, j)}}
    IN {Issue(<<"TOP", "no_gap">>, "gap", "topology", severity, None, None, h.place) :
            h \in {g \in Holes(polygons) : tolerance = 0 \/ g.area <= tolerance}}

MinimumAreaIssues(frame, minimum, severity) ==
    {Issue(<<"TOP", "minimum_area">>, "below_minimum_area", "topology", severity, k, None, At(frame, k)) :
        k \in {j \in Rows(frame) : ~Empty(frame, j) /\ Valid(frame, j)
                                   /\ Fact[At(frame, j)].area < minimum}}

\* No area in square metres without a CRS.
SliverIssues(frame) ==
    {Issue(<<"TOP", "sliver">>, "sliver_polygon", "topology", "warning", k, None, At(frame, k)) :
        k \in {j \in Rows(frame) : frame.crs # "none" /\ ~Empty(frame, j) /\ Valid(frame, j)
                                   /\ Is(frame, j, Polygonal)
                                   /\ (Fact[At(frame, j)].area < 1 \/ Fact[At(frame, j)].thin)}}

Lines(frame) == {k \in Rows(frame) : Is(frame, k, Linear) /\ Usable(frame, k)}
LineEnds(frame) == Lines(frame) \X {1, 2}
End(frame, e) == Fact[At(frame, e[1])].ends[e[2]]
Closed(frame, k) == Fact[At(frame, k)].ends[1] = Fact[At(frame, k)].ends[2]
Others(frame, k) == Lines(frame) \ {k}

\* ShapelyRoadNetworkAnalyzer: ends that no other line and no other end touches,
\* those of them with a line close by, and crossings that are not ends.
DeadEnds(frame) ==
    {e \in LineEnds(frame) :
        /\ \A k \in Others(frame, e[1]) : Distance[End(frame, e), At(frame, k)] > 0
        /\ \A f \in LineEnds(frame) \ {e} : Gap[End(frame, e), End(frame, f)] > 0}

NearestLine(frame, e, tolerance, among) ==
    LET near == {k \in among \ {e[1]} : Distance[End(frame, e), At(frame, k)] \in 1..tolerance}
    IN IF near = {} THEN None
       ELSE CHOOSE k \in near : \A j \in near :
                LET dk == Distance[End(frame, e), At(frame, k)]
                    dj == Distance[End(frame, e), At(frame, j)]
                IN dk < dj \/ (dk = dj /\ k <= j)

RoadIssues(frame, tolerance) ==
    LET network(kind, j, k, place) == Issue(<<"ROAD", kind>>, kind, "network", "warning", j, k, place)
        nearest(e) == NearestLine(frame, e, tolerance, Lines(frame))
        junctions == {p \in Lines(frame) \X Lines(frame) : p[1] < p[2] /\ Junction[At(frame, p[1]), At(frame, p[2])] # None}
    IN {Issue(<<"GEO", "unexpected_type">>, "unexpected_geometry_type", "geometry", "error", k, None, At(frame, k)) :
            k \in {j \in Rows(frame) : ~Is(frame, j, Linear)}}
       \cup {network("dead_end", e[1], None, End(frame, e)) : e \in DeadEnds(frame)}
       \cup {network("broken_connection", Min({e[1], nearest(e)}), Max({e[1], nearest(e)}), End(frame, e)) :
                e \in {d \in DeadEnds(frame) : nearest(d) # None}}
       \cup {network("unnoded_intersection", p[1], p[2], Junction[At(frame, p[1]), At(frame, p[2])]) : p \in junctions}

\* A profile's own rules on the layer -----------------------------------------
RuleIssue(rule, index, related, place) ==
    Issue(<<"TOP", rule.type>>, rule.type, "topology", rule.severity, index, related, place)

EndpointIssues(frame, rule) ==
    LET connected(e) ==
            IF rule.type = "no_dangles"
            THEN \E f \in LineEnds(frame) : f[1] # e[1] /\ Gap[End(frame, e), End(frame, f)] <= rule.tolerance
            ELSE \E k \in Others(frame, e[1]) : Distance[End(frame, e), At(frame, k)] <= rule.tolerance
    IN {RuleIssue(rule, e[1], None, End(frame, e)) : e \in {f \in LineEnds(frame) : ~Closed(frame, f[1]) /\ ~connected(f)}}

OvershootUndershoot(frame, rule) ==
    LET sound == {k \in Lines(frame) : Valid(frame, k)}
        open == {e \in LineEnds(frame) : e[1] \in sound /\ ~Closed(frame, e[1])}
        tail(e, k) == TailLength[End(frame, e), At(frame, e[1]), At(frame, k)]
        apart(e) == {k \in sound : ~Meets[At(frame, e[1]), At(frame, k)]}
        nearest(e) == NearestLine(frame, e, rule.tolerance, apart(e))
    IN {RuleIssue(rule, p[1][1], p[2], End(frame, p[1])) :
            p \in {q \in open \X sound : /\ q[2] # q[1][1]
                                         /\ tail(q[1], q[2]) \in 1..rule.tolerance
                                         /\ Distance[End(frame, q[1]), At(frame, q[2])] > 0}}
       \cup {RuleIssue(rule, e[1], nearest(e), End(frame, e)) : e \in {d \in open : nearest(d) # None}}

\* Two values are equal when both cells keep the rules or both break them.
AttributeOverlapIssues(frame, rule) ==
    LET equal(p) == (rule.column \in frame.rows[p[1]].bad) <=> (rule.column \in frame.rows[p[2]].bad)
        allowed(p) == (rule.policy = "allow_equal" /\ equal(p)) \/ (rule.policy = "allow_different" /\ ~equal(p))
    IN {RuleIssue(rule, p[1], p[2], <<At(frame, p[1]), At(frame, p[2])>>) :
            p \in {q \in Overlapping(frame, rule.tolerance) : ~allowed(q)}}

\* The rules on single features, which GEOS or the coordinates decide.
FeatureRuleIssues(frame, rule) ==
    LET breaks(k) == IF rule.type = "allowed_geometry_type" THEN ~Is(frame, k, rule.types)
                     ELSE rule.type \in Flaws(frame, k)
    IN {RuleIssue(rule, k, None, At(frame, k)) : k \in {j \in Rows(frame) : breaks(j)}}

\* evaluate_topology_rules and evaluate_advanced_rule.
TopologyIssues(frame, rule) ==
    CASE rule.type = "no_overlap" -> OverlapIssues(frame, rule.tolerance, rule.severity)
      [] rule.type = "no_gap" -> GapIssues(frame, rule.tolerance, rule.severity)
      [] rule.type = "no_duplicate" -> DuplicateIssues(frame, rule.tolerance, rule.severity)
      [] rule.type = "minimum_area" -> MinimumAreaIssues(frame, rule.minimum, rule.severity)
      [] rule.type \in {"no_dangles", "endpoint_must_connect"} -> EndpointIssues(frame, rule)
      [] rule.type = "no_overshoot_undershoot" -> OvershootUndershoot(frame, rule)
      [] rule.type = "attribute_overlap" -> AttributeOverlapIssues(frame, rule)
      [] OTHER -> FeatureRuleIssues(frame, rule)

(***************************************************************************)
(* One layer: audit_geodataframe                                           *)
(***************************************************************************)
ExpectedTypes(frame, p) == p.types = {} \/ \A k \in Rows(frame) : Is(frame, k, p.types)

\* _profile_needs_metric_crs and _metric_skip_reason: the profile has a
\* distance, length or area threshold and the CRS has no linear unit.
NeedsMetricCrs(p) ==
    \/ p.tolerance > 0 \/ p.minimumArea > 0
    \/ \E k \in DOMAIN p.topology :
           p.topology[k].tolerance > 0 \/ (p.topology[k].minimum > 0 /\ p.topology[k].type # "no_spikes")

MetricUnsafe(frame, p) == NeedsMetricCrs(p) /\ frame.crs # "projected"

\* The preset the audit runs with: none for a layer with an unexpected type, and
\* no metric one without a CRS.
RunPreset(frame, p) ==
    IF ~ExpectedTypes(frame, p) \/ (frame.crs = "none" /\ p.preset \in MetricPresets) THEN None ELSE p.preset

\* audit_geometries: the baseline checks and those of the preset.
BaseIssues(frame, p) ==
    LET tolerance == IF MetricUnsafe(frame, p) THEN 0 ELSE p.tolerance
        minimum == IF MetricUnsafe(frame, p) THEN 0 ELSE p.minimumArea
        preset == RunPreset(frame, p)
    IN <<GeometryIssues(frame), DuplicateIssues(frame, 0, "error")>>
       \o (IF preset \in {"parcel", "admin_boundary"}
           THEN <<OverlapIssues(frame, tolerance, "error"), GapIssues(frame, tolerance, "warning"),
                  MinimumAreaIssues(frame, minimum, "warning")>>
           ELSE IF preset = "road" THEN <<RoadIssues(frame, tolerance)>>
           ELSE IF preset = "point_survey" /\ tolerance > 0 THEN <<DuplicateIssues(frame, tolerance, "warning")>>
           ELSE <<>>)

GeometryTypeIssues(frame, p) ==
    {Issue(<<"GEO", "unexpected_type">>, "unexpected_geometry_type", "geometry", "error", k, None, At(frame, k)) :
        k \in {j \in Rows(frame) : p.types # {} /\ ~Is(frame, j, p.types)}}

AttributeIssue(rule, index, place) ==
    [Issue(<<"ATTR", rule.type>>, rule.type, "attribute", rule.severity, index, None, place)
        EXCEPT !.column = rule.column]

Required(column) == [column |-> column, type |-> "required", severity |-> "critical"]

\* _attribute_issues, one rule: only "required" notices a missing column.
AttributeIssues(frame, rule) ==
    IF rule.column \notin frame.columns
    THEN {AttributeIssue(rule, None, "nowhere") : r \in {rule.type} \cap {"required"}}
    ELSE {AttributeIssue(rule, k, At(frame, k)) :
             k \in {j \in Rows(frame) : rule.type # "required" /\ rule.column \in frame.rows[j].bad}}

CrsIssues(frame, p) ==
    LET issue(type, severity) == Issue(<<"META", type>>, type, "metadata", severity, None, None, "nowhere")
    IN IF frame.crs = "none"
       THEN {issue("missing_crs", IF p.crsRequired THEN "error" ELSE "warning")}
       ELSE {issue("geographic_crs", "error") : c \in {frame.crs} \cap (IF p.projected THEN {"geographic"} ELSE {})}
            \cup {issue("disallowed_crs", "error") : c \in {frame.crs} \ (IF p.allowed = {} THEN {frame.crs} ELSE p.allowed)}

Local(frame, rule) == rule.layer = frame.name /\ rule.reference = None

LocalRules(frame, p) == {r \in Range(p.topology) : Local(frame, r)}

MissingColumn(frame, rule) == rule.type = "attribute_overlap" /\ rule.column \notin frame.columns

\* A rule without its column is reported once and not run.
RuleBatches(frame, p, before) ==
    LET reported == {i.column : i \in {j \in UNION Range(before) : j.type = "required"}}
        missing == {r.column : r \in {q \in LocalRules(frame, p) : MissingColumn(frame, q)}}
        columns == SetToSeq(missing \ reported)
        runs(r) == Local(frame, r) /\ ~MissingColumn(frame, r)
    IN IF MetricUnsafe(frame, p) THEN <<>>
       ELSE [k \in DOMAIN columns |-> {AttributeIssue(Required(columns[k]), None, "nowhere")}]
            \o [k \in DOMAIN p.topology |-> IF runs(p.topology[k]) THEN TopologyIssues(frame, p.topology[k]) ELSE {}]

RawIssues(frame, p) ==
    LET profiled == BaseIssues(frame, p) \o <<GeometryTypeIssues(frame, p)>>
            \o [k \in DOMAIN p.attributes |-> AttributeIssues(frame, p.attributes[k])]
            \o <<CrsIssues(frame, p)>>
            \o (IF p.name = "generic-polygon" THEN <<SliverIssues(frame)>> ELSE <<>>)
    IN profiled \o RuleBatches(frame, p, profiled)

\* _merge_road_endpoints: the reports of one end (a feature and a place) become
\* the first of the rule's ones, or of the preset's; an end with no other
\* geometry within the rule's tolerance is a road end.
EndpointCodes == {<<"ROAD", "dead_end">>, <<"TOP", "no_dangles">>}
Reports(batch) == {i \in batch : i.code \in EndpointCodes}
SameFeature(i, j) == i.index = j.index
SameEnd(i, j) == i.index = j.index /\ i.place = j.place

UndershootTolerances(p) ==
    {r.tolerance : r \in {q \in Range(p.topology) : q.type = "no_overshoot_undershoot"}}

GradesRoadEnds(p) == \E t \in UndershootTolerances(p) : t > 0

\* Another geometry within the largest of these tolerances.
HasNeighbour(frame, p, index, place) ==
    \E k \in Rows(frame) \ {index} : \E t \in UndershootTolerances(p) : Distance[place, At(frame, k)] <= t

Merged(frame, p, i) ==
    IF GradesRoadEnds(p) /\ ~HasNeighbour(frame, p, i.index, i.place) THEN [i EXCEPT !.severity = "info"] ELSE i

MergeRoadEndpoints(frame, p, batches) ==
    LET ahead(i, n, j, m) ==    \* the report i of batch n comes before j of batch m
            IF i.code = j.code THEN n < m ELSE i.code = <<"TOP", "no_dangles">>
        kept(i, n) == ~\E m \in DOMAIN batches : \E j \in Reports(batches[m]) :
            SameEnd(i, j) /\ ahead(j, m, i, n)
    IN [n \in DOMAIN batches |->
            (batches[n] \ Reports(batches[n]))
                \cup {Merged(frame, p, i) : i \in {j \in Reports(batches[n]) : kept(j, n)}}]

\* _attach_feature_ids: a missing id column is critical, and the row index
\* stands in for the id.
AttachFeatureIds(frame, p, batches) ==
    LET identifier(k) ==
            IF k = None THEN None
            ELSE IF p.id \notin frame.columns THEN k
            ELSE IF p.id \in frame.rows[k].bad THEN None ELSE <<"id", k>>
        named(i) == [i EXCEPT !.id = identifier(i.index), !.relatedId = identifier(i.related)]
        missing(i) == p.id \notin frame.columns /\ i.type = "required" /\ i.column = p.id
        raised(i) == IF missing(i) THEN [i EXCEPT !.severity = "critical"] ELSE i
        reported == \E i \in UNION Range(batches) : missing(i)
    IN IF p.id = None THEN batches
       ELSE [n \in DOMAIN batches |-> {named(raised(i)) : i \in batches[n]}]
            \o (IF p.id \in frame.columns \/ reported THEN <<>>
                ELSE <<{AttributeIssue(Required(p.id), None, "nowhere")}>>)

CheckName(category) ==
    CASE category = "attribute" -> "attributes"
      [] category = "metadata" -> "crs"
      [] category = "network" -> "topology"
      [] OTHER -> category

\* severity_overrides has codes, and categories (as <<category>>).
Override(p, i) ==
    IF i.code \in DOMAIN p.overrides THEN p.overrides[i.code]
    ELSE IF <<i.category>> \in DOMAIN p.overrides THEN p.overrides[<<i.category>>] ELSE i.severity

Graded(p, batch) ==
    {[i EXCEPT !.severity = Override(p, i)] : i \in {j \in batch : CheckName(j.category) \in p.enabled}}

\* DatasetIssue.fingerprint, and the key _rebuild_result indexes findings by: it
\* knows neither the column nor the severity.
Fingerprint(i) ==
    LET primary == IF i.id # None THEN <<"id", i.id>> ELSE <<"index", i.index, i.place>>
        related == IF i.relatedId # None THEN <<"id", i.relatedId>>
                   ELSE IF i.related # None THEN <<"index", i.related>> ELSE <<>>
    IN <<i.type, {primary, related}>>

Key(i) == <<Fingerprint(i), i.code, i.index, i.related, i.place>>

LastByKey(batches) ==
    UNION {{i \in batches[n] : \A m \in DOMAIN batches : m > n => \A j \in batches[m] : Key(j) # Key(i)} :
               n \in DOMAIN batches}

\* Each stage works on what the one before left.
Reported(frame, p) ==
    UNION {LastByKey([n \in DOMAIN batches |-> Graded(p, batches[n])]) :
        batches \in {AttachFeatureIds(frame, p, merged) :
            merged \in {MergeRoadEndpoints(frame, p, raw) : raw \in {RawIssues(frame, p)}}}}

(***************************************************************************)
(* Score, checks and verdicts                                              *)
(***************************************************************************)
Weights == [geometry |-> 35, topology |-> 35, network |-> 20, attribute |-> 5, metadata |-> 5]
Penalties == [info |-> 1, warning |-> 5, error |-> 10, critical |-> 25]
CategoryCap == 80
RepeatedFeatureCap == 30

Rounded(a, b) == (2 * a + b) \div (2 * b)

\* score_issues: points weigh with the share of affected features, bounded per
\* feature (or pair) and per category.  In tenths of a point.
QualityScore(frame, issues) ==
    LET size == Max({1, Len(frame.rows)})
        affected(i) == IF {i.index, i.related} = {None} THEN size
                       ELSE Min({size, Cardinality({i.index, i.related} \ {None})})
        entity(i) == <<i.index, i.related>>
        points(category) ==
            LET found == {i \in issues : i.category = category}
                raw(e) == MapThenSumSet(LAMBDA i : Penalties[i.severity] * affected(i), {i \in found : entity(i) = e})
                capped(e) == Min({RepeatedFeatureCap * size, raw(e)})
            IN Min({CategoryCap * size, MapThenSumSet(capped, {entity(i) : i \in found})})
        hundredths(category) == Rounded(100 * (100 * size - points(category)), size)
        overall == Rounded(MapThenSumSet(LAMBDA c : hundredths(c) * Weights[c], DOMAIN Weights), 1000)
    IN IF overall >= 1000 /\ \E i \in issues : Ranks[i.severity] >= Ranks["error"] THEN 999 ELSE overall

Result(frame, issues) ==
    [name |-> frame.name, issues |-> issues, score |-> QualityScore(frame, issues), crs |-> frame.crs]

\* DatasetAuditResult.passes.
Passes(result, gate) ==
    /\ result.score >= 10 * gate.minimum
    /\ result.crs = "none" => gate.unknownCrs
    /\ \A i \in result.issues : Ranks[i.severity] < Ranks[gate.failOn]

\* A row without a geometry: an AttributeError when the loop over the expected
\* types comes to it, otherwise a TypeError from audit_geometries.
AuditRaises(frame, p) ==
    LET missing == {k \in Rows(frame) : At(frame, k) = None}
        before == 1..(Min(missing) - 1)
    IN IF missing = {} THEN None
       ELSE IF p.types # {} /\ \A k \in before : Is(frame, k, p.types) THEN "AttributeError"
       ELSE "TypeError"
=============================================================================
