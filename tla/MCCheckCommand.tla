--------------------------- MODULE MCCheckCommand ---------------------------
\* geoqc check over small layers of polygons, lines and points.  Polygons are
\* sets of cells of ten units; cell 9 is what the frame encloses.  Lines and
\* points lie on a grid with the distance |dx| + |dy|; two tolerances apart.
EXTENDS CheckCommand, TLC

Polygon(cells, flaws) == [type |-> "Polygon", cells |-> cells, segment |-> <<>>, flaws |-> flaws]
Line(x1, y1, x2, y2) == [type |-> "LineString", cells |-> {}, segment |-> <<x1, y1, x2, y2>>, flaws |-> {}]
Point(x, y) == [type |-> "Point", cells |-> {}, segment |-> <<x, y, x, y>>, flaws |-> {}]

Shape ==
    ("west" :> Polygon({1, 2}, {})) @@ ("twin" :> Polygon({1, 2}, {"repeated"}))
    @@ ("middle" :> Polygon({2, 3}, {})) @@ ("east" :> Polygon({3, 4}, {"no_spikes"}))
    @@ ("bow" :> Polygon({1}, {"invalid", "crossing"})) @@ ("void" :> Polygon({}, {"empty"}))
    @@ ("frame" :> Polygon({5, 6, 7, 8}, {})) @@ ("speck" :> Polygon({9}, {}))
    @@ ("main" :> Line(0, 0, 12, 0)) @@ ("stub" :> Line(4, 3, 4, 9)) @@ ("cross" :> Line(6, -2, 6, 9))
    @@ ("tee" :> Line(8, 0, 8, 9)) @@ ("join" :> Line(12, 0, 12, 9)) @@ ("lone" :> Line(40, 40, 40, 49))
    @@ ("onward" :> Line(13, 0, 20, 0))
    @@ ("peg" :> Point(0, 0)) @@ ("copy" :> Point(0, 0)) @@ ("near" :> Point(1, 0)) @@ ("away" :> Point(9, 9))

Larger(a, b) == IF a < b THEN b ELSE a
Smaller(a, b) == IF a < b THEN a ELSE b

Between(p, q) == Larger(p[1] - q[1], q[1] - p[1]) + Larger(p[2] - q[2], q[2] - p[2])

\* The facts are tabulated once, as constants: nothing is measured in a state.
MCGeometry == DOMAIN Shape
Segment(g) == Shape[g].segment
Of(type) == {g \in MCGeometry : Shape[g].type = type}
EndsOf(s) == <<<<s[1], s[2]>>, <<s[3], s[4]>>>>
Places == UNION {Range(EndsOf(Segment(g))) : g \in Of("LineString")}

Outside(v, low, high) == Larger(0, Larger(low - v, v - high))
Low(s, axis) == Smaller(s[axis], s[axis + 2])
High(s, axis) == Larger(s[axis], s[axis + 2])

MCGap == [p, q \in Places |-> Between(p, q)]

MCDistance == [p \in Places, g \in MCGeometry |->
    LET s == Segment(g)
    IN IF s = <<>> THEN 99
       ELSE Outside(p[1], Low(s, 1), High(s, 1)) + Outside(p[2], Low(s, 2), High(s, 2))]

MCCommon == [g, h \in MCGeometry |-> 10 * Cardinality(Shape[g].cells \cap Shape[h].cells)]

\* The tolerance within which two geometries are equal, 99 when there is none.
MCApart == [g, h \in MCGeometry |->
    LET s == Segment(g) t == Segment(h)
    IN IF Shape[g].type # Shape[h].type \/ Shape[g].cells # Shape[h].cells THEN 99
       ELSE IF Shape[g].type = "Polygon" THEN 0
       ELSE Larger(Between(EndsOf(s)[1], EndsOf(t)[1]), Between(EndsOf(s)[2], EndsOf(t)[2]))]

MCHoles(S) ==
    {h \in {[place |-> "cell 9", area |-> 10]} : "frame" \in S /\ \A g \in S : 9 \notin Shape[g].cells}

Crossings == [g, h \in Of("LineString") |->
    LET s == Segment(g) t == Segment(h)
    IN IF \A axis \in {1, 2} : Larger(Low(s, axis), Low(t, axis)) <= Smaller(High(s, axis), High(t, axis))
       THEN <<Larger(Low(s, 1), Low(t, 1)), Larger(Low(s, 2), Low(t, 2))>> ELSE None]
MCMeets == [g, h \in Of("LineString") |-> Crossings[g, h] # None]

MCJunction == [g, h \in Of("LineString") |->
    LET p == Crossings[g, h]
    IN IF p = None \/ g = h \/ (p \in Range(EndsOf(Segment(g))) /\ p \in Range(EndsOf(Segment(h))))
       THEN None ELSE p]

MCTailLength == [p \in Places, g, h \in Of("LineString") |->
    IF Crossings[g, h] = None THEN 0 ELSE Between(p, Crossings[g, h])]

MCFact == [g \in MCGeometry |->
    [type |-> Shape[g].type, flaws |-> Shape[g].flaws, area |-> 10 * Cardinality(Shape[g].cells),
     thin |-> g = "speck", ends |-> IF Shape[g].segment = <<>> THEN <<>> ELSE EndsOf(Shape[g].segment)]]

Rule(type, layer) == [type |-> type, layer |-> layer]

\* bidang-tanah and jalan, their lengths in quarters of a metre.
MCBuiltin ==
    ("bidang-tanah" :>
        [name |-> "bidang-tanah", preset |-> "parcel", enabled |-> {"geometry", "crs", "topology"},
         types |-> Polygonal, projected |-> TRUE,
         topology |-> <<Rule("no_overlap", "bidang_tanah") @@ [tolerance |-> 1],
                        Rule("no_spikes", "bidang_tanah") @@ [minimum |-> 2, severity |-> "warning"],
                        Rule("minimum_area", "bidang_tanah") @@ [minimum |-> 15, severity |-> "warning"]>>,
         gate |-> [minimum |-> 90]])
    @@ ("jalan" :>
        [name |-> "jalan", preset |-> "road", enabled |-> {"geometry", "crs", "topology"},
         types |-> Linear, projected |-> TRUE,
         topology |-> <<Rule("no_dangles", "jalan") @@ [tolerance |-> 1, severity |-> "warning"],
                        Rule("no_overshoot_undershoot", "jalan") @@ [tolerance |-> 3]>>,
         gate |-> [minimum |-> 80]])

MCGenericPresets == {"parcel", "admin_boundary", "road", "point_survey"}

\* Profiles of a user: parcels with an id and a schema, whose rule on duplicates
\* only warns; and a survey whose points are equal within a tolerance.
Parcels ==
    [name |-> "parcels", preset |-> "parcel", id |-> "nib", crsRequired |-> FALSE,
     attributes |-> <<[column |-> "nib", type |-> "required", severity |-> "error"],
                      [column |-> "nib", type |-> "not_null", severity |-> "error"],
                      [column |-> "use", type |-> "not_null", severity |-> "warning"]>>,
     topology |-> <<Rule("attribute_overlap", "parcels") @@ [column |-> "use", policy |-> "allow_different"],
                    Rule("no_duplicate", "parcels") @@ [severity |-> "warning"]>>,
     overrides |-> (<<"TOP", "no_gap">> :> "error") @@ (<<"network">> :> "info"),
     gate |-> [unknownCrs |-> TRUE, failOn |-> "error"]]
Survey == [name |-> "survey", preset |-> "point_survey", tolerance |-> 1, gate |-> [unknownCrs |-> TRUE]]
Later == [name |-> "later", enabled |-> {"spatial"}]
\* What a command without a profile audits with.
Plain == [name |-> "default"]
Refused == [name |-> "refused", topology |-> <<Rule("must_be_inside", "parcels")>>]

Row(g, bad) == [geometry |-> g, bad |-> bad]
Layer(name, kind, crs, columns, rows) ==
    [name |-> name, kind |-> kind, crs |-> crs, columns |-> columns, rows |-> rows]

UpTo(S, m) == UNION {[1..n -> S] : n \in 0..m}
AllCrs == {"none", "geographic", "projected"}

Command(source) ==
    [source |-> source, profile |-> None, preset |-> None, layer |-> None, explicit |-> {},
     noOutput |-> TRUE, overwrite |-> FALSE, minimum |-> None, failOn |-> None]

PolygonLayers ==
    {Layer("parcels", "Polygon", crs, {"nib", "use"}, rows) : crs \in AllCrs,
        rows \in UpTo({Row(g, {}) : g \in {"west", "twin", "middle", "bow", "void", "frame", "peg"}}
                      \cup {Row("east", {"nib"}), Row(None, {})}, 2)}
    \cup {Layer("parcels", "Polygon", "projected", columns, rows) : columns \in {{}, {"nib"}},
        rows \in UpTo({Row("west", {"nib", "use"}), Row("twin", {"use"}), Row("east", {})}, 2)}
    \cup {Layer("parcels", "Polygon", "projected", {"nib", "use"}, rows) :
        rows \in UpTo({Row("frame", {}), Row("speck", {"use"}), Row("west", {"nib", "use"})}, 3)}

LineLayers ==
    {Layer("roads", "LineString", crs, {}, rows) : crs \in AllCrs,
        rows \in UpTo({Row(g, {}) : g \in {"main", "stub", "cross", "tee", "join", "lone", "onward"}}, 2)}
    \cup {Layer("roads", "LineString", "projected", {}, <<Row("main", {})>> \o rows) :
        rows \in [1..2 -> {Row(g, {}) : g \in {"stub", "cross", "tee", "join", "lone", "onward", "peg"}}]}

PointLayers ==
    {Layer("pegs", "Point", crs, {}, rows) : crs \in AllCrs,
        rows \in UpTo({Row(g, {}) : g \in {"peg", "copy", "near", "away"}}, 2)}

Audits ==
    {[Command(<<l>>) EXCEPT !.profile = p, !.failOn = f] :
        l \in PolygonLayers, p \in {None, Parcels, Refused}, f \in {None, "warning"}}
    \cup {[Command(<<l>>) EXCEPT !.preset = "bidang-tanah"] : l \in PolygonLayers}
    \cup {[Command(<<l>>) EXCEPT !.preset = p] : l \in LineLayers, p \in {None, "jalan", "road"}}
    \cup {[Command(<<l>>) EXCEPT !.profile = p] : l \in PointLayers, p \in {None, Survey, Later}}
    \cup {[Command(<<l>>) EXCEPT !.profile = Plain] : l \in {k \in PolygonLayers \cup LineLayers : Len(k.rows) = 1}}

Good == Layer("parcels", "Polygon", "projected", {}, <<Row("west", {}), Row("east", {})>>)
Bad == Layer("plots", "Polygon", "projected", {}, <<Row("bow", {})>>)
Ugly == Layer("drafts", "Polygon", "projected", {}, <<Row("west", {}), Row(None, {})>>)

Publications ==
    {[Command(s) EXCEPT !.noOutput = n, !.explicit = e, !.overwrite = o, !.layer = l, !.preset = p, !.minimum = m] :
        s \in UpTo({Good, Bad, Ugly}, 2) \ {<<>>}, n \in BOOLEAN, e \in SUBSET Kinds, o \in BOOLEAN,
        l \in {None, 1}, p \in {None, "parcel", "unheard"}, m \in {None, 100}}

MCScenarios == Audits \cup Publications
=============================================================================
