----------------------------- MODULE MCPipelines ----------------------------
(***************************************************************************)
(* Instances: road lines on a grid of 5 by 3 places, datasets of up to     *)
(* four features read in chunks of one to three, and polygons, lines and a *)
(* point of a lattice.                                                     *)
(***************************************************************************)
EXTENDS Pipelines

Grid == (0..4) \X (0..2)

\* Ten times the Euclidean distance, rounded down, by its square.
Root ==
    [n \in {a * a + b * b : a \in 0..4, b \in 0..2} |->
        CHOOSE r \in 0..50 : r * r <= 100 * n /\ (r + 1) * (r + 1) > 100 * n]

Squared(p, q) == (p[1] - q[1]) * (p[1] - q[1]) + (p[2] - q[2]) * (p[2] - q[2])
Distances == [p, q \in Grid |-> Root[Squared(p, q)]]
MCDist(p, q) == Distances[p, q]

Span(a, b) == Min({a, b})..Max({a, b})
Segments ==
    [p, q \in Grid |-> {r \in Span(p[1], q[1]) \X Span(p[2], q[2]) :
        (r[1] - p[1]) * (q[2] - p[2]) = (r[2] - p[2]) * (q[1] - p[1])}]
MCOn(p, q) == Segments[p, q]

RoadLines ==
    {<<<<0, 1>>, <<1, 1>>>>, <<<<2, 1>>, <<4, 1>>>>, <<<<2, 0>>, <<2, 1>>>>, <<<<2, 2>>, <<3, 2>>>>,
     <<<<3, 0>>, <<3, 1>>>>, <<<<0, 0>>, <<4, 0>>>>, <<<<3, 2>>, <<2, 1>>>>, <<<<2, 1>>, <<3, 1>>>>,
     <<<<1, 1>>, <<1, 2>>>>, <<<<1, 0>>, <<1, 1>>, <<0, 2>>>>, <<<<3, 1>>, <<4, 1>>, <<4, 2>>, <<3, 1>>>>}

Islands ==
    {<<<<0, 0>>, <<1, 0>>>>, <<<<0, 2>>, <<1, 2>>>>, <<<<3, 0>>, <<4, 0>>>>, <<<<4, 1>>, <<4, 2>>>>,
     <<<<2, 1>>, <<2, 2>>>>, <<<<0, 1>>, <<3, 1>>>>}

UpTo(S, n) == UNION {[1..k -> S] : k \in 1..n}

Network(l, t) ==
    [lines |-> l, tolerance |-> t, accepted |-> TRUE, existing |-> "absent", overwrite |-> FALSE]

MCNetworks ==
    {Network(l, t) : l \in UpTo(RoadLines, 3), t \in {10, 14, 20}}
    \cup {Network(l, t) : l \in UpTo(RoadLines, 2), t \in {30}}
    \cup {Network(SetToSeq(s), 0) : s \in {s \in SUBSET Islands : Cardinality(s) \in 1..4}}
    \cup {[Network(<<<<<<0, 0>>, <<4, 0>>>>>>, 10) EXCEPT !.accepted = a, !.existing = e, !.overwrite = o] :
        a \in BOOLEAN, e \in {"absent", "old"}, o \in BOOLEAN}

MCConnections == {[node |-> n, ceiling |-> c] : n \in {0, 10}, c \in {None, 10, 20}}

MCIssues(f) ==
    CASE f = "crossed" -> <<"self_intersection">>
      [] f = "doubled" -> <<"duplicate_vertex", "self_intersection">>
      [] f = "missing" -> <<"empty_geometry">>
      [] f = "torn" -> <<"invalid_geometry">>
      [] OTHER -> <<>>
MCUnparsable(f) == f = "torn"
MCVertices(f) == CASE f = "missing" -> 0 [] f = "doubled" -> 9 [] OTHER -> 3
MCBytes(f) == IF f = "missing" THEN 0 ELSE 2

MCRule ==
    [length |-> [finds |-> {"crossed", "doubled"}, raises |-> {}, silent |-> FALSE, answers |-> "length"],
     area |-> [finds |-> {"doubled", "missing"}, raises |-> {"torn"}, silent |-> FALSE, answers |-> "area"],
     hollow |-> [finds |-> {}, raises |-> {"missing"}, silent |-> TRUE, answers |-> "hollow"],
     alias |-> [finds |-> {}, raises |-> {"torn"}, silent |-> FALSE, answers |-> "length"]]

MCLimits == [bytes |-> 60, features |-> 3, memory |-> 70, percent |-> 35, vertices |-> 4, projected |-> 12]

Datasets(kinds, n) == {<<>>} \cup UpTo(kinds, n)

Job(features, consumer) ==
    [rows |-> features, features |-> features, consumer |-> consumer, crs |-> TRUE, counted |-> TRUE, requireCrs |-> FALSE,
     bytes |-> 10, memory |-> None, rules |-> <<>>, policy |-> "continue",
     existing |-> "absent", overwrite |-> FALSE]

MCJobs ==
    {[Job(d, "geometry") EXCEPT !.crs = c, !.counted = k, !.requireCrs = TRUE] :
        d \in Datasets({"valid", "crossed", "doubled", "torn"}, 4), c \in BOOLEAN, k \in BOOLEAN}
    \cup {[Job(d, "automatic") EXCEPT !.bytes = b, !.memory = m, !.counted = k] :
        d \in Datasets({"valid", "doubled", "missing", "torn"}, 4), b \in {10, 30, 70}, m \in {None, 60},
        k \in BOOLEAN}
    \cup {[Job(SelectSeq(d, LAMBDA f : f # "valid"), "automatic") EXCEPT !.rows = d, !.bytes = b, !.counted = k] :
        d \in Datasets({"valid", "doubled"}, 3), b \in {10, 70}, k \in BOOLEAN}
    \cup {[Job(d, "rules") EXCEPT !.rules = r, !.policy = p] :
        d \in Datasets({"valid", "crossed", "doubled", "missing", "torn"}, 4), p \in {"continue", "raise"},
        r \in {<<"length", "area">>, <<"area", "hollow", "length">>, <<"alias">>, <<"length", "unknown">>, <<"length", "length">>}}
    \cup {[Job(d, "writer") EXCEPT !.existing = e, !.overwrite = o] :
        d \in Datasets({"valid"}, 4), e \in {"absent", "old"}, o \in BOOLEAN}

\* Geometries of a lattice with doubled coordinates: an atom with two even ones is
\* a point, with one a unit of a line, with none a cell.  A closed box of them is a
\* polygon, a line or a point.
BoxOf(x1, y1, x2, y2) == ((2 * x1)..(2 * x2)) \X ((2 * y1)..(2 * y2))

Atoms ==
    [plot |-> BoxOf(0, 0, 2, 2), part |-> BoxOf(0, 0, 2, 1), next |-> BoxOf(2, 0, 4, 2),
     corner |-> BoxOf(0, 0, 2, 0) \cup BoxOf(0, 0, 0, 2), edge |-> BoxOf(2, 0, 2, 2),
     road |-> BoxOf(0, 4, 20, 4), lane |-> BoxOf(0, 5, 20, 5), peg |-> BoxOf(2, 2, 2, 2)]

Odd(a) == (a[1] % 2) + (a[2] % 2)
AreaOf(S) == Cardinality({a \in S : Odd(a) = 2})
LengthOf(S) == Cardinality({a \in S : Odd(a) = 1})
PointsOf(S) == {<<a[1] \div 2, a[2] \div 2>> : a \in {b \in S : Odd(b) = 0}}

MCShapes == DOMAIN Atoms
Corners == [g \in MCShapes |-> PointsOf(Atoms[g])]

MCExtent ==
    [g \in MCShapes |->
        LET side(axis) == {p[axis] : p \in Corners[g]}
        IN  [area |-> AreaOf(Atoms[g]), length |-> LengthOf(Atoms[g]),
             low |-> <<Min(side(1)), Min(side(2))>>, high |-> <<Max(side(1)), Max(side(2))>>]]

MCCommon ==
    [g \in MCShapes |-> [h \in MCShapes |->
        LET S == Atoms[g] \cap Atoms[h]
        IN  [empty |-> S = {}, area |-> AreaOf(S), length |-> LengthOf(S)]]]

MCUnited ==
    [g \in MCShapes |-> [h \in MCShapes |->
        LET S == Atoms[g] \cup Atoms[h]
        IN  [area |-> AreaOf(S), length |-> LengthOf(S)]]]

\* Distances rounded down to whole units, by their squares.
Roots == [n \in {a * a + b * b : a \in 0..20, b \in 0..5} |-> CHOOSE r \in 0..30 : r * r <= n /\ (r + 1) * (r + 1) > n]
MCHypot(a, b) == Roots[a * a + b * b]

Farthest(S, T) == Max({Min({Squared(p, q) : q \in T}) : p \in S})
MCHausdorff ==
    [g \in MCShapes |-> [h \in MCShapes |->
        Roots[Max({Farthest(Corners[g], Corners[h]), Farthest(Corners[h], Corners[g])})]]]

Dataset(shapes, attributes) == [shapes |-> shapes, attributes |-> attributes]
Nothing == Dataset(<<>>, <<>>)

Compared(l, r) ==
    [kind |-> "compare", left |-> l, right |-> r, threshold |-> 500, tolerance |-> 0, most |-> 1,
     layers |-> <<>>]

Layer(name, role, agency, shapes) ==
    [name |-> name, role |-> role, agency |-> agency, shapes |-> shapes]

Parcels == {"plot", "part", "next", "edge"}
Lines == {"road", "lane", "edge", "peg"}

MCSpatialRequests ==
    {[Compared(Dataset(l, <<>>), Dataset(r, <<>>)) EXCEPT !.threshold = t] :
        l \in [1..3 -> Parcels \ {"edge"}] \cup {<<>>, <<"peg">>}, r \in [1..2 -> Parcels] \cup {<<>>, <<"lane", "peg">>},
        t \in {300, 600}}
    \cup {Compared(Dataset(s, <<"a", "b", "c">>), Dataset(Reverse(s), a)) :
        s \in [1..3 -> Parcels], a \in {<<"c", "b", "a">>, <<"a", "b", "c">>, <<>>, <<"a">>}}
    \cup {[Compared(Dataset(s, <<>>), Nothing) EXCEPT
               !.kind = "duplicates", !.threshold = t, !.tolerance = g, !.most = m] :
        s \in UpTo(Parcels \cup {"corner"}, 3) \cup UpTo(Lines, 3) \cup {<<"plot", Null>>},
        t \in {400, 850}, g \in {0, 1}, m \in {1, 2, 4}}
    \cup {[Compared(Nothing, Nothing) EXCEPT
               !.kind = "conflicts", !.layers = <<Layer("a", p, "x", s), Layer("b", q, n, <<"corner", "next">>),
                                                  Layer("c", "river", "x", <<"edge", "peg">>)>>] :
        p \in {"road", "building", "boundary"}, q \in {"road", "boundary", "river"}, n \in {Null, "x", "y"},
        s \in UpTo(Parcels, 2)}
=============================================================================
