--------------------------- MODULE SpatialAnalysis --------------------------
(***************************************************************************)
(* The three analyses behind /api/spatial: near duplicates within one      *)
(* dataset, the differences between two, and the conflicts between layers. *)
(* A geometry of the plane is what GEOS says of it: its envelope, area and *)
(* length, and for two geometries those of their intersection and union    *)
(* and their Hausdorff distance.  Shares are per mille.                    *)
(***************************************************************************)
EXTENDS Integers, FiniteSets, Sequences, FiniteSetsExt, SequencesExt

CONSTANTS
    Shapes,         \* the geometries; two that equals() takes for one are one
    Extent,         \* Extent[g]: [area, length, low, high], the corners of its envelope <<x, y>>
    Common,         \* Common[g][h]: [empty, area, length] of their intersection
    United,         \* United[g][h]: [area, length] of their union
    Hausdorff,      \* Hausdorff[g][h]: their Hausdorff distance
    Hypot(_, _),    \* the diagonal of a box with these sides
    SpatialRequests,    \* the requests: [kind, left, right, threshold, tolerance, most, layers]
    Null            \* no answer, no attributes, no agency, no counterpart; an empty geometry

(***************************************************************************)
(* Measures of two geometries                                              *)
(***************************************************************************)
Share(a, b) == (1000 * a) \div b

Measure(s) == IF s.area > 0 THEN s.area ELSE s.length

\* Polygons that share no more than an edge are compared by its length.
Iou(g, h) ==
    LET all == Measure(United[g][h])
    IN  IF all = 0 THEN (IF g = h THEN 1000 ELSE 0)
        ELSE Min({1000, Share(Measure(Common[g][h]), all)})

\* The diagonal of the envelope of both.
Scale(g, h) ==
    LET side(axis) == Max({Extent[g].high[axis], Extent[h].high[axis]})
                          - Min({Extent[g].low[axis], Extent[h].low[axis]})
    IN  Hypot(side(1), side(2))

HausdorffSimilarity(g, h) ==
    IF Scale(g, h) = 0 THEN (IF Hausdorff[g][h] = 0 THEN 1000 ELSE 0)
    ELSE Max({0, 1000 - Share(Hausdorff[g][h], Scale(g, h))})

Box(g) == (Extent[g].high[1] - Extent[g].low[1]) * (Extent[g].high[2] - Extent[g].low[2])
Fill(g) == IF Box(g) = 0 THEN 1000 ELSE Share(Extent[g].area, Box(g))

\* Half the ratio of the measures and half of how equally the envelopes are filled.
ShapeSimilarity(g, h) ==
    LET measures == {Measure(Extent[g]), Measure(Extent[h])}
        ratio == IF Max(measures) = 0 THEN (IF g = h THEN 1000 ELSE 0) ELSE Share(Min(measures), Max(measures))
        apart == Max({Fill(g), Fill(h)}) - Min({Fill(g), Fill(h)})
    IN  Max({0, Min({1000, (ratio + 1000 - apart) \div 2})})

\* The default weights of the detector, and the plain mean of the comparator.
Similarity(g, h) == (45 * Iou(g, h) + 35 * HausdorffSimilarity(g, h) + 20 * ShapeSimilarity(g, h)) \div 100
Score(g, h) == (Iou(g, h) + HausdorffSimilarity(g, h) + ShapeSimilarity(g, h)) \div 3

\* What the index finds: the envelopes, the one grown by the tolerance, meet.
Nearby(g, h, tolerance) ==
    \A axis \in {1, 2} : /\ Extent[g].low[axis] - tolerance <= Extent[h].high[axis]
                         /\ Extent[h].low[axis] <= Extent[g].high[axis] + tolerance

\* Measures are not negative; an intersection has no direction and lies in both
\* envelopes; a geometry shares all of itself with itself.
ASSUME GeosAssumption ==
    /\ Null \notin Shapes
    /\ \A g \in Shapes :
           /\ Extent[g].area \in Nat /\ Extent[g].length \in Nat
           /\ \A axis \in {1, 2} :
                  /\ Extent[g].low[axis] \in Int /\ Extent[g].high[axis] \in Int
                  /\ Extent[g].low[axis] <= Extent[g].high[axis]
           /\ Measure(Common[g][g]) = Measure(United[g][g])
           /\ Hausdorff[g][g] = 0
    /\ \A g, h \in Shapes :
           /\ Common[g][h].area \in Nat /\ Common[g][h].length \in Nat
           /\ United[g][h].area \in Nat /\ United[g][h].length \in Nat
           /\ Hausdorff[g][h] \in Nat
           /\ Scale(g, h) \in Nat
           /\ Common[g][h] = Common[h][g]
           /\ ~Nearby(g, h, 0) => Common[g][h] = [empty |-> TRUE, area |-> 0, length |-> 0]

\* Datasets are lists of geometries; a threshold is a share.
IsDataset(d) == d.shapes \in Seq(Shapes \cup {Null})

ASSUME RequestAssumption ==
    /\ Null \notin Nat
    /\ \A r \in SpatialRequests :
           /\ r.kind \in {"duplicates", "compare", "conflicts"}
           /\ r.threshold \in 0..1000 /\ r.tolerance \in Nat /\ r.most \in Nat
           /\ IsDataset(r.left) /\ IsDataset(r.right)
           /\ r.layers \in Seq(Range(r.layers))
           /\ \A layer \in Range(r.layers) : IsDataset(layer)

VARIABLES
    request,        \* the request
    row,            \* the feature whose neighbours are collected
    chosen,         \* the pairs collected, or matched, so far
    reply           \* Null until the request is answered

spatialVars == <<request, row, chosen, reply>>

Geometries ==
    UNION {Range(dataset.shapes) : dataset \in {request.left, request.right} \cup Range(request.layers)}

\* A geometry that is empty, attributes that do not belong to the features.
Malformed ==
    \/ Null \in Geometries
    \/ \E dataset \in {request.left, request.right} :
        Len(dataset.attributes) \notin {0, Len(dataset.shapes)}

Answering(kind) == reply = Null /\ request.kind = kind /\ ~Malformed

RefuseRequest ==
    /\ reply = Null /\ Malformed
    /\ reply' = [kind |-> "refused"]
    /\ UNCHANGED <<request, row, chosen>>

Reply(report) ==
    /\ reply' = report
    /\ UNCHANGED <<request, row, chosen>>

(***************************************************************************)
(* Duplicates                                                              *)
(***************************************************************************)
Neighbours(i) ==
    {j \in DOMAIN request.left.shapes :
        j > i /\ Nearby(request.left.shapes[i], request.left.shapes[j], request.tolerance)}

Truncated == Cardinality(chosen) >= request.most

\* The index returns the neighbours in any order; the ceiling is met between two.
CollectPair ==
    /\ Answering("duplicates") /\ ~Truncated
    /\ row <= Len(request.left.shapes)
    /\ \E j \in Neighbours(row) : <<row, j>> \notin chosen /\ chosen' = chosen \cup {<<row, j>>}
    /\ UNCHANGED <<request, row, reply>>

NextRow ==
    /\ Answering("duplicates") /\ ~Truncated
    /\ row <= Len(request.left.shapes)
    /\ \A j \in Neighbours(row) : <<row, j>> \in chosen
    /\ row' = row + 1
    /\ UNCHANGED <<request, chosen, reply>>

Duplicate(i, j) == Similarity(request.left.shapes[i], request.left.shapes[j]) >= request.threshold

ReportDuplicates ==
    /\ Answering("duplicates")
    /\ Truncated \/ row > Len(request.left.shapes)
    /\ Reply([kind |-> "duplicates", truncated |-> Truncated,
              pairs |-> {p \in chosen : Duplicate(p[1], p[2])}])

(***************************************************************************)
(* Comparison                                                              *)
(***************************************************************************)
ScoreOf(p) == Score(request.left.shapes[p[1]], request.right.shapes[p[2]])

Scored ==
    {p \in (DOMAIN request.left.shapes) \X (DOMAIN request.right.shapes) :
        /\ Nearby(request.left.shapes[p[1]], request.right.shapes[p[2]], 0)
        /\ ScoreOf(p) >= request.threshold}

PrecedesByIndex(p, q) == p[1] < q[1] \/ (p[1] = q[1] /\ p[2] < q[2])

\* The descending order of (score, left index, right index).
Precedes(p, q) ==
    \E ahead \in {ScoreOf(p) - ScoreOf(q)} :
        \/ ahead > 0
        \/ ahead = 0 /\ (p[1] > q[1] \/ (p[1] = q[1] /\ p[2] > q[2]))

Free(p) == \A q \in chosen : p[1] # q[1] /\ p[2] # q[2]

Match ==
    /\ Answering("compare")
    /\ \E free \in {{p \in Scored : Free(p)}} :
           \E p \in free : (\A q \in free \ {p} : Precedes(p, q)) /\ chosen' = chosen \cup {p}
    /\ UNCHANGED <<request, row, reply>>

AttributesOf(dataset, i) == IF dataset.attributes = <<>> THEN Null ELSE dataset.attributes[i]

KindOf(p) ==
    IF /\ request.left.shapes[p[1]] = request.right.shapes[p[2]]
       /\ AttributesOf(request.left, p[1]) = AttributesOf(request.right, p[2])
    THEN "unchanged" ELSE "modified"

ReportComparison ==
    /\ Answering("compare")
    /\ ~\E p \in Scored : Free(p)
    /\ Reply([kind |-> "compare", differences |->
          {<<KindOf(p), p[1], p[2]>> : p \in chosen}
          \cup {<<"removed", i, Null>> : i \in DOMAIN request.left.shapes \ {p[1] : p \in chosen}}
          \cup {<<"added", Null, j>> : j \in DOMAIN request.right.shapes \ {p[2] : p \in chosen}}])

(***************************************************************************)
(* Conflicts                                                               *)
(***************************************************************************)
RuleFor(a, b) ==
    CASE {a.role, b.role} = {"road", "river"} -> "road_river_crossing"
      [] {a.role, b.role} = {"building", "river"} -> "building_in_river"
      [] {a.role, b.role} = {"boundary"} -> "boundary_conflict"
      [] a.agency # Null /\ b.agency # Null /\ a.agency # b.agency -> "inter_agency_overlap"
      [] OTHER -> Null

Base ==
    [road_river_crossing |-> 45, building_in_river |-> 80, inter_agency_overlap |-> 60,
     boundary_conflict |-> 55]

\* The share of the smaller geometry that lies in the other one.
Magnitude(g, h) ==
    LET least == Min({Measure(Extent[g]), Measure(Extent[h])})
    IN  IF least = 0 THEN 1000 ELSE Min({1000, Share(Measure(Common[g][h]), least)})

Severity(rule, g, h) == Min({100, Base[rule] + (20 * Magnitude(g, h)) \div 1000})

Meeting(left, right) ==
    {p \in (DOMAIN left.shapes) \X (DOMAIN right.shapes) :
        /\ Nearby(left.shapes[p[1]], right.shapes[p[2]], 0)
        /\ ~Common[left.shapes[p[1]]][right.shapes[p[2]]].empty}

\* The conflicts of features <<layer, index>>; geometries that share a point conflict.
ConflictsBetween(left, right) ==
    {<<RuleFor(left, right), {<<left.name, p[1]>>, <<right.name, p[2]>>},
       Severity(RuleFor(left, right), left.shapes[p[1]], right.shapes[p[2]])>> :
         p \in IF RuleFor(left, right) = Null THEN {} ELSE Meeting(left, right)}

ConflictsOf(layers) ==
    UNION {ConflictsBetween(layers[p[1]], layers[p[2]]) :
             p \in {p \in (DOMAIN layers) \X (DOMAIN layers) : p[1] < p[2]}}

ReportConflicts ==
    /\ Answering("conflicts")
    /\ Reply([kind |-> "conflicts", conflicts |-> ConflictsOf(request.layers)])

SpatialNext ==
    \/ RefuseRequest
    \/ CollectPair \/ NextRow \/ ReportDuplicates
    \/ Match \/ ReportComparison
    \/ ReportConflicts

SpatialIdle ==
    /\ row = 1
    /\ chosen = {}
    /\ reply = Null

SpatialInit == request \in SpatialRequests /\ SpatialIdle

SpatialSpec == SpatialInit /\ [][SpatialNext]_spatialVars

(***************************************************************************)
(* Properties                                                              *)
(***************************************************************************)
Left == request.left.shapes
Right == request.right.shapes

\* A pair takes its two features from each other's reach: one of them is in a
\* pair that is at least as good.
Settled(p, pairs) ==
    p \in pairs \/ \E q \in pairs : (q[1] = p[1]) # (q[2] = p[2]) /\ ScoreOf(q) >= ScoreOf(p)

\* No two features of a dataset have the score of equals.
ToldApart(shapes) == \A i, j \in DOMAIN shapes : i # j => Score(shapes[i], shapes[j]) < 1000

\* Every feature is told about once; no two features that match better than
\* what they got are left apart; and a dataset whose features the scores tell
\* apart has not changed by being written in another order.
DifferencesHonest ==
    LET found == reply.differences
        pairs == {<<d[2], d[3]>> : d \in {d \in found : d[1] \in {"modified", "unchanged"}}}
    IN  /\ \A i \in DOMAIN Left : Cardinality({d \in found : d[2] = i}) = 1
        /\ \A j \in DOMAIN Right : Cardinality({d \in found : d[3] = j}) = 1
        /\ \A p \in Scored : Settled(p, pairs)
        /\ IsInjective(Right) /\ Range(Left) = Range(Right) /\ ToldApart(Left) =>
               \A d \in found : d[1] \in {"modified", "unchanged"} /\ Left[d[2]] = Right[d[3]]

\* What the intersection adds to the similarity is all that geometries with
\* separate envelopes can not have.
Unseen == 550

\* Only duplicates are reported, no more than asked for.  One is lost without the
\* answer saying that it is truncated only when it is out of reach of the index,
\* and then it is no more similar than two long parallel lines a little apart: at
\* a threshold above that, such as the default one, none is lost in silence.
DuplicatesHonest ==
    LET all == {p \in (DOMAIN Left) \X (DOMAIN Left) : p[1] < p[2] /\ Duplicate(p[1], p[2])}
    IN  /\ reply.pairs \subseteq all
        /\ Cardinality(reply.pairs) <= request.most
        /\ \A p \in all \ reply.pairs :
               \/ reply.truncated
               \/ /\ ~Nearby(Left[p[1]], Left[p[2]], request.tolerance)
                  /\ Similarity(Left[p[1]], Left[p[2]]) <= Unseen

\* The order of the layers does not matter.
ConflictsHonest == reply.conflicts = ConflictsOf(Reverse(request.layers))

\* What the three analyses answer.
SpatialRepliesHonest ==
    /\ reply # Null /\ reply.kind = "compare" => DifferencesHonest
    /\ reply # Null /\ reply.kind = "duplicates" => DuplicatesHonest
    /\ reply # Null /\ reply.kind = "conflicts" => ConflictsHonest
=============================================================================
