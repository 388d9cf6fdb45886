--------------------------- MODULE CoverageRepair ---------------------------
(***************************************************************************)
(* ShapelyTopologyRepairer.repair_coverage: one call of the repairer, step *)
(* by step.  Every feature is mended on its own, overlaps are erased in    *)
(* feature order, enclosed gaps are given to the neighbour with the        *)
(* longest shared border, and a last check puts an original back wherever  *)
(* the result would change too much.                                       *)
(*                                                                         *)
(* The plane is a finite partition: Faces that features may cover, and the *)
(* unbounded rest, Outside.  A geometry is the set of faces it covers and  *)
(* a kind that says how GEOS treats it.                                    *)
(***************************************************************************)
EXTENDS Integers, Sequences, FiniteSets, FiniteSetsExt

CONSTANTS
    Faces,      \* the bounded faces of the plane
    Outside,    \* the unbounded face
    Border,     \* length of the border two places share
    Area,       \* area of a face
    Slivers,    \* the parts _is_sliver accepts (area or thinness)
    None        \* an option that is not set

Places == Faces \cup {Outside}

ASSUME PlaneAssumption ==
    /\ Outside \notin Faces
    /\ IsFiniteSet(Faces)
    /\ Border \in [Places \X Places -> Nat]
    /\ \A x, y \in Places : Border[x, y] = Border[y, x]
    /\ Area \in [Faces -> Nat \ {0}]
    /\ Slivers \subseteq SUBSET Faces

\* "polygon": valid.  "repeated": coincident vertices.  "selftouch": an invalid
\* ring that GEOS overlays and make_valid turns into a polygon.  "collapsed": an invalid ring without
\* area, which make_valid turns into a line.  "broken": every GEOS operation on
\* it raises.  "line": no polygon at all.
Kinds == {"polygon", "repeated", "selftouch", "collapsed", "broken", "line"}
Geometries ==
    {g \in [faces : SUBSET Faces, kind : Kinds] :
        g.kind \in {"collapsed", "line"} => g.faces = {}}
Issues == {"duplicate_vertex", "self_intersection", "sliver_polygon", "overlap", "gap"}
RepairConfigs ==
    [mend : BOOLEAN, slivers : BOOLEAN, resolve : BOOLEAN, fill : BOOLEAN,
     gap : Nat \cup {None}, budget : Nat \cup {None}]

VARIABLES
    config,     \* the RepairConfig of the call
    originals,  \* its input
    repaired,   \* the candidates
    actions,    \* the issue types of each feature's actions
    failed,     \* failures: is a reason recorded for the feature
    phase,      \* where the call stands
    at,         \* the feature a loop has reached
    holes,      \* _small_holes of the union
    pending     \* those _fill_gaps has not visited

repairVars == <<config, originals, repaired, actions, failed, phase, at, holes, pending>>

Features == 1..Len(originals)

(***************************************************************************)
(* The plane                                                               *)
(***************************************************************************)
AreaOf(S) == MapThenSumSet(LAMBDA f : Area[f], S)

Linked(S) ==
    \A T \in (SUBSET S) \ {{}, S} : \E x \in T, y \in S \ T : Border[x, y] > 0

\* The whole plane is in one piece.
ASSUME ConnectedAssumption == Linked(Places)

\* The connected parts of a set of places.
Parts == [S \in SUBSET Places |->
    {P \in (SUBSET S) \ {{}} : Linked(P) /\ \A x \in P, y \in S \ P : Border[x, y] = 0}]

\* Polygon(ring) for the interior rings of every part: what a ring encloses,
\* islands of other parts included.
HolesIn == [S \in SUBSET Faces |->
    {H \in UNION {Parts[Places \ P] : P \in Parts[S]} : Outside \notin H}]

\* The threshold None is inf: every area is below it.
SmallHoles(S, threshold) == {H \in HolesIn[S] : threshold = None \/ AreaOf(H) < threshold}

\* Length of a set of borders, each of them a pair of places.
Length[E \in SUBSET (Places \X Places)] ==
    IF E = {} THEN 0
    ELSE LET e == CHOOSE e \in E : TRUE IN Border[e] + Length[E \ {e}]

\* The hole's ring as far as it lies on the boundary of a geometry, and how long that is.
Ring(hole, g) == {e \in hole \X (Places \ hole) : (e[1] \in g.faces) # (e[2] \in g.faces)}
Shared(hole, g) == Length[Ring(hole, g)]

(***************************************************************************)
(* Geometries                                                              *)
(***************************************************************************)
IsEmpty(g) == g.kind = "polygon" /\ g.faces = {}
IsPolygonal(g) == g.kind # "line" /\ ~IsEmpty(g)
IsValid(g) == g.kind \in {"polygon", "repeated", "line"}

Mended(g, cfg) ==
    IF g.kind = "repeated" \/ (cfg.mend /\ g.kind = "selftouch")
    THEN [g EXCEPT !.kind = "polygon"]
    ELSE IF cfg.mend /\ g.kind = "collapsed" THEN [g EXCEPT !.kind = "line"] ELSE g

Solid(g) == UNION (Parts[g.faces] \ Slivers)

\* _remove_slivers keeps a geometry that consists of slivers only.
DropsSlivers(g, cfg) == cfg.slivers /\ Solid(g) \notin {{}, g.faces}

Intrinsic(g, cfg) ==
    LET m == Mended(g, cfg) IN
    IF DropsSlivers(m, cfg) THEN [m EXCEPT !.faces = Solid(m)] ELSE m

IntrinsicActions(g, cfg) ==
    {issue \in Issues :
        \/ issue = "duplicate_vertex" /\ g.kind = "repeated"
        \/ issue = "self_intersection" /\ cfg.mend /\ g.kind \in {"selftouch", "collapsed"}
        \/ issue = "sliver_polygon" /\ DropsSlivers(Mended(g, cfg), cfg)}

MendRaises(g, cfg) == cfg.mend /\ g.kind = "broken"

OverBudget(before, after, cfg) ==
    /\ cfg.budget # None
    /\ AreaOf(before.faces) > 0
    /\ LET change == AreaOf(after.faces) - AreaOf(before.faces) IN
       100 * (IF change < 0 THEN -change ELSE change) > cfg.budget * AreaOf(before.faces)

SafetyFailure(before, after, cfg) ==
    \/ ~IsValid(after)
    \/ ~IsEmpty(before) /\ IsEmpty(after)
    \/ IsPolygonal(before) /\ ~IsPolygonal(after)
    \/ OverBudget(before, after, cfg)

MendingFails(g, cfg) == MendRaises(g, cfg) \/ SafetyFailure(g, Intrinsic(g, cfg), cfg)

\* The candidate the first loop leaves: a feature that cannot be mended keeps
\* its geometry, and takes part in the cross-feature steps with it.
AfterMending(g, cfg) == IF MendingFails(g, cfg) THEN g ELSE Intrinsic(g, cfg)

(***************************************************************************)
(* One call                                                                *)
(***************************************************************************)
RepairInit ==
    /\ phase = "idle"
    /\ config = None
    /\ originals = <<>>
    /\ repaired = <<>>
    /\ actions = <<>>
    /\ failed = <<>>
    /\ at = 1
    /\ holes = {}
    /\ pending = {}

\* repair_coverage has returned: its locals are gone.
Return ==
    /\ phase = "done"
    /\ phase' = "idle"
    /\ config' = None
    /\ originals' = <<>>
    /\ repaired' = <<>>
    /\ actions' = <<>>
    /\ failed' = <<>>
    /\ at' = 1
    /\ holes' = {}
    /\ pending' = {}

\* repair_coverage is called.
Call(coverage, cfg) ==
    /\ phase' = IF coverage = <<>> THEN "done" ELSE "intrinsic"
    /\ config' = cfg
    /\ originals' = coverage
    /\ repaired' = coverage
    /\ actions' = [i \in DOMAIN coverage |-> {}]
    /\ failed' = [i \in DOMAIN coverage |-> FALSE]
    /\ at' = 1
    /\ holes' = {}
    /\ pending' = {}

\* The loop goes on, or the call goes on to its next part.
Advance(next) ==
    IF at < Len(originals) THEN at' = at + 1 /\ phase' = phase
                           ELSE at' = 1 /\ phase' = next

AfterOverlaps == IF config.fill THEN "gaps" ELSE "safety"
AfterIntrinsicNested == IF config.resolve THEN "overlaps" ELSE "safety"
AfterIntrinsic == IF config.resolve THEN "overlaps" ELSE AfterOverlaps

RepairFeature ==
    /\ phase = "intrinsic"
    /\ LET g == originals[at] IN
       /\ repaired' = [repaired EXCEPT ![at] = AfterMending(g, config)]
       /\ actions' = [actions EXCEPT ![at] =
                         IF MendRaises(g, config) THEN {} ELSE IntrinsicActions(g, config)]
       /\ failed' = [failed EXCEPT ![at] = MendingFails(g, config)]
    /\ Advance(AfterIntrinsic)
    /\ UNCHANGED <<config, originals, holes, pending>>

\* The features the overlap loop has placed, and what they cover.
PlacedIn(n) == {k \in 1..n : IsPolygonal(repaired[k])}
Covered(indices) == UNION {repaired[k].faces : k \in indices}
Breaks(indices) == \E k \in indices : repaired[k].kind = "broken"

OverlayRaises ==
    /\ PlacedIn(at - 1) # {}
    /\ IsPolygonal(repaired[at])
    /\ Breaks(PlacedIn(at))

ErasedByAll(i) == repaired[i].faces \ Covered(PlacedIn(Len(repaired)) \ {i})
ErasedByLast(i) == repaired[i].faces \ Covered(PlacedIn(i - 1) \ 1..(i - 2))

\* What _resolve_overlaps leaves of the feature it has reached.
Erased(i) == repaired[i].faces \ Covered(PlacedIn(i - 1))

EraseOverlap ==
    /\ phase = "overlaps"
    /\ ~OverlayRaises
    /\ IF IsPolygonal(repaired[at]) /\ Erased(at) # repaired[at].faces
       THEN /\ repaired' = [repaired EXCEPT ![at] = [faces |-> Erased(at), kind |-> "polygon"]]
            /\ actions' = [actions EXCEPT ![at] = @ \cup {"overlap"}]
       ELSE UNCHANGED <<repaired, actions>>
    /\ Advance(AfterOverlaps)
    /\ UNCHANGED <<config, originals, failed, holes, pending>>

\* _fill_gaps looks for holes once, before it fills the first.
FindHoles ==
    /\ phase = "gaps"
    /\ ~Breaks(PlacedIn(Len(repaired)))
    /\ holes' = SmallHoles(Covered(PlacedIn(Len(repaired))), config.gap)
    /\ pending' = holes'
    /\ phase' = IF holes' = {} THEN "safety" ELSE "filling"
    /\ UNCHANGED <<config, originals, repaired, actions, failed, at>>

\* The polygons that share the longest border with the hole; the first of
\* them is the target, and there is none when no polygon borders it.
Widest(hole) ==
    {k \in PlacedIn(Len(repaired)) :
        /\ Shared(hole, repaired[k]) > 0
        /\ \A j \in PlacedIn(Len(repaired)) :
               Shared(hole, repaired[j]) <= Shared(hole, repaired[k])}

FillHole ==
    /\ phase = "filling"
    /\ \E hole \in pending :
        /\ IF Widest(hole) # {}
           THEN LET target == Min(Widest(hole)) IN
                /\ repaired' = [repaired EXCEPT ![target] =
                                   [faces |-> @.faces \cup hole, kind |-> "polygon"]]
                /\ actions' = [actions EXCEPT ![target] = @ \cup {"gap"}]
           ELSE UNCHANGED <<repaired, actions>>
        /\ pending' = pending \ {hole}
    /\ phase' = IF pending' = {} THEN "safety" ELSE phase
    /\ UNCHANGED <<config, originals, failed, at, holes>>

\* A GEOS error in a cross-feature step takes every feature back.
RollBack ==
    /\ \/ phase = "overlaps" /\ OverlayRaises
       \/ phase = "gaps" /\ Breaks(PlacedIn(Len(repaired)))
    /\ repaired' = originals
    /\ actions' = [i \in Features |-> {}]
    /\ failed' = [i \in Features |-> TRUE]
    /\ phase' = "safety"
    /\ at' = 1
    /\ UNCHANGED <<config, originals, holes, pending>>

\* The last loop: what failed, or changed too much, goes back to the original.
Rejected(i) == failed[i] \/ SafetyFailure(originals[i], repaired[i], config)

CheckSafetyWithoutRestore ==
    /\ phase = "safety"
    /\ failed' = [failed EXCEPT ![at] = Rejected(at)]
    /\ Advance("done")
    /\ UNCHANGED <<config, originals, repaired, actions, holes, pending>>

CheckSafety ==
    /\ phase = "safety"
    /\ repaired' = [repaired EXCEPT ![at] = IF Rejected(at) THEN originals[at] ELSE @]
    /\ failed' = [failed EXCEPT ![at] = Rejected(at)]
    /\ Advance("done")
    /\ UNCHANGED <<config, originals, actions, holes, pending>>

RepairStep ==
    RepairFeature \/ EraseOverlap \/ FindHoles \/ FillHole \/ RollBack \/ CheckSafety

(***************************************************************************)
(* _build_result: the report of a finished call                            *)
(***************************************************************************)
Status(i) ==
    IF failed[i] THEN "failed"
    ELSE IF actions[i] = {} THEN "unchanged"
    ELSE IF IsValid(repaired[i]) THEN "repaired" ELSE "failed"

ReportedActions(i) == IF failed[i] THEN {} ELSE actions[i]

ReportedAfter(i) ==
    IF failed[i] \/ actions[i] = {} THEN originals[i] ELSE repaired[i]

RepairTypeOK ==
    /\ config \in RepairConfigs \cup {None}
    /\ originals \in Seq(Geometries)
    /\ repaired \in [Features -> Geometries]
    /\ actions \in [Features -> SUBSET Issues]
    /\ failed \in [Features -> BOOLEAN]
    /\ phase \in {"idle", "intrinsic", "overlaps", "gaps", "filling", "safety", "done"}
    /\ at \in 1..Len(originals) \cup {1}
    /\ holes \subseteq SUBSET Faces
    /\ pending \subseteq holes

(***************************************************************************)
(* Properties of a finished call                                           *)
(***************************************************************************)

Claims(i) == AfterMending(originals[i], config).faces

\* No coverage is lost: each face the mended coverage has stays with the first
\* feature that claims it, whatever is erased, filled, rejected or rolled back
\* afterwards ("earlier features keep disputed area").
FirstClaimKept ==
    phase = "done" =>
        \A i \in Features : \A f \in Claims(i) :
            (\A j \in 1..(i - 1) : f \notin Claims(j)) => f \in repaired[i].faces

Overlaps(i, j) == repaired[i].faces \cap repaired[j].faces

\* With resolve_overlaps, two features of the output overlap only where one of
\* them was put back to its original, or where a filled hole held an island.
OverlapsExplained ==
    phase = "done" /\ config.resolve =>
        \A i, j \in Features : i # j /\ Overlaps(i, j) # {} =>
            \/ failed[i] \/ failed[j]
            \/ Overlaps(i, j) \subseteq UNION holes

\* With fill_gaps, no enclosed gap below the threshold is left, unless a
\* feature was put back to its original.
GapsClosed ==
    phase = "done" /\ config.fill /\ (\A i \in Features : ~failed[i]) =>
        SmallHoles(Covered(PlacedIn(Len(repaired))), config.gap) = {}

\* The report and the coverage that repair_coverage returns agree: a feature
\* reported failed or unchanged has its original geometry in the output, and a
\* feature whose geometry differs is reported as repaired, by some action.
ReportMatchesOutput ==
    phase = "done" => \A i \in Features :
        /\ ReportedAfter(i) = repaired[i]
        /\ Status(i) = "failed" => repaired[i] = originals[i]
        /\ repaired[i] # originals[i] => ReportedActions(i) # {}
=============================================================================
