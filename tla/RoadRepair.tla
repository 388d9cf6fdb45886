----------------------------- MODULE RoadRepair -----------------------------
(***************************************************************************)
(* geoqc repair-roads: the ends of the lines are put in groups, the ends   *)
(* of a group move to its anchor, ends that still touch nothing move onto  *)
(* the nearest line, and the noded result is published.                    *)
(*                                                                         *)
(* Geometry is an abstract plane: places, a distance between any two, and  *)
(* the places on the straight segment between two.  A line is a sequence   *)
(* of places; noding, lengths and attributes are left out.  The index of   *)
(* the ends says that only those within the tolerance are looked at, which *)
(* the bound on a group says too.                                          *)
(***************************************************************************)
EXTENDS Publication, Integers, Sequences, FiniteSets, FiniteSetsExt

CONSTANTS
    Places,
    Dist(_, _),         \* distance of two places
    On(_, _),           \* places on the segment between two
    Networks            \* the inputs: [lines, tolerance, accepted, existing, overwrite];
                        \* accepted is FALSE when the content of the layer is refused

ASSUME PlaneAssumption ==
    /\ None \notin Places
    /\ \A p, q \in Places :
           /\ Dist(p, q) \in Nat
           /\ Dist(p, q) = Dist(q, p)
           /\ Dist(p, p) = 0
           /\ On(p, q) \subseteq Places
           /\ {p, q} \subseteq On(p, q)

ASSUME NetworkAssumption ==
    /\ Networks # {}
    /\ \A n \in Networks :
           /\ n.lines \in Seq(Seq(Places))
           /\ \A k \in DOMAIN n.lines : Len(n.lines[k]) > 1
           /\ n.tolerance \in Nat
           /\ n.accepted \in BOOLEAN
           /\ n.existing \in {"absent", "old"}
           /\ n.overwrite \in BOOLEAN

VARIABLES
    network,        \* the input
    stage,          \* where the program stands
    next,           \* the next end to be grouped
    groups,         \* the groups, sets of ends, in the order they were made
    anchors,        \* the anchor of every group
    clustered,      \* the lines after the ends of groups have moved
    repaired        \* the lines after the projection

roadVars == <<network, stage, next, groups, anchors, clustered, repaired>>

lines == network.lines
tolerance == network.tolerance

(***************************************************************************)
(* Lines and their ends                                                    *)
(***************************************************************************)
\* Ends are numbered as the code lists them: first and last of each line.
Ends == 1..(2 * Len(lines))
Owner(e) == (e + 1) \div 2
IsFirst(e) == e % 2 = 1
Place(ls, e) == IF IsFirst(e) THEN ls[Owner(e)][1] ELSE ls[Owner(e)][Len(ls[Owner(e)])]

HasLength(line) == \E k \in DOMAIN line : line[k] # line[1]

Covered(line) == UNION {On(line[k], line[k + 1]) : k \in 1..(Len(line) - 1)}
Touches(p, line) == p \in Covered(line)
Nearest(p, line) == CHOOSE q \in Covered(line) : \A r \in Covered(line) : Dist(p, q) <= Dist(p, r)
DistanceTo(p, line) == Dist(p, Nearest(p, line))

\* _replace_endpoints: a line that would lose its length stays as it is.
ReplaceEndpoints(line, first, last) ==
    LET moved == [k \in DOMAIN line |->
            IF k = Len(line) /\ last # None THEN last
            ELSE IF k = 1 /\ first # None THEN first
            ELSE line[k]]
    IN IF HasLength(moved) THEN moved ELSE line

\* All lines with their ends at the targets, None for an end that stays.
Moved(ls, target) == [k \in DOMAIN ls |-> ReplaceEndpoints(ls[k], target[2 * k - 1], target[2 * k])]

(***************************************************************************)
(* Groups                                                                  *)
(***************************************************************************)
Between(a, b) == Dist(Place(lines, a), Place(lines, b))

\* Some member reaches all others within d: the radius of the group is at most d.
RadiusWithin(group, d) == \E a \in group : \A m \in group : Between(a, m) <= d

NoLarger(g, h) == \A d \in {Between(a, m) : a, m \in h} : RadiusWithin(h, d) => RadiusWithin(g, d)

\* The groups that may take end e.
Open(e) ==
    {g \in DOMAIN groups :
        /\ \A m \in groups[g] : Owner(m) # Owner(e)
        /\ RadiusWithin(groups[g] \cup {e}, tolerance)}

\* The one with the smallest radius, the oldest of several.
Preferred(g, e) ==
    \A h \in Open(e) :
        /\ NoLarger(groups[g] \cup {e}, groups[h] \cup {e})
        /\ NoLarger(groups[h] \cup {e}, groups[g] \cup {e}) => g <= h

\* The order anchors are chosen by: farthest member, sum of distances, index.
NoFarther(a, b, group) == \A m \in group : \E k \in group : Between(a, m) <= Between(b, k)
Total(a, group) == MapThenSumSet(LAMBDA m : Between(a, m), group)

AnchorsByIndex(group) == {Min(group)}

Anchors(group) ==
    {a \in group : \A b \in group :
        /\ NoFarther(a, b, group)
        /\ NoFarther(b, a, group) => Total(a, group) <= Total(b, group)
        /\ NoFarther(b, a, group) /\ Total(a, group) = Total(b, group) => a <= b}

\* Where an end goes, None when it is there already.
Target(e) ==
    LET g == CHOOSE g \in DOMAIN groups : e \in groups[g]
        place == Place(lines, anchors[g])
    IN IF place = Place(lines, e) THEN None ELSE place

(***************************************************************************)
(* Projection                                                              *)
(***************************************************************************)
Others(e) == DOMAIN clustered \ {Owner(e)}

\* The nearest other line, the first of several.
NearestLine(p, e) ==
    CHOOSE k \in Others(e) : \A j \in Others(e) :
        /\ DistanceTo(p, clustered[k]) <= DistanceTo(p, clustered[j])
        /\ DistanceTo(p, clustered[k]) = DistanceTo(p, clustered[j]) => k <= j

ProjectionStrictly(e) ==
    LET p == Place(clustered, e)
        q == Nearest(p, clustered[NearestLine(p, e)])
    IN IF Others(e) = {} \/ (\E k \in Others(e) : Touches(p, clustered[k])) THEN None
       ELSE IF Dist(p, q) < tolerance THEN q ELSE None

\* Every end is measured against the lines as they were before any projection.
Projection(e) ==
    LET p == Place(clustered, e)
        q == Nearest(p, clustered[NearestLine(p, e)])
    IN IF Others(e) = {} \/ (\E k \in Others(e) : Touches(p, clustered[k])) THEN None
       ELSE IF Dist(p, q) <= tolerance THEN q ELSE None

(***************************************************************************)
(* The program                                                             *)
(***************************************************************************)
RoadIdle ==
    /\ stage = "validate"
    /\ next = 1
    /\ groups = <<>>
    /\ anchors = <<>>
    /\ clustered = network.lines
    /\ repaired = network.lines

RoadInit == network \in Networks /\ RoadIdle

At(s) == Running /\ stage = s

\* _validate_request and the checks on the layer; a tolerance of zero leaves the
\* lines alone.
Accept ==
    /\ At("validate")
    /\ MayWrite
    /\ network.accepted
    /\ stage' = IF tolerance = 0 THEN "write" ELSE "group"
    /\ UNCHANGED <<network, next, groups, anchors, clustered, repaired, fileVars>>

\* The request or the layer is refused, or it cannot be read.
Reject ==
    /\ At("validate")
    /\ Refuse
    /\ UNCHANGED roadVars

\* The next end joins the preferred group.
Join ==
    /\ At("group")
    /\ next \in Ends
    /\ \E g \in Open(next) :
           /\ Preferred(g, next)
           /\ groups' = [groups EXCEPT ![g] = @ \cup {next}]
    /\ next' = next + 1
    /\ UNCHANGED <<network, stage, anchors, clustered, repaired, fileVars>>

\* No group may take it: it starts one.
Found ==
    /\ At("group")
    /\ next \in Ends
    /\ Open(next) = {}
    /\ groups' = Append(groups, {next})
    /\ next' = next + 1
    /\ UNCHANGED <<network, stage, anchors, clustered, repaired, fileVars>>

\* Every group is grouped: choose the anchors.
Anchor ==
    /\ At("group")
    /\ next \notin Ends
    /\ \A g \in DOMAIN groups : Anchors(groups[g]) # {}
    /\ anchors' = [g \in DOMAIN groups |-> CHOOSE a \in Anchors(groups[g]) : TRUE]
    /\ stage' = "cluster"
    /\ UNCHANGED <<network, next, groups, clustered, repaired, fileVars>>

Cluster ==
    /\ At("cluster")
    /\ clustered' = Moved(lines, [e \in Ends |-> Target(e)])
    /\ stage' = "project"
    /\ UNCHANGED <<network, next, groups, anchors, repaired, fileVars>>

Project ==
    /\ At("project")
    /\ repaired' = Moved(clustered, [e \in Ends |-> Projection(e)])
    /\ stage' = "write"
    /\ UNCHANGED <<network, next, groups, anchors, clustered, fileVars>>

\* No segment is long enough, or GEOS raises.
NothingLeft ==
    /\ At("write")
    /\ Refuse
    /\ UNCHANGED roadVars

Write ==
    /\ At("write")
    /\ WriteTo("whole")
    /\ stage' = "replace"
    /\ UNCHANGED <<network, next, groups, anchors, clustered, repaired>>

\* The finally clause removes what was written.
WriteFails ==
    /\ Running
    /\ stage \in {"write", "replace"}
    /\ Abandon
    /\ UNCHANGED roadVars

Publish ==
    /\ At("replace")
    /\ Replace
    /\ stage' = "report"
    /\ UNCHANGED <<network, next, groups, anchors, clustered, repaired>>

\* The JSON report comes after the output: its failure does not undo it.
Report ==
    /\ At("report")
    /\ End \/ Leave("error")
    /\ UNCHANGED roadVars

RoadKilled ==
    /\ Running
    /\ stage \in {"replace", "report"}
    /\ Leave("killed")
    /\ UNCHANGED roadVars

RoadNext ==
    \/ Accept \/ Reject \/ Join \/ Found \/ Anchor \/ Cluster \/ Project \/ NothingLeft
    \/ Write \/ WriteFails \/ Publish \/ Report \/ RoadKilled

RoadSpec == RoadInit /\ FileInit(network) /\ [][RoadNext]_<<roadVars, fileVars>>

(***************************************************************************)
(* Properties                                                              *)
(***************************************************************************)
\* No end is ever farther than one tolerance from where it was, although an end
\* may be moved by its group and again by the projection.
EndsMoveBounded == \A e \in Ends : Dist(Place(lines, e), Place(repaired, e)) <= tolerance

Projected == tolerance > 0 /\ stage \in {"write", "replace", "report"}

\* A line that would have lost its length is put back.
PutBack(e) == Target(e) # None /\ Place(clustered, e) = Place(lines, e)

\* The ends of a group meet and the projection does not part them again, but
\* for the ends of lines that were put back.
GroupsMeet ==
    Projected =>
        \A g \in DOMAIN groups : \A e, f \in {m \in groups[g] : ~PutBack(m)} :
            (\E m \in groups[g] \ {anchors[g]} : Target(m) # None /\ ~PutBack(m))
                => Place(repaired, e) = Place(repaired, f)

Within(p, line) == DistanceTo(p, line) <= tolerance

\* An end beside another line that it does not touch is left only where the line
\* was put back, or where a line nearby moved after it was measured.
GapsExplained ==
    Projected =>
        \A e \in Ends :
            LET p == Place(repaired, e)
                others == DOMAIN repaired \ {Owner(e)}
            IN \/ \E k \in others : Touches(p, repaired[k])
               \/ \A k \in others : ~Within(p, repaired[k])
               \/ Projection(e) # None /\ p = Place(clustered, e)
               \/ \E k \in others :
                      /\ repaired[k] # clustered[k]
                      /\ Within(p, clustered[k]) \/ Within(p, repaired[k])

\* What may be said of the ends of the lines that are written: those of a group
\* meet, and every gap that is left has one of two causes.
JoinsHold == GroupsMeet /\ GapsExplained
=============================================================================
