--------------------------- MODULE PipelineProofs ---------------------------
(***************************************************************************)
(* Proofs about the programs of Pipelines, for every dataset, network,     *)
(* plane, configuration, chunk size, rule and request: that no program     *)
(* leaves a part of a file (OutputWhole); of the road repairer, that no    *)
(* end is farther than one tolerance from where it was (EndsMoveBounded),  *)
(* that the ends of a group meet, and that every gap that is left has a    *)
(* known cause (JoinsHold); of the connector, that it joins what can be    *)
(* joined and that nothing shorter does (NetworkConnected); of the spatial *)
(* analyses, that their replies are honest (SpatialRepliesHonest); and of  *)
(* the streams, that the chunks do not change what an audit reports        *)
(* (ChunksAgree).                                                          *)
(***************************************************************************)
EXTENDS Pipelines, WellFoundedInduction, FiniteSetTheorems, TLAPS

(***************************************************************************)
(* The files                                                               *)
(***************************************************************************)
\* What the stage of a program says about its files.
RoadFiles ==
    /\ stage \in {"validate", "group", "cluster", "project", "write", "replace", "report"}
    /\ stage # "report" => output = before
    /\ stage \notin {"replace", "report"} => temporary = "none"
    /\ stage = "replace" => temporary = IF exit = "error" THEN "none" ELSE "whole"
    /\ stage = "report" => output = "whole" /\ temporary = "none"
    /\ stage # "validate" => MayWrite
    /\ exit = "ok" => stage = "report"

WriterFiles ==
    /\ phase \in {"open", "copy", "replace", "stat"}
    /\ phase # "stat" => output = before
    /\ phase = "open" => temporary = "none"
    /\ phase = "replace" => temporary = IF exit = "error" THEN "none" ELSE "whole"
    /\ phase = "stat" => output = "whole" /\ temporary = "none"
    /\ phase # "open" => MayWrite
    /\ exit = "ok" => phase = "stat"

ReaderFiles ==
    /\ phase \in {"profile", "memory", "inspect", "stream", "rule raised"}
    /\ output = before
    /\ temporary = "none"

Inv ==
    /\ program \in {"roads", "stream", "spatial"}
    /\ before \in {"absent", "old"}
    /\ overwrite \in BOOLEAN
    /\ program = "roads" => RoadFiles
    /\ program = "stream" => IF job.consumer = "writer" THEN WriterFiles ELSE ReaderFiles
    /\ program = "spatial" => output = before /\ temporary = "none" /\ exit = None

LEMMA InitHolds == Init => Inv
<1> SUFFICES ASSUME Init PROVE Inv
  OBVIOUS
<1> USE NoneAssumption DEF Init, Inv, FileInit, RoadIdle, StreamIdle, RoadFiles, WriterFiles, ReaderFiles
<1>1. CASE program = "roads"
  BY <1>1, NetworkAssumption
<1>2. CASE program = "stream"
  BY <1>2, JobAssumption
<1>3. CASE program = "spatial"
  BY <1>3 DEF NoFile
<1> QED BY <1>1, <1>2, <1>3

\* The steps of the road repairer.
LEMMA RoadsKeep == Inv /\ Roads => Inv'
<1> SUFFICES ASSUME Inv, Roads PROVE Inv'
  OBVIOUS
<1>0. program = "roads" /\ program' = "roads" /\ RoadNext /\ RoadFiles
  BY DEF Roads, Inv
<1> SUFFICES before' = before /\ overwrite' = overwrite /\ RoadFiles'
  BY <1>0 DEF Inv
<1> USE <1>0, NoneAssumption DEF RoadFiles, MayWrite, Running, At, fileVars
<1>1. CASE Accept
  BY <1>1 DEF Accept
<1>2. CASE Reject
  BY <1>2 DEF Reject, Refuse, roadVars
<1>3. CASE Join \/ Found \/ Anchor \/ Cluster \/ Project
  BY <1>3 DEF Join, Found, Anchor, Cluster, Project
<1>4. CASE NothingLeft
  BY <1>4 DEF NothingLeft, Refuse, roadVars
<1>5. CASE Write
  BY <1>5 DEF Write, WriteTo
<1>6. CASE WriteFails
  BY <1>6 DEF WriteFails, Abandon, roadVars
<1>7. CASE Publish
  BY <1>7 DEF Publish, Replace
<1>8. CASE Report
  BY <1>8 DEF Report, End, Leave, roadVars
<1>9. CASE RoadKilled
  BY <1>9 DEF RoadKilled, Leave, roadVars
<1> QED BY <1>1, <1>2, <1>3, <1>4, <1>5, <1>6, <1>7, <1>8, <1>9 DEF RoadNext

\* The steps of the writer.
LEMMA WriterKeeps ==
    ASSUME Inv, Streaming, job.consumer = "writer"
    PROVE  before' = before /\ overwrite' = overwrite /\ job' = job /\ WriterFiles'
<1>0. StreamNext /\ WriterFiles
  BY DEF Streaming, Inv
<1> USE <1>0, NoneAssumption DEF WriterFiles, MayWrite, Running, In, fileVars
<1>1. CASE Profile \/ AuditInMemory \/ Inspect \/ ReadFails \/ AuditChunk \/ RuleChunk \/ Finish
  BY <1>1 DEF Profile, AuditInMemory, Inspect, ReadFails, AuditChunk, RuleChunk, Finish
<1>2. CASE OpenOutput
  BY <1>2 DEF OpenOutput, Refuse
<1>3. CASE WriteChunk
  BY <1>3 DEF WriteChunk, WriteTo
<1>4. CASE SkipChunk
  BY <1>4 DEF SkipChunk
<1>5. CASE WriterFails
  BY <1>5 DEF WriterFails, Abandon, Leave, streamVars
<1>6. CASE CloseWriter
  BY <1>6 DEF CloseWriter, WriteTo
<1>7. CASE NothingToWrite
  BY <1>7 DEF NothingToWrite, Abandon, streamVars
<1>8. CASE PublishParquet
  BY <1>8 DEF PublishParquet, Replace
<1>9. CASE ReturnResult
  BY <1>9 DEF ReturnResult, End, streamVars
<1>10. CASE WriterKilled
  BY <1>10 DEF WriterKilled, Leave, streamVars
<1> QED BY <1>1, <1>2, <1>3, <1>4, <1>5, <1>6, <1>7, <1>8, <1>9, <1>10 DEF StreamNext

\* The steps of the audits: they touch no file.
LEMMA ReaderKeeps ==
    ASSUME Inv, Streaming, job.consumer # "writer"
    PROVE  before' = before /\ overwrite' = overwrite /\ job' = job /\ ReaderFiles'
<1>0. StreamNext /\ ReaderFiles
  BY DEF Streaming, Inv
<1> USE <1>0 DEF ReaderFiles, In, fileVars
<1>1. CASE Profile
  BY <1>1 DEF Profile
<1>2. CASE AuditInMemory
  BY <1>2 DEF AuditInMemory, Leave, End, streamVars
<1>3. CASE Inspect
  BY <1>3 DEF Inspect, Leave
<1>4. CASE ReadFails
  BY <1>4 DEF ReadFails, Leave, streamVars
<1>5. CASE AuditChunk
  BY <1>5 DEF AuditChunk
<1>6. CASE RuleChunk
  BY <1>6 DEF RuleChunk, Leave
<1>7. CASE Finish
  BY <1>7 DEF Finish, End, Leave
<1>8. CASE OpenOutput \/ WriteChunk \/ SkipChunk \/ WriterFails \/ CloseWriter \/ NothingToWrite
            \/ PublishParquet \/ ReturnResult \/ WriterKilled
  BY <1>8 DEF OpenOutput, WriteChunk, SkipChunk, WriterFails, CloseWriter, NothingToWrite,
              PublishParquet, ReturnResult, WriterKilled
<1> QED BY <1>1, <1>2, <1>3, <1>4, <1>5, <1>6, <1>7, <1>8 DEF StreamNext

LEMMA StepKeeps == Inv /\ [Next]_pipeVars => Inv'
<1> SUFFICES ASSUME Inv, [Next]_pipeVars PROVE Inv'
  OBVIOUS
<1>1. CASE Roads
  BY <1>1, RoadsKeep
<1>2. CASE Connecting
  BY <1>2 DEF Connecting, ConnectNext, Connect, Consider, roadVars, fileVars, Inv, RoadFiles, MayWrite
<1>3. CASE Streaming
  BY <1>3, WriterKeeps, ReaderKeeps DEF Streaming, Inv
<1>4. CASE Analysing
  BY <1>4 DEF Analysing, fileVars, Inv
<1>5. CASE UNCHANGED pipeVars
  BY <1>5 DEF pipeVars, roadVars, streamVars, fileVars, Inv, RoadFiles, WriterFiles, ReaderFiles, MayWrite
<1> QED BY <1>1, <1>2, <1>3, <1>4, <1>5 DEF Next

LEMMA InvImplies == Inv => OutputWhole
<1> SUFFICES ASSUME Inv PROVE OutputWhole
  OBVIOUS
<1> USE NoneAssumption DEF Inv, OutputWhole, Publishes, MayWrite
<1>1. CASE program = "roads"
  BY <1>1 DEF RoadFiles
<1>2. CASE program = "stream" /\ job.consumer = "writer"
  BY <1>2 DEF WriterFiles
<1>3. CASE program = "stream" /\ job.consumer # "writer"
  BY <1>3 DEF ReaderFiles
<1>4. CASE program = "spatial"
  BY <1>4
<1> QED BY <1>1, <1>2, <1>3, <1>4

\* The output of the road repairer and of the GeoParquet writer is what it was or
\* a finished file, an output that may not be replaced stays, and a failure
\* leaves no temporary file but where the writer could not be closed.
THEOREM PipelinesWriteWhole == Spec => []OutputWhole
<1>1. Init => Inv
  BY InitHolds
<1>2. Inv /\ [Next]_pipeVars => Inv'
  BY StepKeeps
<1>3. Inv => OutputWhole
  BY InvImplies
<1> QED BY <1>1, <1>2, <1>3, PTL DEF Spec

(***************************************************************************)
(* Least elements: the nearest place and the nearest line exist            *)
(***************************************************************************)
LEMMA LeastNat ==
    ASSUME NEW S \in SUBSET Nat, S # {}
    PROVE  \E x \in S : \A y \in S : x <= y
<1>1. PICK x \in S : \A y \in S : ~ (<<y, x>> \in OpToRel(<, Nat))
  BY WFMin, NatLessThanWellFounded
<1>2. \A y \in S : ~ (y < x)
  BY <1>1 DEF OpToRel
<1> QED BY <1>2

\* Lines as the programs hold them.
Lines(ls) == ls \in Seq(Seq(Places)) /\ \A k \in DOMAIN ls : Len(ls[k]) > 1

LEMMA CoveredPlaces ==
    ASSUME NEW line \in Seq(Places), Len(line) > 1
    PROVE  /\ Covered(line) \subseteq Places
           /\ Covered(line) # {}
           /\ line[1] \in Covered(line)
           /\ line[Len(line)] \in Covered(line)
<1>1. \A k \in 1..(Len(line) - 1) :
          line[k] \in Places /\ line[k + 1] \in Places
  OBVIOUS
<1>2. \A k \in 1..(Len(line) - 1) :
          On(line[k], line[k + 1]) \subseteq Places /\ {line[k], line[k + 1]} \subseteq On(line[k], line[k + 1])
  BY <1>1, PlaneAssumption
<1>3. Covered(line) \subseteq Places
  BY <1>2 DEF Covered
<1>4. line[1] \in Covered(line)
  <2>1. 1 \in 1..(Len(line) - 1)
    OBVIOUS
  <2> QED BY <2>1, <1>2 DEF Covered
<1>5. line[Len(line)] \in Covered(line)
  <2>1. Len(line) - 1 \in 1..(Len(line) - 1) /\ (Len(line) - 1) + 1 = Len(line)
    OBVIOUS
  <2> QED BY <2>1, <1>2 DEF Covered
<1> QED BY <1>3, <1>4, <1>5

\* The nearest place of a line lies on it and is no farther than any other.
LEMMA NearestIsNearest ==
    ASSUME NEW line \in Seq(Places), Len(line) > 1, NEW p \in Places
    PROVE  /\ Nearest(p, line) \in Covered(line)
           /\ Nearest(p, line) \in Places
           /\ DistanceTo(p, line) \in Nat
           /\ \A r \in Covered(line) : DistanceTo(p, line) <= Dist(p, r)
<1> DEFINE D == {Dist(p, r) : r \in Covered(line)}
<1>1. Covered(line) \subseteq Places /\ Covered(line) # {}
  BY CoveredPlaces
<1>2. D \in SUBSET Nat /\ D # {}
  BY <1>1, PlaneAssumption
<1>3. PICK d \in D : \A y \in D : d <= y
  <2> HIDE DEF D
  <2> QED BY <1>2, LeastNat
<1>4. \E q \in Covered(line) : \A r \in Covered(line) : Dist(p, q) <= Dist(p, r)
  BY <1>3
<1>5. /\ Nearest(p, line) \in Covered(line)
      /\ \A r \in Covered(line) : Dist(p, Nearest(p, line)) <= Dist(p, r)
  BY <1>4 DEF Nearest
<1> QED BY <1>1, <1>5, PlaneAssumption DEF DistanceTo

\* A place on a line is at distance zero.
LEMMA TouchingIsNear ==
    ASSUME NEW line \in Seq(Places), Len(line) > 1, NEW p \in Places, Touches(p, line)
    PROVE  DistanceTo(p, line) = 0
BY NearestIsNearest, PlaneAssumption DEF Touches

(***************************************************************************)
(* The ends of lines and what moving them does                             *)
(***************************************************************************)
EndNumbers(ls) == 1..(2 * Len(ls))

LEMMA EndOfLine ==
    ASSUME NEW n \in Nat, NEW e \in 1..(2 * n)
    PROVE  /\ Owner(e) \in 1..n
           /\ IsFirst(e) => e = 2 * Owner(e) - 1
           /\ ~IsFirst(e) => e = 2 * Owner(e)
BY DEF Owner, IsFirst

LEMMA PlaceOnLine ==
    ASSUME NEW ls, Lines(ls), NEW e \in EndNumbers(ls)
    PROVE  /\ Owner(e) \in DOMAIN ls
           /\ ls[Owner(e)] \in Seq(Places) /\ Len(ls[Owner(e)]) > 1
           /\ Place(ls, e) \in Places
           /\ Touches(Place(ls, e), ls[Owner(e)])
<1>1. Owner(e) \in DOMAIN ls
  BY EndOfLine DEF EndNumbers, Lines
<1>2. ls[Owner(e)] \in Seq(Places) /\ Len(ls[Owner(e)]) > 1
  BY <1>1 DEF Lines
<1>3. Place(ls, e) \in {ls[Owner(e)][1], ls[Owner(e)][Len(ls[Owner(e)])]}
  BY DEF Place
<1>4. Place(ls, e) \in Covered(ls[Owner(e)])
  BY <1>2, <1>3, CoveredPlaces
<1> QED BY <1>1, <1>2, <1>4, CoveredPlaces DEF Touches

\* What becomes of a line whose ends have the targets first and last.
EndsReplaced(new, line, first, last) ==
    /\ new \in Seq(Places)
    /\ Len(new) = Len(line)
    /\ new[1] = line[1] \/ (first # None /\ new[1] = first)
    /\ new[Len(line)] = line[Len(line)] \/ (last # None /\ new[Len(line)] = last)

LEMMA ReplacedLine ==
    ASSUME NEW line \in Seq(Places), Len(line) > 1,
           NEW first \in Places \cup {None}, NEW last \in Places \cup {None}
    PROVE  EndsReplaced(ReplaceEndpoints(line, first, last), line, first, last)
<1> DEFINE moved == [k \in DOMAIN line |->
                         IF k = Len(line) /\ last # None THEN last
                         ELSE IF k = 1 /\ first # None THEN first
                         ELSE line[k]]
<1>1. moved \in [1..Len(line) -> Places]
  OBVIOUS
<1>2. moved \in Seq(Places) /\ Len(moved) = Len(line)
  <2> HIDE DEF moved
  <2> QED BY <1>1
<1>3. 1 \in DOMAIN line /\ Len(line) \in DOMAIN line /\ 1 # Len(line)
  OBVIOUS
<1>4. moved[1] = line[1] \/ (first # None /\ moved[1] = first)
  BY <1>3
<1>5. moved[Len(line)] = line[Len(line)] \/ (last # None /\ moved[Len(line)] = last)
  BY <1>3
<1>6. ReplaceEndpoints(line, first, last) = moved \/ ReplaceEndpoints(line, first, last) = line
  BY DEF ReplaceEndpoints
<1> HIDE DEF moved
<1> QED BY <1>2, <1>4, <1>5, <1>6 DEF EndsReplaced

\* Lines whose ends move are lines, and an end is where it was or at its target.
LEMMA MovedEnds ==
    ASSUME NEW ls, Lines(ls), NEW target \in [EndNumbers(ls) -> Places \cup {None}]
    PROVE  /\ Lines(Moved(ls, target))
           /\ Len(Moved(ls, target)) = Len(ls)
           /\ \A e \in EndNumbers(ls) :
                  \/ Place(Moved(ls, target), e) = Place(ls, e)
                  \/ target[e] # None /\ Place(Moved(ls, target), e) = target[e]
<1> DEFINE new == Moved(ls, target)
<1>1. DOMAIN ls = 1..Len(ls) /\ Len(ls) \in Nat
  BY DEF Lines
<1>2. \A k \in DOMAIN ls : 2 * k - 1 \in EndNumbers(ls) /\ 2 * k \in EndNumbers(ls)
  BY <1>1 DEF EndNumbers
<1>3. \A k \in DOMAIN ls :
          /\ new[k] = ReplaceEndpoints(ls[k], target[2 * k - 1], target[2 * k])
          /\ ls[k] \in Seq(Places) /\ Len(ls[k]) > 1
          /\ target[2 * k - 1] \in Places \cup {None}
          /\ target[2 * k] \in Places \cup {None}
  BY <1>2 DEF Moved, Lines
<1>4. ASSUME NEW k \in DOMAIN ls
      PROVE  /\ new[k] \in Seq(Places) /\ Len(new[k]) = Len(ls[k])
             /\ \/ new[k][1] = ls[k][1]
                \/ target[2 * k - 1] # None /\ new[k][1] = target[2 * k - 1]
             /\ \/ new[k][Len(new[k])] = ls[k][Len(ls[k])]
                \/ target[2 * k] # None /\ new[k][Len(new[k])] = target[2 * k]
  <2>1. EndsReplaced(new[k], ls[k], target[2 * k - 1], target[2 * k])
    BY <1>3, ReplacedLine
  <2> HIDE DEF new
  <2> QED BY <2>1 DEF EndsReplaced
<1>5. DOMAIN new = 1..Len(ls)
  BY <1>1 DEF Moved
<1>6. new \in Seq(Seq(Places)) /\ Len(new) = Len(ls)
  <2> HIDE DEF new
  <2>1. new \in [1..Len(ls) -> Seq(Places)]
    <3>1. new = [k \in 1..Len(ls) |-> new[k]]
      BY <1>1 DEF new, Moved
    <3> QED BY <3>1, <1>1, <1>4
  <2> QED BY <2>1, <1>1
<1>7. Lines(new)
  <2> HIDE DEF new
  <2> QED BY <1>1, <1>3, <1>4, <1>5, <1>6 DEF Lines
<1>8. ASSUME NEW e \in EndNumbers(ls)
      PROVE  \/ Place(new, e) = Place(ls, e)
             \/ target[e] # None /\ Place(new, e) = target[e]
  <2> HIDE DEF new
  <2>1. /\ Owner(e) \in DOMAIN ls
        /\ IsFirst(e) => e = 2 * Owner(e) - 1
        /\ ~IsFirst(e) => e = 2 * Owner(e)
    BY <1>1, EndOfLine DEF EndNumbers
  <2>2. CASE IsFirst(e)
    BY <2>1, <2>2, <1>4 DEF Place
  <2>3. CASE ~IsFirst(e)
    BY <2>1, <2>3, <1>4 DEF Place
  <2> QED BY <2>2, <2>3
<1> QED BY <1>6, <1>7, <1>8

(***************************************************************************)
(* The inductive invariant                                                 *)
(***************************************************************************)
\* Groups are disjoint, hold one end of a line at most, and have a radius within
\* the tolerance.
Grouped ==
    /\ groups \in Seq(SUBSET Ends)
    /\ \A g \in DOMAIN groups :
           /\ RadiusWithin(groups[g], tolerance)
           /\ \A a, b \in groups[g] : a # b => Owner(a) # Owner(b)
    /\ \A g, h \in DOMAIN groups : g # h => groups[g] \cap groups[h] = {}

\* The ends before next are in groups, and no other.
GroupedSoFar ==
    /\ next \in Nat \ {0}
    /\ \A e \in Ends : e < next <=> \E g \in DOMAIN groups : e \in groups[g]

\* Every end is in a group whose anchor is within the tolerance of its members.
Anchored ==
    /\ \A e \in Ends : \E g \in DOMAIN groups : e \in groups[g]
    /\ \A g \in DOMAIN groups :
           /\ anchors[g] \in groups[g]
           /\ \A m \in groups[g] : Between(anchors[g], m) <= tolerance

Targets == [e \in Ends |-> Target(e)]
Projections == [e \in Ends |-> Projection(e)]

RoadInv ==
    /\ network \in Networks
    /\ stage \in {"validate", "group", "cluster", "project", "write", "replace", "report"}
    /\ Grouped
    /\ stage \in {"validate", "group"} => GroupedSoFar
    /\ stage \in {"group", "cluster", "project"} => tolerance > 0
    /\ stage \in {"validate", "group", "cluster", "project"} \/ tolerance = 0 => repaired = lines
    /\ stage = "cluster" \/ stage = "project" \/ Projected => Anchored
    /\ stage = "project" \/ Projected => clustered = Moved(lines, Targets)
    /\ Projected => repaired = Moved(clustered, Projections)

LEMMA NetworkLines ==
    ASSUME network \in Networks
    PROVE  Lines(lines) /\ tolerance \in Nat /\ Ends = EndNumbers(lines)
BY NetworkAssumption DEF Lines, lines, tolerance, Ends, EndNumbers

LEMMA BetweenNat ==
    ASSUME network \in Networks, NEW a \in Ends, NEW b \in Ends
    PROVE  Between(a, b) \in Nat /\ Between(a, a) = 0
BY NetworkLines, PlaceOnLine, PlaneAssumption DEF Between

\* An anchor has no member farther than another end of the group would have.
LEMMA AnchorWithin ==
    ASSUME network \in Networks,
           NEW group \in SUBSET Ends, RadiusWithin(group, tolerance), NEW a \in Anchors(group)
    PROVE  a \in group /\ \A m \in group : Between(a, m) <= tolerance
<1>1. a \in group
  BY DEF Anchors
<1>2. PICK b \in group : \A m \in group : Between(b, m) <= tolerance
  BY DEF RadiusWithin
<1>3. NoFarther(a, b, group)
  BY <1>1, <1>2 DEF Anchors
<1>4. ASSUME NEW m \in group PROVE Between(a, m) <= tolerance
  <2>1. PICK k \in group : Between(a, m) <= Between(b, k)
    BY <1>3 DEF NoFarther
  <2>2. Between(b, k) <= tolerance
    BY <1>2
  <2>3. Between(a, m) \in Nat /\ Between(b, k) \in Nat /\ tolerance \in Nat
    BY <1>1, <1>2, BetweenNat, NetworkLines
  <2> QED BY <2>1, <2>2, <2>3
<1> QED BY <1>1, <1>4

LEMMA RoadInitHolds == Init => RoadInv
<1> SUFFICES ASSUME Init PROVE RoadInv
  OBVIOUS
<1>1. network \in Networks
  BY NetworkAssumption DEF Init, AnyNetwork
<1>2. stage = "validate" /\ next = 1 /\ groups = <<>> /\ repaired = lines
  BY DEF Init, RoadIdle, lines
<1>3. Grouped
  BY <1>2 DEF Grouped
<1>4. GroupedSoFar
  BY <1>2 DEF GroupedSoFar, Ends
<1> QED BY <1>1, <1>2, <1>3, <1>4 DEF RoadInv, Projected

\* Nothing but these variables is in the invariant.
LEMMA RoadUnchanged == RoadInv /\ UNCHANGED roadVars => RoadInv'
<1> SUFFICES ASSUME RoadInv, UNCHANGED roadVars PROVE RoadInv'
  OBVIOUS
<1> USE DEF roadVars
<1>1. Grouped' /\ (GroupedSoFar => GroupedSoFar') /\ (Anchored => Anchored')
  BY DEF RoadInv, Grouped, GroupedSoFar, Anchored, RadiusWithin, Between, Place, Ends, lines, tolerance
<1>2. Targets' = Targets
  BY DEF Targets, Target, Place, Ends, lines
<1>3. Projections' = Projections
  BY DEF Projections, Projection, Place, Ends, Others, NearestLine, DistanceTo, lines, tolerance
<1> QED BY <1>1, <1>2, <1>3 DEF RoadInv, Projected, Moved, lines, tolerance

LEMMA AcceptKeeps == RoadInv /\ Accept => RoadInv'
<1> SUFFICES ASSUME RoadInv, Accept PROVE RoadInv'
  OBVIOUS
<1>1. /\ stage = "validate" /\ stage' = (IF tolerance = 0 THEN "write" ELSE "group")
      /\ UNCHANGED <<network, next, groups, anchors, clustered, repaired>>
  BY DEF Accept, At
<1>2. Grouped' /\ GroupedSoFar'
  BY <1>1 DEF RoadInv, Grouped, GroupedSoFar, RadiusWithin, Between, Place, Ends, lines, tolerance
<1>3. tolerance \in Nat
  BY NetworkLines DEF RoadInv
<1> QED BY <1>1, <1>2, <1>3 DEF RoadInv, Projected, lines, tolerance

LEMMA JoinKeeps == RoadInv /\ Join => RoadInv'
<1> SUFFICES ASSUME RoadInv, Join PROVE RoadInv'
  OBVIOUS
<1>1. /\ stage = "group" /\ stage' = "group" /\ next \in Ends /\ next' = next + 1
      /\ UNCHANGED <<network, anchors, clustered, repaired>>
  BY DEF Join, At
<1>2. PICK g \in Open(next) : groups' = [groups EXCEPT ![g] = @ \cup {next}]
  BY DEF Join
<1>3. /\ g \in DOMAIN groups
      /\ \A m \in groups[g] : Owner(m) # Owner(next)
      /\ RadiusWithin(groups[g] \cup {next}, tolerance)
  BY <1>2 DEF Open
<1>4. Grouped /\ GroupedSoFar
  BY <1>1 DEF RoadInv
<1>5. \A h \in DOMAIN groups : next \notin groups[h]
  BY <1>1, <1>4 DEF GroupedSoFar
<1>6. DOMAIN groups' = DOMAIN groups
  BY <1>2
<1>7. \A h \in DOMAIN groups : groups'[h] = IF h = g THEN groups[h] \cup {next} ELSE groups[h]
  BY <1>2
<1>8. groups' \in Seq(SUBSET Ends)
  BY <1>1, <1>2, <1>3, <1>4 DEF Grouped
<1>9. \A h \in DOMAIN groups' :
          /\ RadiusWithin(groups'[h], tolerance)
          /\ \A a, b \in groups'[h] : a # b => Owner(a) # Owner(b)
  BY <1>3, <1>4, <1>6, <1>7 DEF Grouped
<1>10. \A h, k \in DOMAIN groups' : h # k => groups'[h] \cap groups'[k] = {}
  BY <1>4, <1>5, <1>6, <1>7 DEF Grouped
<1>11. Grouped'
  BY <1>1, <1>8, <1>9, <1>10 DEF Grouped, RadiusWithin, Between, Place, Ends, lines, tolerance
<1>12. GroupedSoFar'
  <2>1. next' \in Nat \ {0}
    BY <1>1, <1>4 DEF GroupedSoFar
  <2>2. \A e \in Ends : e < next + 1 <=> e < next \/ e = next
    BY <1>4 DEF GroupedSoFar, Ends
  <2>3. \A e \in Ends : (\E h \in DOMAIN groups' : e \in groups'[h])
                            <=> (\E h \in DOMAIN groups : e \in groups[h]) \/ e = next
    BY <1>3, <1>6, <1>7
  <2>4. Ends' = Ends
    BY <1>1 DEF Ends, lines
  <2> QED BY <1>1, <1>4, <2>1, <2>2, <2>3, <2>4 DEF GroupedSoFar
<1> QED BY <1>1, <1>11, <1>12 DEF RoadInv, Projected, lines, tolerance

LEMMA FoundKeeps == RoadInv /\ Found => RoadInv'
<1> SUFFICES ASSUME RoadInv, Found PROVE RoadInv'
  OBVIOUS
<1>1. /\ stage = "group" /\ stage' = "group" /\ next \in Ends /\ next' = next + 1
      /\ groups' = Append(groups, {next})
      /\ UNCHANGED <<network, anchors, clustered, repaired>>
  BY DEF Found, At
<1>2. Grouped /\ GroupedSoFar /\ network \in Networks
  BY <1>1 DEF RoadInv
<1>3. groups \in Seq(SUBSET Ends) /\ Len(groups) \in Nat /\ DOMAIN groups = 1..Len(groups)
  BY <1>2 DEF Grouped
<1>4. groups' \in Seq(SUBSET Ends)
  BY <1>1, <1>3
<1>5. DOMAIN groups' = DOMAIN groups \cup {Len(groups) + 1} /\ Len(groups) + 1 \notin DOMAIN groups
  BY <1>1, <1>3
<1>6. /\ \A h \in DOMAIN groups : groups'[h] = groups[h]
      /\ groups'[Len(groups) + 1] = {next}
  BY <1>1, <1>3
<1>7. \A h \in DOMAIN groups : next \notin groups[h]
  BY <1>1, <1>2 DEF GroupedSoFar
<1>8. RadiusWithin({next}, tolerance)
  BY <1>1, <1>2, BetweenNat, NetworkLines DEF RadiusWithin
<1>9. \A h \in DOMAIN groups' :
          /\ RadiusWithin(groups'[h], tolerance)
          /\ \A a, b \in groups'[h] : a # b => Owner(a) # Owner(b)
  <2>1. ASSUME NEW h \in DOMAIN groups
        PROVE  /\ RadiusWithin(groups'[h], tolerance)
               /\ \A a, b \in groups'[h] : a # b => Owner(a) # Owner(b)
    <3>1. groups'[h] = groups[h]
      BY <1>6
    <3> QED BY <3>1, <1>2 DEF Grouped
  <2>2. /\ RadiusWithin(groups'[Len(groups) + 1], tolerance)
        /\ \A a, b \in groups'[Len(groups) + 1] : a # b => Owner(a) # Owner(b)
    BY <1>6, <1>8
  <2> QED BY <1>5, <2>1, <2>2
<1>10. \A h, k \in DOMAIN groups' : h # k => groups'[h] \cap groups'[k] = {}
  BY <1>2, <1>5, <1>6, <1>7 DEF Grouped
<1>11. Grouped'
  BY <1>1, <1>4, <1>9, <1>10 DEF Grouped, RadiusWithin, Between, Place, Ends, lines, tolerance
<1>12. GroupedSoFar'
  <2>1. next' \in Nat \ {0}
    BY <1>1, <1>2 DEF GroupedSoFar
  <2>2. \A e \in Ends : e < next + 1 <=> e < next \/ e = next
    BY <1>2 DEF GroupedSoFar, Ends
  <2>3. \A e \in Ends : (\E h \in DOMAIN groups' : e \in groups'[h])
                            <=> (\E h \in DOMAIN groups : e \in groups[h]) \/ e = next
    BY <1>5, <1>6
  <2>4. Ends' = Ends
    BY <1>1 DEF Ends, lines
  <2> QED BY <1>1, <1>2, <2>1, <2>2, <2>3, <2>4 DEF GroupedSoFar
<1> QED BY <1>1, <1>11, <1>12 DEF RoadInv, Projected, lines, tolerance

LEMMA AnchorKeeps == RoadInv /\ Anchor => RoadInv'
<1> SUFFICES ASSUME RoadInv, Anchor PROVE RoadInv'
  OBVIOUS
<1>1. /\ stage = "group" /\ stage' = "cluster" /\ next \notin Ends
      /\ \A g \in DOMAIN groups : Anchors(groups[g]) # {}
      /\ anchors' = [g \in DOMAIN groups |-> CHOOSE a \in Anchors(groups[g]) : TRUE]
      /\ UNCHANGED <<network, next, groups, clustered, repaired>>
  BY DEF Anchor, At
<1>2. Grouped /\ GroupedSoFar /\ network \in Networks
  BY <1>1 DEF RoadInv
<1>3. \A e \in Ends : \E g \in DOMAIN groups : e \in groups[g]
  <2>1. Len(lines) \in Nat
    BY <1>2, NetworkLines DEF Lines
  <2>2. \A e \in Ends : e < next
    BY <1>1, <1>2, <2>1 DEF GroupedSoFar, Ends
  <2> QED BY <1>2, <2>2 DEF GroupedSoFar
<1>4. ASSUME NEW g \in DOMAIN groups
      PROVE  anchors'[g] \in groups[g] /\ \A m \in groups[g] : Between(anchors'[g], m) <= tolerance
  <2>1. anchors'[g] \in Anchors(groups[g])
    BY <1>1
  <2>2. groups[g] \in SUBSET Ends /\ RadiusWithin(groups[g], tolerance)
    BY <1>2 DEF Grouped
  <2> QED BY <1>2, <2>1, <2>2, AnchorWithin
<1>5. Anchored'
  BY <1>1, <1>3, <1>4 DEF Anchored, Between, Place, Ends, lines, tolerance
<1>6. Grouped'
  BY <1>1, <1>2 DEF Grouped, RadiusWithin, Between, Place, Ends, lines, tolerance
<1> QED BY <1>1, <1>5, <1>6 DEF RoadInv, Projected, lines, tolerance

LEMMA ClusterKeeps == RoadInv /\ Cluster => RoadInv'
<1> SUFFICES ASSUME RoadInv, Cluster PROVE RoadInv'
  OBVIOUS
<1>1. /\ stage = "cluster" /\ stage' = "project" /\ clustered' = Moved(lines, Targets)
      /\ UNCHANGED <<network, next, groups, anchors, repaired>>
  BY DEF Cluster, At, Targets
<1>2. Grouped' /\ Anchored'
  BY <1>1 DEF RoadInv, Grouped, Anchored, RadiusWithin, Between, Place, Ends, lines, tolerance
<1>3. Targets' = Targets
  BY <1>1 DEF Targets, Target, Place, Ends, lines
<1>4. clustered' = Moved(lines, Targets)'
  BY <1>1, <1>3 DEF Moved, lines
<1> QED BY <1>1, <1>2, <1>4 DEF RoadInv, Projected, lines, tolerance

LEMMA ProjectKeeps == RoadInv /\ Project => RoadInv'
<1> SUFFICES ASSUME RoadInv, Project PROVE RoadInv'
  OBVIOUS
<1>1. /\ stage = "project" /\ stage' = "write" /\ repaired' = Moved(clustered, Projections)
      /\ UNCHANGED <<network, next, groups, anchors, clustered>>
  BY DEF Project, At, Projections
<1>2. Grouped' /\ Anchored'
  BY <1>1 DEF RoadInv, Grouped, Anchored, RadiusWithin, Between, Place, Ends, lines, tolerance
<1>3. Targets' = Targets
  BY <1>1 DEF Targets, Target, Place, Ends, lines
<1>4. Projections' = Projections
  BY <1>1 DEF Projections, Projection, Place, Ends, Others, NearestLine, DistanceTo, lines, tolerance
<1>5. clustered' = Moved(lines, Targets)' /\ repaired' = Moved(clustered, Projections)'
  BY <1>1, <1>3, <1>4 DEF RoadInv, Moved, lines
<1>6. tolerance > 0 /\ tolerance \in Nat
  BY <1>1, NetworkLines DEF RoadInv
<1> QED BY <1>1, <1>2, <1>5, <1>6 DEF RoadInv, Projected, lines, tolerance

\* From the write on, only the files change.
LEMMA WrittenKeeps ==
    ASSUME RoadInv, stage \in {"write", "replace"}, stage' \in {"replace", "report"},
           UNCHANGED <<network, next, groups, anchors, clustered, repaired>>
    PROVE  RoadInv'
<1>1. Grouped' /\ (Anchored => Anchored')
  BY DEF RoadInv, Grouped, Anchored, RadiusWithin, Between, Place, Ends, lines, tolerance
<1>2. Targets' = Targets
  BY DEF Targets, Target, Place, Ends, lines
<1>3. Projections' = Projections
  BY DEF Projections, Projection, Place, Ends, Others, NearestLine, DistanceTo, lines, tolerance
<1> QED BY <1>1, <1>2, <1>3 DEF RoadInv, Projected, Moved, lines, tolerance

LEMMA RoadStepKeeps == RoadInv /\ [Next]_pipeVars => RoadInv'
<1> SUFFICES ASSUME RoadInv, [Next]_pipeVars PROVE RoadInv'
  OBVIOUS
<1>1. CASE Roads
  <2>1. RoadNext
    BY <1>1 DEF Roads
  <2>2. CASE Reject \/ NothingLeft \/ WriteFails \/ Report \/ RoadKilled
    BY <2>2, RoadUnchanged DEF Reject, NothingLeft, WriteFails, Report, RoadKilled
  <2>3. CASE Write \/ Publish
    BY <2>3, WrittenKeeps DEF Write, Publish, At
  <2> QED BY <2>1, <2>2, <2>3, AcceptKeeps, JoinKeeps, FoundKeeps, AnchorKeeps, ClusterKeeps, ProjectKeeps
          DEF RoadNext
<1>2. CASE Connecting \/ Streaming \/ Analysing \/ UNCHANGED pipeVars
  BY <1>2, RoadUnchanged DEF Connecting, ConnectNext, Connect, Consider, Streaming, Analysing, pipeVars
<1> QED BY <1>1, <1>2 DEF Next

(***************************************************************************)
(* Where an end goes                                                       *)
(***************************************************************************)
\* What the invariant says of a network that is clustered.
LEMMA ClusteredEnds ==
    ASSUME RoadInv, Projected
    PROVE  /\ Targets \in [EndNumbers(lines) -> Places \cup {None}]
           /\ Lines(clustered) /\ Ends = EndNumbers(clustered)
           /\ \A e \in Ends :
                  \/ Place(clustered, e) = Place(lines, e)
                  \/ Target(e) # None /\ Place(clustered, e) = Target(e)
<1>1. Lines(lines) /\ Ends = EndNumbers(lines) /\ Anchored /\ Grouped
  BY NetworkLines DEF RoadInv
<1>2. ASSUME NEW e \in Ends PROVE Target(e) \in Places \cup {None}
  <2> DEFINE g == CHOOSE g \in DOMAIN groups : e \in groups[g]
  <2>1. g \in DOMAIN groups
    BY <1>1 DEF Anchored
  <2>2. anchors[g] \in Ends
    BY <2>1, <1>1 DEF Anchored, Grouped
  <2>3. Place(lines, anchors[g]) \in Places
    BY <2>2, <1>1, PlaceOnLine
  <2> QED BY <2>3 DEF Target
<1>3. Targets \in [EndNumbers(lines) -> Places \cup {None}]
  BY <1>1, <1>2 DEF Targets
<1>4. clustered = Moved(lines, Targets)
  BY DEF RoadInv
<1>5. /\ Lines(clustered)
      /\ Len(clustered) = Len(lines)
      /\ \A e \in Ends :
             \/ Place(clustered, e) = Place(lines, e)
             \/ Targets[e] # None /\ Place(clustered, e) = Targets[e]
  BY <1>1, <1>3, <1>4, MovedEnds
<1>6. Ends = EndNumbers(clustered)
  BY <1>1, <1>5 DEF EndNumbers
<1> QED BY <1>3, <1>5, <1>6 DEF Targets

\* The nearest other line exists, and no other is nearer.
LEMMA NearestLineIsNearest ==
    ASSUME RoadInv, Projected, NEW e \in Ends, NEW p \in Places, Others(e) # {}
    PROVE  /\ NearestLine(p, e) \in Others(e)
           /\ \A j \in Others(e) : DistanceTo(p, clustered[NearestLine(p, e)]) <= DistanceTo(p, clustered[j])
<1> DEFINE D == {DistanceTo(p, clustered[k]) : k \in Others(e)}
<1>1. \A k \in Others(e) :
          k \in Nat /\ clustered[k] \in Seq(Places) /\ Len(clustered[k]) > 1
  BY ClusteredEnds DEF Others, Lines
<1>2. \A k \in Others(e) : DistanceTo(p, clustered[k]) \in Nat
  BY <1>1, NearestIsNearest
<1>3. PICK d \in D : \A y \in D : d <= y
  <2>1. D \in SUBSET Nat /\ D # {}
    BY <1>2
  <2> HIDE DEF D
  <2> QED BY <2>1, LeastNat
<1> DEFINE K == {k \in Others(e) : DistanceTo(p, clustered[k]) = d}
<1>4. PICK k \in K : \A j \in K : k <= j
  <2>1. K \in SUBSET Nat /\ K # {}
    BY <1>1, <1>3
  <2> HIDE DEF K
  <2> QED BY <2>1, LeastNat
<1>5. \E n \in Others(e) : \A j \in Others(e) :
          /\ DistanceTo(p, clustered[n]) <= DistanceTo(p, clustered[j])
          /\ DistanceTo(p, clustered[n]) = DistanceTo(p, clustered[j]) => n <= j
  BY <1>3, <1>4
<1> QED BY <1>5 DEF NearestLine

\* Where the projection takes an end: onto the nearest line, within the tolerance.
LEMMA ProjectionWithin ==
    ASSUME RoadInv, Projected, NEW e \in Ends, Projection(e) # None
    PROVE  /\ Others(e) # {}
           /\ \A k \in Others(e) : ~Touches(Place(clustered, e), clustered[k])
           /\ \E k \in Others(e) : Projection(e) \in Covered(clustered[k])
           /\ Projection(e) \in Places
           /\ Dist(Place(clustered, e), Projection(e)) <= tolerance
<1> DEFINE p == Place(clustered, e)
           n == NearestLine(p, e)
           q == Nearest(p, clustered[n])
<1>1. /\ Others(e) # {}
      /\ \A k \in Others(e) : ~Touches(p, clustered[k])
      /\ Projection(e) = q /\ Dist(p, q) <= tolerance
  BY DEF Projection
<1>2. p \in Places
  BY ClusteredEnds, PlaceOnLine
<1>3. n \in Others(e)
  BY <1>1, <1>2, NearestLineIsNearest
<1>4. clustered[n] \in Seq(Places) /\ Len(clustered[n]) > 1
  BY <1>3, ClusteredEnds DEF Others, Lines
<1>5. q \in Covered(clustered[n]) /\ q \in Places
  BY <1>2, <1>4, NearestIsNearest
<1> QED BY <1>1, <1>3, <1>5

LEMMA RepairedEnds ==
    ASSUME RoadInv, Projected
    PROVE  /\ Lines(repaired) /\ Ends = EndNumbers(repaired) /\ DOMAIN repaired = DOMAIN clustered
           /\ \A e \in Ends :
                  \/ Place(repaired, e) = Place(clustered, e)
                  \/ Projection(e) # None /\ Place(repaired, e) = Projection(e)
<1>1. Lines(clustered) /\ Ends = EndNumbers(clustered)
  BY ClusteredEnds
<1>2. Projections \in [EndNumbers(clustered) -> Places \cup {None}]
  BY <1>1, ProjectionWithin DEF Projections
<1>3. repaired = Moved(clustered, Projections)
  BY DEF RoadInv
<1>4. /\ Lines(repaired)
      /\ Len(repaired) = Len(clustered)
      /\ \A e \in Ends :
             \/ Place(repaired, e) = Place(clustered, e)
             \/ Projections[e] # None /\ Place(repaired, e) = Projections[e]
  BY <1>1, <1>2, <1>3, MovedEnds
<1>5. Ends = EndNumbers(repaired) /\ DOMAIN repaired = DOMAIN clustered
  BY <1>1, <1>4 DEF EndNumbers, Lines
<1> QED BY <1>4, <1>5 DEF Projections

\* The anchor of an end stays, and is within the tolerance of it; an end that
\* goes there touches the line of the anchor.
LEMMA TargetReached ==
    ASSUME RoadInv, Projected, NEW g \in DOMAIN groups, NEW e \in groups[g]
    PROVE  LET a == anchors[g] IN
           /\ e \in Ends /\ a \in groups[g] /\ a \in Ends
           /\ Between(a, e) <= tolerance
           /\ Place(clustered, a) = Place(lines, a)
           /\ Target(e) = IF Place(lines, a) = Place(lines, e) THEN None ELSE Place(lines, a)
<1> DEFINE a == anchors[g]
<1>1. Anchored /\ Grouped
  BY DEF RoadInv
<1>2. e \in Ends /\ a \in groups[g] /\ a \in Ends /\ Between(a, e) <= tolerance
  BY <1>1 DEF Anchored, Grouped
<1>4. ASSUME NEW m \in groups[g]
      PROVE  Target(m) = IF Place(lines, a) = Place(lines, m) THEN None ELSE Place(lines, a)
  <2> DEFINE h == CHOOSE h \in DOMAIN groups : m \in groups[h]
  <2>1. h = g
    BY <1>1 DEF Grouped
  <2>2. Target(m) = IF Place(lines, anchors[h]) = Place(lines, m) THEN None ELSE Place(lines, anchors[h])
    BY DEF Target
  <2> HIDE DEF h
  <2> QED BY <2>1, <2>2
<1>5. Target(a) = None
  BY <1>2, <1>4
<1>6. Place(clustered, a) = Place(lines, a)
  BY <1>2, <1>5, ClusteredEnds
<1> QED BY <1>2, <1>4, <1>6

(***************************************************************************)
(* The properties                                                          *)
(***************************************************************************)
\* An end that is at its anchor after the clustering and has moved there touches
\* another line, so it is not projected.
LEMMA ArrivedStays ==
    ASSUME RoadInv, Projected, NEW e \in Ends, Place(clustered, e) # Place(lines, e)
    PROVE  Projection(e) = None
<1>1. PICK g \in DOMAIN groups : e \in groups[g]
  BY DEF RoadInv, Anchored
<1> DEFINE a == anchors[g]
<1>2. /\ a \in groups[g] /\ a \in Ends
      /\ Place(clustered, a) = Place(lines, a)
      /\ Target(e) = IF Place(lines, a) = Place(lines, e) THEN None ELSE Place(lines, a)
  BY <1>1, TargetReached
<1>3. Place(clustered, e) = Target(e) /\ Target(e) # None
  BY ClusteredEnds
<1>4. Place(clustered, e) = Place(clustered, a) /\ a # e
  BY <1>2, <1>3
<1>5. Owner(a) # Owner(e)
  BY <1>1, <1>2, <1>4 DEF RoadInv, Grouped
<1>6. Owner(a) \in Others(e) /\ Touches(Place(clustered, e), clustered[Owner(a)])
  <2>1. Owner(a) \in DOMAIN clustered /\ Touches(Place(clustered, a), clustered[Owner(a)])
    BY <1>2, ClusteredEnds, PlaceOnLine
  <2> QED BY <2>1, <1>4, <1>5 DEF Others
<1> QED BY <1>6 DEF Projection

LEMMA MoveBounded == RoadInv => EndsMoveBounded
<1> SUFFICES ASSUME RoadInv, NEW e \in Ends
             PROVE  Dist(Place(lines, e), Place(repaired, e)) <= tolerance
  BY DEF EndsMoveBounded
<1>1. Lines(lines) /\ tolerance \in Nat /\ Ends = EndNumbers(lines)
  BY NetworkLines DEF RoadInv
<1>2. Place(lines, e) \in Places /\ Dist(Place(lines, e), Place(lines, e)) = 0
  BY <1>1, PlaceOnLine, PlaneAssumption
<1>3. CASE repaired = lines
  BY <1>1, <1>2, <1>3
<1>4. CASE Projected
  <2>1. CASE Place(clustered, e) = Place(lines, e)
    BY <1>1, <1>2, <1>4, <2>1, RepairedEnds, ProjectionWithin
  <2>2. CASE Place(clustered, e) # Place(lines, e)
    <3>1. Place(repaired, e) = Place(clustered, e)
      BY <1>4, <2>2, ArrivedStays, RepairedEnds
    <3>2. PICK g \in DOMAIN groups : e \in groups[g]
      BY <1>4 DEF RoadInv, Anchored
    <3>3. /\ anchors[g] \in Ends /\ Between(anchors[g], e) <= tolerance
          /\ Target(e) = IF Place(lines, anchors[g]) = Place(lines, e) THEN None ELSE Place(lines, anchors[g])
      BY <1>4, <3>2, TargetReached
    <3>4. Place(clustered, e) = Place(lines, anchors[g])
      BY <1>4, <2>2, <3>3, ClusteredEnds
    <3>5. Dist(Place(lines, anchors[g]), Place(lines, e)) = Dist(Place(lines, e), Place(lines, anchors[g]))
      BY <1>1, <3>3, PlaceOnLine, PlaneAssumption
    <3> QED BY <3>1, <3>3, <3>4, <3>5 DEF Between
  <2> QED BY <2>1, <2>2
<1>5. repaired = lines \/ Projected
  BY <1>1 DEF RoadInv, Projected
<1> QED BY <1>3, <1>4, <1>5

LEMMA EndsOfGroupsMeet == RoadInv => GroupsMeet
<1> SUFFICES ASSUME RoadInv, Projected, NEW g \in DOMAIN groups,
                    NEW m \in groups[g] \ {anchors[g]}, Target(m) # None, ~PutBack(m),
                    NEW e \in groups[g], ~PutBack(e), NEW f \in groups[g], ~PutBack(f)
             PROVE  Place(repaired, e) = Place(repaired, f)
  BY DEF GroupsMeet
<1> DEFINE a == anchors[g]
           centre == Place(lines, a)
<1>1. a \in groups[g] /\ a \in Ends /\ Place(clustered, a) = centre /\ centre # None
  BY TargetReached, ClusteredEnds, PlaceOnLine, PlaneAssumption
\* The members that were not put back are at the anchor.
<1>2. ASSUME NEW x \in groups[g], ~PutBack(x)
      PROVE  x \in Ends /\ Place(clustered, x) = centre
  <2>1. x \in Ends /\ Target(x) = IF centre = Place(lines, x) THEN None ELSE centre
    BY TargetReached
  <2>2. \/ Place(clustered, x) = Place(lines, x)
        \/ Target(x) # None /\ Place(clustered, x) = Target(x)
    BY <2>1, ClusteredEnds
  <2>3. Target(x) = None \/ Place(clustered, x) # Place(lines, x)
    BY <1>2 DEF PutBack
  <2> QED BY <1>1, <2>1, <2>2, <2>3
\* Each of them touches the line of another.
<1>3. ASSUME NEW x \in groups[g], ~PutBack(x)
      PROVE  Place(repaired, x) = centre
  <2>1. PICK y \in {a, m} : y # x
    OBVIOUS
  <2>2. y \in groups[g] /\ y \in Ends /\ Place(clustered, y) = centre
    BY <1>1, <1>2
  <2>3. Owner(y) # Owner(x)
    BY <2>1, <2>2 DEF RoadInv, Grouped
  <2>4. Owner(y) \in DOMAIN clustered /\ Touches(centre, clustered[Owner(y)])
    BY <2>2, ClusteredEnds, PlaceOnLine
  <2>5. x \in Ends /\ Place(clustered, x) = centre
    BY <1>2, <1>3
  <2>6. Owner(y) \in Others(x)
    BY <2>3, <2>4 DEF Others
  <2>7. Projection(x) = None
    BY <2>4, <2>5, <2>6 DEF Projection
  <2> QED BY <2>5, <2>7, RepairedEnds
<1> QED BY <1>3

LEMMA GapsHaveCauses == RoadInv => GapsExplained
<1> SUFFICES ASSUME RoadInv, Projected, NEW e \in Ends,
                    NEW near \in DOMAIN repaired \ {Owner(e)}, Within(Place(repaired, e), repaired[near]),
                    \A k \in DOMAIN repaired \ {Owner(e)} : ~Touches(Place(repaired, e), repaired[k]),
                    Projection(e) = None \/ Place(repaired, e) # Place(clustered, e)
             PROVE  \E k \in DOMAIN repaired \ {Owner(e)} :
                        /\ repaired[k] # clustered[k]
                        /\ \/ Within(Place(repaired, e), clustered[k])
                           \/ Within(Place(repaired, e), repaired[k])
  BY DEF GapsExplained
<1> DEFINE p == Place(repaired, e)
<1>1. /\ DOMAIN repaired \ {Owner(e)} = Others(e) /\ near \in Others(e)
      /\ p \in Places /\ tolerance \in Nat
  BY RepairedEnds, PlaceOnLine, NetworkLines DEF Others, RoadInv
\* A line it touched has moved since.
<1>2. ASSUME NEW k \in Others(e), Touches(p, clustered[k])
      PROVE  repaired[k] # clustered[k] /\ Within(p, clustered[k])
  <2>1. clustered[k] \in Seq(Places) /\ Len(clustered[k]) > 1
    BY ClusteredEnds DEF Others, Lines
  <2>2. DistanceTo(p, clustered[k]) = 0
    BY <1>1, <1>2, <2>1, TouchingIsNear
  <2> QED BY <1>1, <1>2, <2>2 DEF Within
<1>3. CASE Projection(e) # None
  <2>1. p = Projection(e)
    BY <1>3, RepairedEnds
  <2>2. PICK k \in Others(e) : Touches(p, clustered[k])
    BY <1>3, <2>1, ProjectionWithin DEF Touches
  <2> QED BY <1>1, <1>2, <2>2
<1>4. CASE Projection(e) = None
  <2>1. p = Place(clustered, e)
    BY <1>4, RepairedEnds
  <2>2. CASE \E k \in Others(e) : Touches(p, clustered[k])
    BY <1>1, <1>2, <2>2
  <2>3. CASE \A k \in Others(e) : ~Touches(p, clustered[k])
    <3> DEFINE n == NearestLine(p, e)
    <3>1. Places \cap {None} = {}
      BY PlaneAssumption
    <3>2. /\ n \in Others(e)
          /\ DistanceTo(p, clustered[n]) <= DistanceTo(p, clustered[near])
      BY <1>1, NearestLineIsNearest
    <3>3. \A k \in Others(e) : clustered[k] \in Seq(Places) /\ Len(clustered[k]) > 1
      BY ClusteredEnds DEF Others, Lines
    <3>4. DistanceTo(p, clustered[n]) \in Nat /\ DistanceTo(p, clustered[near]) \in Nat
      BY <1>1, <3>2, <3>3, NearestIsNearest
    <3>5. Nearest(p, clustered[n]) \in Places
      BY <1>1, <3>2, <3>3, NearestIsNearest
    <3>6. ~ (DistanceTo(p, clustered[n]) <= tolerance)
      BY <1>1, <1>4, <2>1, <2>3, <3>1, <3>5 DEF Projection, DistanceTo
    <3>7. ~Within(p, clustered[near])
      BY <1>1, <3>2, <3>4, <3>6 DEF Within
    <3> QED BY <1>1, <3>7
  <2> QED BY <2>2, <2>3
<1> QED BY <1>3, <1>4

\* No end of a line of the repaired network is farther than one tolerance from
\* where it was, although the clustering and the projection may both move it.
THEOREM RoadEndsMoveBounded == Spec => []EndsMoveBounded
BY RoadInitHolds, RoadStepKeeps, MoveBounded, PTL DEF Spec

\* The ends of a group meet and stay together, and an end is left beside a line
\* only where its line was put back or a line nearby moved after it was measured.
THEOREM RoadJoinsHold == Spec => []JoinsHold
<1>1. RoadInv => JoinsHold
  BY EndsOfGroupsMeet, GapsHaveCauses DEF JoinsHold
<1> QED BY <1>1, RoadInitHolds, RoadStepKeeps, PTL DEF Spec

(***************************************************************************)
(* Cuts: a network is what no connector leaves                             *)
(***************************************************************************)
\* No connector of the set has one end in X and the other outside.
Keeps(X, edges) == \A c \in edges : c[2] \in X <=> c[3] \in X

Pairs(edges) == {{c[2], c[3]} : c \in edges}

LEMMA ClosedKeeps ==
    ASSUME NEW X, NEW edges
    PROVE  Closed(X, Pairs(edges)) <=> Keeps(X, edges)
<1>1. ASSUME Closed(X, Pairs(edges)), NEW c \in edges PROVE c[2] \in X <=> c[3] \in X
  <2>1. {c[2], c[3]} \in Pairs(edges)
    BY <1>1 DEF Pairs
  <2>2. {c[2], c[3]} \subseteq X \/ {c[2], c[3]} \cap X = {}
    BY <1>1, <2>1 DEF Closed
  <2> QED BY <2>2
<1>2. ASSUME Keeps(X, edges), NEW edge \in Pairs(edges) PROVE edge \subseteq X \/ edge \cap X = {}
  <2>1. PICK c \in edges : edge = {c[2], c[3]}
    BY <1>2 DEF Pairs
  <2>2. c[2] \in X <=> c[3] \in X
    BY <1>2 DEF Keeps
  <2> QED BY <2>1, <2>2
<1> QED BY <1>1, <1>2 DEF Closed, Keeps

\* What is outside is kept like what is inside.
LEMMA OutsideKept ==
    ASSUME NEW N, NEW edges, \A c \in edges : c[2] \in N /\ c[3] \in N,
           NEW X \in SUBSET N, Keeps(X, edges)
    PROVE  Keeps(N \ X, edges)
BY DEF Keeps

\* Two sets of connectors make the same networks exactly when what the first
\* keeps together, the second does, and the other way round.
LEMMA NetworksByCuts ==
    ASSUME NEW N, NEW A, NEW B, \A c \in A \cup B : c[2] \in N /\ c[3] \in N
    PROVE  Blocks(N, Pairs(A)) = Blocks(N, Pairs(B)) <=>
               \A X \in SUBSET N : Keeps(X, A) <=> Keeps(X, B)
<1>1. ASSUME NEW E, NEW F, \A c \in E \cup F : c[2] \in N /\ c[3] \in N,
             Blocks(N, Pairs(E)) = Blocks(N, Pairs(F)),
             NEW X \in SUBSET N, Keeps(X, E), NEW c \in F, c[2] \in X \/ c[3] \in X
      PROVE  c[2] \in X /\ c[3] \in X
  <2>1. c[2] \in N /\ c[3] \in N
    BY <1>1
  <2>2. c[2] \in Block(c[2], N, Pairs(F)) /\ c[3] \in Block(c[2], N, Pairs(F))
    <3>1. ASSUME NEW S \in SUBSET N, c[2] \in S, Closed(S, Pairs(F)) PROVE c[3] \in S
      <4>1. Keeps(S, F)
        BY <3>1, ClosedKeeps
      <4> QED BY <3>1, <4>1, <1>1 DEF Keeps
    <3> QED BY <2>1, <3>1 DEF Block
  <2>3. PICK n \in N : Block(c[2], N, Pairs(F)) = Block(n, N, Pairs(E))
    BY <2>1, <1>1 DEF Blocks
  <2>4. c[2] \in Block(n, N, Pairs(E)) /\ c[3] \in Block(n, N, Pairs(E))
    BY <2>2, <2>3
  <2>5. Closed(X, Pairs(E))
    BY <1>1, ClosedKeeps
  <2>6. Closed(N \ X, Pairs(E))
    <3>1. Keeps(N \ X, E)
      BY <1>1, OutsideKept
    <3> QED BY <3>1, ClosedKeeps
  <2>7. CASE n \in X
    BY <2>4, <2>5, <2>7 DEF Block
  <2>8. CASE n \notin X
    <3>1. c[2] \in N \ X /\ c[3] \in N \ X
      BY <2>3, <2>4, <2>6, <2>8 DEF Block
    <3> QED BY <3>1, <1>1
  <2> QED BY <2>7, <2>8
<1>2. ASSUME NEW E, NEW F, \A c \in E \cup F : c[2] \in N /\ c[3] \in N,
             Blocks(N, Pairs(E)) = Blocks(N, Pairs(F)),
             NEW X \in SUBSET N, Keeps(X, E)
      PROVE  Keeps(X, F)
  BY <1>1, <1>2 DEF Keeps
<1>3. ASSUME \A X \in SUBSET N : Keeps(X, A) <=> Keeps(X, B)
      PROVE  Blocks(N, Pairs(A)) = Blocks(N, Pairs(B))
  <2>1. \A X \in SUBSET N : Closed(X, Pairs(A)) <=> Closed(X, Pairs(B))
    BY <1>3, ClosedKeeps
  <2>2. \A n \in N : Block(n, N, Pairs(A)) = Block(n, N, Pairs(B))
    BY <2>1 DEF Block
  <2> QED BY <2>2 DEF Blocks
<1>4. ASSUME Blocks(N, Pairs(A)) = Blocks(N, Pairs(B)), NEW X \in SUBSET N
      PROVE  Keeps(X, A) <=> Keeps(X, B)
  <2>1. Blocks(N, Pairs(B)) = Blocks(N, Pairs(A))
    BY <1>4
  <2>2. \A c \in B \cup A : c[2] \in N /\ c[3] \in N
    OBVIOUS
  <2>3. Keeps(X, A) => Keeps(X, B)
    BY <1>2, <1>4
  <2>4. Keeps(X, B) => Keeps(X, A)
    BY <1>2, <2>1, <2>2
  <2> QED BY <2>3, <2>4
<1> QED BY <1>3, <1>4

\* What keeps the set together keeps the ends of c together.
Joins(N, edges, c) == \A X \in SUBSET N : Keeps(X, edges) => Keeps(X, {c})

\* When M joins the ends of c and its part T does not, M has a connector whose ends
\* T does not join either, and c can take its place.
LEMMA Exchange ==
    ASSUME NEW N, NEW M, IsFiniteSet(M), \A d \in M : d[2] \in N /\ d[3] \in N,
           NEW T \in SUBSET M,
           NEW c, c[2] \in N, c[3] \in N,
           Joins(N, M, c), ~Joins(N, T, c)
    PROVE  \E e \in M :
               /\ ~Joins(N, T, e)
               /\ \A X \in SUBSET N : Keeps(X, (M \ {e}) \cup {c}) => Keeps(X, M)
<1> DEFINE joining == {E \in SUBSET M : T \subseteq E /\ Joins(N, E, c)}
           sizes == {Cardinality(E) : E \in joining}
<1>1. \A E \in SUBSET M : IsFiniteSet(E) /\ Cardinality(E) \in Nat
  BY FS_Subset, FS_CardinalityType
<1>2. PICK E \in joining : \A F \in joining : Cardinality(E) <= Cardinality(F)
  <2>1. M \in joining
    OBVIOUS
  <2>2. sizes \in SUBSET Nat /\ sizes # {}
    BY <1>1, <2>1
  <2>3. PICK s \in sizes : \A t \in sizes : s <= t
    <3> HIDE DEF sizes
    <3> QED BY <2>2, LeastNat
  <2> QED BY <2>3
<1>3. PICK e \in E : e \notin T
  <2>1. T \subseteq E /\ Joins(N, E, c)
    BY <1>2
  <2>2. ~Joins(N, T, c)
    OBVIOUS
  <2>3. E # T
    BY <2>1, <2>2
  <2> QED BY <2>1, <2>3
<1>4. e \in M /\ IsFiniteSet(E) /\ E \subseteq M /\ T \subseteq E
  BY <1>1, <1>2, <1>3
<1>5. ~Joins(N, E \ {e}, c)
  <2>1. Cardinality(E \ {e}) = Cardinality(E) - 1
    BY <1>3, <1>4, FS_RemoveElement
  <2>2. Cardinality(E) \in Nat
    BY <1>1, <1>4
  <2>3. E \ {e} \notin joining
    BY <1>2, <2>1, <2>2
  <2>4. E \ {e} \in SUBSET M /\ T \subseteq E \ {e}
    BY <1>3, <1>4
  <2> QED BY <2>3, <2>4
<1>6. PICK S \in SUBSET N : Keeps(S, E \ {e}) /\ ~Keeps(S, {c})
  BY <1>5 DEF Joins
<1>7. ~Keeps(S, {e})
  <2>1. ~Keeps(S, E)
    BY <1>2, <1>6 DEF Joins
  <2> QED BY <1>6, <2>1 DEF Keeps
<1>8. Keeps(S, T)
  BY <1>3, <1>4, <1>6 DEF Keeps
<1>9. ASSUME NEW X \in SUBSET N, Keeps(X, (M \ {e}) \cup {c}), ~Keeps(X, {e}) PROVE FALSE
  \* X or what is outside of it has both ends of c and one of e.
  <2>1. PICK Y \in SUBSET N : Keeps(Y, E \ {e}) /\ c[2] \in Y /\ c[3] \in Y /\ ~Keeps(Y, {e})
    <3>1. Keeps(X, E \ {e}) /\ Keeps(X, {c})
      BY <1>4, <1>9 DEF Keeps
    <3>2. CASE c[2] \in X
      BY <3>1, <3>2, <1>9 DEF Keeps
    <3>3. CASE c[2] \notin X
      <4>1. Keeps(N \ X, E \ {e})
        BY <3>1, <1>4, OutsideKept
      <4>2. c[2] \in N \ X /\ c[3] \in N \ X
        BY <3>1, <3>3 DEF Keeps
      <4>3. ~Keeps(N \ X, {e})
        BY <1>4, <1>9 DEF Keeps
      <4> QED BY <4>1, <4>2, <4>3
    <3> QED BY <3>2, <3>3
  <2>2. Keeps(Y \cap S, E \ {e}) /\ Keeps(Y \ S, E \ {e})
    BY <1>6, <2>1 DEF Keeps
  <2>3. ~Keeps(Y \cap S, {c}) /\ ~Keeps(Y \ S, {c})
    BY <1>6, <2>1 DEF Keeps
  <2>4. Keeps(Y \cap S, {e}) \/ Keeps(Y \ S, {e})
    BY <1>7, <2>1 DEF Keeps
  <2>5. Keeps(Y \cap S, E) \/ Keeps(Y \ S, E)
    BY <2>2, <2>4 DEF Keeps
  <2>6. Y \cap S \in SUBSET N /\ Y \ S \in SUBSET N
    OBVIOUS
  <2> QED BY <1>2, <2>3, <2>5, <2>6 DEF Joins
<1>10. ASSUME NEW X \in SUBSET N, Keeps(X, (M \ {e}) \cup {c}) PROVE Keeps(X, M)
  BY <1>9, <1>10 DEF Keeps
<1>11. ~Joins(N, T, e)
  BY <1>7, <1>8 DEF Joins
<1> QED BY <1>4, <1>10, <1>11

(***************************************************************************)
(* Lengths of connectors                                                   *)
(***************************************************************************)
Units(edges) == UNION {{c} \X (1..c[1]) : c \in edges}

\* A set of connectors is as long as its parts together.
LEMMA LengthIsNat ==
    ASSUME NEW edges, IsFiniteSet(edges), \A c \in edges : c[1] \in Nat
    PROVE  IsFiniteSet(Units(edges)) /\ Length(edges) \in Nat
<1> DEFINE one == [c \in edges |-> {c} \X (1..c[1])]
           parts == {{c} \X (1..c[1]) : c \in edges}
<1>1. one \in Surjection(edges, parts)
  BY DEF Surjection
<1>2. IsFiniteSet(parts)
  BY <1>1, FS_Surjection
<1>3. ASSUME NEW p \in parts PROVE IsFiniteSet(p)
  <2>1. PICK c \in edges : p = {c} \X (1..c[1])
    OBVIOUS
  <2>2. 1 \in Int /\ c[1] \in Int
    OBVIOUS
  <2>3. IsFiniteSet(1..c[1]) /\ IsFiniteSet({c})
    BY <2>2, FS_Interval, FS_Singleton
  <2> QED BY <2>1, <2>3, FS_Product
<1>4. IsFiniteSet(UNION parts)
  <2> HIDE DEF parts
  <2> QED BY <1>2, <1>3, FS_UNION
<1> QED BY <1>4, FS_CardinalityType DEF Units, Length

LEMMA UpTo ==
    ASSUME NEW n \in Nat
    PROVE  IsFiniteSet(1..n) /\ Cardinality(1..n) = n
<1>1. IsFiniteSet(1..n) /\ Cardinality(1..n) = IF 1 > n THEN 0 ELSE n - 1 + 1
  BY FS_Interval
<1> QED BY <1>1

LEMMA LengthGrows ==
    ASSUME NEW edges, IsFiniteSet(edges), \A c \in edges : c[1] \in Nat, NEW some \in SUBSET edges
    PROVE  Length(some) <= Length(edges)
<1>1. Units(some) \in SUBSET Units(edges)
  BY DEF Units
<1> QED BY <1>1, LengthIsNat, FS_Subset DEF Units, Length

LEMMA LengthAdds ==
    ASSUME NEW edges, IsFiniteSet(edges), \A d \in edges : d[1] \in Nat, NEW c, c[1] \in Nat, c \notin edges
    PROVE  Length(edges \cup {c}) = Length(edges) + c[1]
<1>1. IsFiniteSet(Units(edges))
  BY LengthIsNat
<1>2. Units(edges \cup {c}) = Units(edges) \cup ({c} \X (1..c[1]))
  BY DEF Units
<1>3. Units(edges) \cap ({c} \X (1..c[1])) = {}
  BY DEF Units
<1>4. IsFiniteSet({c} \X (1..c[1])) /\ Cardinality({c} \X (1..c[1])) = c[1]
  <2>1. IsFiniteSet(1..c[1]) /\ Cardinality(1..c[1]) = c[1] /\ IsFiniteSet({c}) /\ Cardinality({c}) = 1
    BY UpTo, FS_Singleton
  <2>2. /\ IsFiniteSet({c} \X (1..c[1]))
        /\ Cardinality({c} \X (1..c[1])) = Cardinality({c}) * Cardinality(1..c[1])
    BY <2>1, FS_Product
  <2> QED BY <2>1, <2>2
<1>5. Cardinality(Units(edges) \cup ({c} \X (1..c[1]))) =
          Cardinality(Units(edges)) + Cardinality({c} \X (1..c[1])) - Cardinality({})
  BY <1>1, <1>3, <1>4, FS_Union
<1>6. Length(edges) = Cardinality(Units(edges)) /\ Length(edges \cup {c}) = Cardinality(Units(edges \cup {c}))
  BY DEF Length, Units
<1>7. Length(edges) \in Nat /\ Cardinality({}) = 0
  BY LengthIsNat, FS_EmptySet
<1>8. Length(edges \cup {c}) = Length(edges) + Cardinality({c} \X (1..c[1])) - Cardinality({})
  BY <1>2, <1>5, <1>6
<1> QED BY <1>4, <1>7, <1>8

\* A connector in the place of a longer one.
LEMMA LengthOfExchange ==
    ASSUME NEW M, IsFiniteSet(M), \A d \in M : d[1] \in Nat,
           NEW e \in M, NEW c, c[1] \in Nat, c \notin M, c[1] <= e[1]
    PROVE  Length((M \ {e}) \cup {c}) <= Length(M)
<1>1. IsFiniteSet(M \ {e}) /\ (M \ {e}) \cup {e} = M
  BY FS_RemoveElement
<1>2. Length((M \ {e}) \cup {c}) = Length(M \ {e}) + c[1]
  BY <1>1, LengthAdds
<1>3. Length((M \ {e}) \cup {e}) = Length(M \ {e}) + e[1]
  BY <1>1, LengthAdds
<1>4. Length(M \ {e}) \in Nat
  BY <1>1, LengthIsNat
<1> QED BY <1>1, <1>2, <1>3, <1>4
(***************************************************************************)
(* The connectors that may be taken                                        *)
(***************************************************************************)
LEMMA LeastOfNats ==
    ASSUME NEW S \in SUBSET Nat, S # {}
    PROVE  Min(S) \in S /\ \A x \in S : Min(S) <= x
BY LeastNat DEF Min

\* Components are named by lines and cover places.
LEMMA PartsTyped ==
    ASSUME Lines(repaired), NEW c
    PROVE  /\ DOMAIN Components(c) \in SUBSET Nat
           /\ IsFiniteSet(DOMAIN Components(c))
           /\ \A n \in DOMAIN Components(c) : Components(c)[n] \subseteq Places /\ Components(c)[n] # {}
<1> DEFINE blocks == ComponentIds(c.node)
           Parts(n) == UNION {Covered(repaired[k]) : k \in CHOOSE b \in blocks : n \in b}
<1>1. DOMAIN repaired = 1..Len(repaired) /\ Len(repaired) \in Nat /\ DOMAIN repaired \in SUBSET Nat
  BY DEF Lines
<1>2. \A b \in blocks : b \in SUBSET Lengthy /\ b # {}
  <2>1. ASSUME NEW nodes, NEW edges, NEW b \in Blocks(nodes, edges) PROVE b \in SUBSET nodes /\ b # {}
    BY DEF Blocks, Block
  <2> QED BY <2>1 DEF ComponentIds
<1>3. Lengthy \in SUBSET (DOMAIN repaired)
  BY DEF Lengthy
<1>4. \A b \in blocks : Min(b) \in b
  BY <1>1, <1>2, <1>3, LeastOfNats
<1>5. DOMAIN Components(c) = {Min(b) : b \in blocks}
  BY DEF Components
<1>6. DOMAIN Components(c) \in SUBSET (DOMAIN repaired)
  BY <1>2, <1>3, <1>4, <1>5
<1>7. IsFiniteSet(DOMAIN repaired)
  <2>1. 1 \in Int /\ Len(repaired) \in Int
    BY <1>1
  <2> QED BY <1>1, <2>1, FS_Interval
<1>8. ASSUME NEW n \in DOMAIN Components(c)
      PROVE  Components(c)[n] \subseteq Places /\ Components(c)[n] # {}
  <2>1. Components(c)[n] = Parts(n)
    BY <1>5 DEF Components
  <2>2. PICK b \in blocks : n \in b /\ b = CHOOSE d \in blocks : n \in d
    <3>1. \E d \in blocks : n \in d
      BY <1>4, <1>5
    <3> HIDE DEF blocks
    <3> QED BY <3>1
  <2>3. Parts(n) = UNION {Covered(repaired[k]) : k \in b}
    BY <2>2
  <2>4. \A k \in b : repaired[k] \in Seq(Places) /\ Len(repaired[k]) > 1
    BY <1>1, <1>2, <1>3 DEF Lines
  <2>5. \A k \in b : Covered(repaired[k]) \subseteq Places /\ Covered(repaired[k]) # {}
    BY <2>4, CoveredPlaces
  <2>6. \E k \in b : TRUE
    BY <2>2
  <2>7. /\ UNION {Covered(repaired[k]) : k \in b} \subseteq Places
        /\ UNION {Covered(repaired[k]) : k \in b} # {}
    BY Zenon, <2>5, <2>6
  <2> HIDE DEF blocks, Parts
  <2> QED BY <2>1, <2>3, <2>7
<1> QED BY <1>1, <1>6, <1>7, <1>8, FS_Subset

\* Connectors have a length and join two components; there are finitely many.
LEMMA EligibleTyped ==
    ASSUME NEW parts, IsFiniteSet(DOMAIN parts),
           \A n \in DOMAIN parts : parts[n] \subseteq Places /\ parts[n] # {},
           NEW c
    PROVE  /\ Eligible(parts, c) \in SUBSET (Nat \X (DOMAIN parts) \X (DOMAIN parts))
           /\ IsFiniteSet(Eligible(parts, c))
<1> DEFINE N == DOMAIN parts
           pairs == {<<Shortest(parts[left], parts[right]), left, right>> : left, right \in N}
           pair == [q \in N \X N |-> <<Shortest(parts[q[1]], parts[q[2]]), q[1], q[2]>>]
<1>1. ASSUME NEW left \in N, NEW right \in N PROVE Shortest(parts[left], parts[right]) \in Nat
  <2> DEFINE distances == {Dist(p, q) : p \in parts[left], q \in parts[right]}
  <2>0. /\ parts[left] \subseteq Places /\ parts[left] # {}
        /\ parts[right] \subseteq Places /\ parts[right] # {}
    BY <1>1
  <2>1. distances \in SUBSET Nat /\ distances # {}
    BY <2>0, PlaneAssumption
  <2>2. Min(distances) \in Nat
    <3> HIDE DEF distances
    <3> QED BY <2>1, LeastOfNats
  <2> QED BY <2>2 DEF Shortest
<1>2. pairs \in SUBSET (Nat \X N \X N)
  <2> SUFFICES ASSUME NEW left \in N, NEW right \in N
               PROVE  <<Shortest(parts[left], parts[right]), left, right>> \in Nat \X N \X N
    OBVIOUS
  <2> QED BY <1>1
<1>3. IsFiniteSet(pairs)
  <2>1. pair \in Surjection(N \X N, pairs)
    <3>1. ASSUME NEW q \in N \X N PROVE pair[q] \in pairs
      BY <3>1
    <3>2. ASSUME NEW left \in N, NEW right \in N
          PROVE  pair[<<left, right>>] = <<Shortest(parts[left], parts[right]), left, right>>
      OBVIOUS
    <3>3. ASSUME NEW p \in pairs PROVE \E q \in N \X N : pair[q] = p
      <4>1. PICK left, right :
                left \in N /\ right \in N /\ p = <<Shortest(parts[left], parts[right]), left, right>>
        BY <3>3
      <4>2. <<left, right>> \in N \X N /\ pair[<<left, right>>] = p
        BY <3>2, <4>1
      <4> HIDE DEF pair
      <4> QED BY <4>2
    <3>4. pair = [q \in N \X N |-> pair[q]]
      OBVIOUS
    <3> HIDE DEF pair, pairs
    <3> QED BY <3>1, <3>3, <3>4 DEF Surjection
  <2>2. IsFiniteSet(N \X N)
    BY FS_Product
  <2> HIDE DEF pair, pairs
  <2> QED BY <2>1, <2>2, FS_Surjection
<1>4. Eligible(parts, c) \in SUBSET pairs
  BY DEF Eligible
<1> HIDE DEF pairs
<1> QED BY <1>2, <1>3, <1>4, FS_Subset

\* One of the candidates comes before all others.
LEMMA FirstCandidate ==
    ASSUME NEW N \in SUBSET Nat, NEW S \in SUBSET (Nat \X N \X N), S # {}
    PROVE  \E c \in S : \A d \in S \ {c} : Before(c, d)
<1>1. PICK c1 \in S : \A d \in S : c1[1] <= d[1]
  <2> DEFINE firsts == {d[1] : d \in S}
  <2>1. firsts \in SUBSET Nat /\ firsts # {}
    OBVIOUS
  <2>2. PICK x \in firsts : \A y \in firsts : x <= y
    <3> HIDE DEF firsts
    <3> QED BY <2>1, LeastNat
  <2> QED BY <2>2
<1>2. PICK c2 \in S : c2[1] = c1[1] /\ \A d \in S : d[1] = c1[1] => c2[2] <= d[2]
  <2> DEFINE seconds == {d[2] : d \in {d \in S : d[1] = c1[1]}}
  <2>1. seconds \in SUBSET Nat /\ seconds # {}
    OBVIOUS
  <2>2. PICK x \in seconds : \A y \in seconds : x <= y
    <3> HIDE DEF seconds
    <3> QED BY <2>1, LeastNat
  <2> QED BY <2>2
<1>3. PICK c \in S : /\ c[1] = c1[1] /\ c[2] = c2[2]
                     /\ \A d \in S : d[1] = c1[1] /\ d[2] = c2[2] => c[3] <= d[3]
  <2> DEFINE thirds == {d[3] : d \in {d \in S : d[1] = c1[1] /\ d[2] = c2[2]}}
  <2>1. thirds \in SUBSET Nat /\ thirds # {}
    BY <1>2
  <2>2. PICK x \in thirds : \A y \in thirds : x <= y
    <3> HIDE DEF thirds
    <3> QED BY <2>1, LeastNat
  <2> QED BY <2>2
<1>4. ASSUME NEW d \in S \ {c} PROVE Before(c, d)
  <2>1. /\ c[1] \in Nat /\ c[2] \in Nat /\ c[3] \in Nat
        /\ d[1] \in Nat /\ d[2] \in Nat /\ d[3] \in Nat
        /\ c = <<c[1], c[2], c[3]>> /\ d = <<d[1], d[2], d[3]>>
    <3>1. c \in Nat \X N \X N /\ d \in Nat \X N \X N
      BY <1>3, <1>4
    <3>2. c[2] \in N /\ c[3] \in N /\ d[2] \in N /\ d[3] \in N
      BY <3>1
    <3>3. c = <<c[1], c[2], c[3]>> /\ d = <<d[1], d[2], d[3]>> /\ c[1] \in Nat /\ d[1] \in Nat
      BY <3>1
    <3>4. c[2] \in Nat /\ c[3] \in Nat /\ d[2] \in Nat /\ d[3] \in Nat
      BY <3>2
    <3> QED BY <3>3, <3>4
  <2>2. c[1] <= d[1] /\ (d[1] = c[1] => c[2] <= d[2]) /\ (d[1] = c[1] /\ d[2] = c[2] => c[3] <= d[3])
    BY <1>1, <1>2, <1>3
  <2>3. d[1] # c[1] \/ d[2] # c[2] \/ d[3] # c[3]
    BY <2>1
  <2> QED BY <2>1, <2>2, <2>3 DEF Before
<1> QED BY <1>4

(***************************************************************************)
(* The forest                                                              *)
(***************************************************************************)
\* A choice of connectors that joins what all that are possible join.
Spans(N, possible, edges) ==
    edges \subseteq possible /\ \A X \in SUBSET N : Keeps(X, edges) => Keeps(X, possible)

\* The forest over N, the connectors taken and the candidates that are left: a
\* tree has the ends of what was considered, the connectors taken join every
\* tree, and whatever other choice spans, the connectors can be completed to one
\* that spans and is no longer.
Forested(N, possible, left, trees, taken) ==
    /\ trees \in [N -> N]
    /\ left \subseteq possible
    /\ taken \subseteq possible \ left
    /\ \A c \in possible \ left : trees[c[2]] = trees[c[3]]
    /\ \A X \in SUBSET N : Keeps(X, taken) =>
           \A i, j \in N : trees[i] = trees[j] /\ i \in X => j \in X
    /\ Cardinality(taken) + Cardinality(Range(trees)) = Cardinality(N)
    /\ \A other \in SUBSET possible : Spans(N, possible, other) =>
           \E M \in SUBSET possible :
               Spans(N, possible, M) /\ taken \subseteq M /\ Length(M) <= Length(other)

Possible == Eligible(Components(connection), connection)

ForestInv ==
    connectors # None =>
        /\ program = "roads" /\ exit = "ok"
        /\ Forested(DOMAIN Components(connection), Possible, candidates, forest, connectors)

\* The connectors that may be taken, between components named by numbers.
Typed(N, possible) ==
    /\ N \in SUBSET Nat /\ IsFiniteSet(N)
    /\ possible \in SUBSET (Nat \X N \X N) /\ IsFiniteSet(possible)

LEMMA EndsTyped ==
    ASSUME NEW N, NEW possible, Typed(N, possible)
    PROVE  \A c \in possible : c[1] \in Nat /\ c[2] \in N /\ c[3] \in N
<1> SUFFICES ASSUME NEW c \in possible PROVE c[1] \in Nat /\ c[2] \in N /\ c[3] \in N
  OBVIOUS
<1>1. c \in Nat \X N \X N
  BY DEF Typed
<1> QED BY <1>1

\* At first every component is a tree of its own.
LEMMA ForestBegins ==
    ASSUME NEW N, NEW possible, Typed(N, possible), NEW trees, trees = [n \in N |-> n]
    PROVE  Forested(N, possible, possible, trees, {})
<1>1. trees \in [N -> N] /\ Range(trees) = N
  BY DEF Range
<1>2. \A i, j \in N : trees[i] = trees[j] => i = j
  OBVIOUS
<1>3. Cardinality({}) + Cardinality(Range(trees)) = Cardinality(N)
  <2>1. Cardinality(N) \in Nat
    BY FS_CardinalityType DEF Typed
  <2> QED BY <1>1, <2>1, FS_EmptySet
<1>4. \A other \in SUBSET possible : Length(other) <= Length(other)
  <2> SUFFICES ASSUME NEW other \in SUBSET possible PROVE Length(other) \in Nat
    OBVIOUS
  <2>1. IsFiniteSet(other) /\ \A c \in other : c[1] \in Nat
    BY EndsTyped, FS_Subset DEF Typed
  <2> QED BY <2>1, LengthIsNat
<1> QED BY <1>1, <1>2, <1>3, <1>4 DEF Forested

\* A candidate that has both ends in one tree is dropped.
LEMMA ForestSkips ==
    ASSUME NEW N, NEW possible, NEW left, NEW trees, NEW taken,
           Forested(N, possible, left, trees, taken),
           NEW c \in left, trees[c[2]] = trees[c[3]]
    PROVE  Forested(N, possible, left \ {c}, trees, taken)
<1>1. left \ {c} \subseteq possible /\ taken \subseteq possible \ (left \ {c})
  BY DEF Forested
<1>2. \A d \in possible \ (left \ {c}) : trees[d[2]] = trees[d[3]]
  BY DEF Forested
<1> QED BY <1>1, <1>2 DEF Forested

\* A candidate that no other comes before is taken when it joins two trees.
LEMMA ForestJoins ==
    ASSUME NEW N, NEW possible, Typed(N, possible),
           NEW left, NEW trees, NEW taken, Forested(N, possible, left, trees, taken),
           NEW c \in left, \A d \in left \ {c} : Before(c, d),
           trees[c[2]] # trees[c[3]],
           NEW joined, joined = [n \in N |-> IF trees[n] = trees[c[3]] THEN trees[c[2]] ELSE trees[n]]
    PROVE  Forested(N, possible, left \ {c}, joined, taken \cup {c})
<1> DEFINE a == trees[c[2]]
           b == trees[c[3]]
<1>1. /\ c \in possible /\ c \notin taken
      /\ c[1] \in Nat /\ c[2] \in N /\ c[3] \in N
      /\ trees \in [N -> N] /\ a \in N /\ b \in N
  BY EndsTyped DEF Forested
<1>2. \A i \in N : joined[i] = IF trees[i] = b THEN a ELSE trees[i]
  OBVIOUS
<1>3. joined \in [N -> N]
  BY <1>1
<1>4. \A d \in possible : d[1] \in Nat /\ d[2] \in N /\ d[3] \in N
  BY EndsTyped
<1>5. left \ {c} \subseteq possible /\ taken \cup {c} \subseteq possible \ (left \ {c})
  BY <1>1 DEF Forested
<1>6. ASSUME NEW d \in possible \ (left \ {c}) PROVE joined[d[2]] = joined[d[3]]
  <2>1. CASE d = c
    BY <1>1, <1>2, <2>1
  <2>2. CASE d # c
    <3>1. trees[d[2]] = trees[d[3]]
      BY <1>6, <2>2 DEF Forested
    <3>2. d[2] \in N /\ d[3] \in N
      BY <1>4
    <3> QED BY <1>2, <3>1, <3>2
  <2> QED BY <2>1, <2>2
<1>7. \A X \in SUBSET N : Keeps(X, taken) =>
          \A i, j \in N : trees[i] = trees[j] /\ i \in X => j \in X
  BY DEF Forested
<1>8. ASSUME NEW X \in SUBSET N, Keeps(X, taken \cup {c}),
             NEW i \in N, NEW j \in N, joined[i] = joined[j], i \in X
      PROVE  j \in X
  <2>1. Keeps(X, taken) /\ (c[2] \in X <=> c[3] \in X)
    BY <1>8 DEF Keeps
  <2>2. \A k, m \in N : trees[k] = trees[m] /\ k \in X => m \in X
    BY <1>7, <2>1
  <2>3. CASE trees[i] = trees[j]
    BY <1>8, <2>2, <2>3
  <2>4. CASE trees[i] = b /\ trees[j] = a
    BY <1>1, <1>8, <2>1, <2>2, <2>4
  <2>5. CASE trees[i] = a /\ trees[j] = b
    BY <1>1, <1>8, <2>1, <2>2, <2>5
  <2> QED BY <1>2, <1>8, <2>3, <2>4, <2>5
<1>9. Cardinality(taken \cup {c}) + Cardinality(Range(joined)) = Cardinality(N)
  <2>1. Range(joined) = Range(trees) \ {b}
    <3>1. ASSUME NEW i \in N PROVE joined[i] \in Range(trees) \ {b}
      BY <1>1, <1>2 DEF Range
    <3>2. ASSUME NEW i \in N, trees[i] # b PROVE trees[i] \in Range(joined)
      BY <1>2, <1>3, <3>2 DEF Range
    <3>3. Range(joined) \subseteq Range(trees) \ {b}
      BY <1>3, <3>1 DEF Range
    <3>4. Range(trees) \ {b} \subseteq Range(joined)
      BY <1>1, <3>2 DEF Range
    <3> QED BY <3>3, <3>4
  <2>2. b \in Range(trees)
    BY <1>1 DEF Range
  <2>3. Range(trees) \in SUBSET N
    BY <1>1 DEF Range
  <2>4. IsFiniteSet(Range(trees)) /\ IsFiniteSet(taken)
    BY <2>3, FS_Subset DEF Typed, Forested
  <2>5. Cardinality(Range(joined)) = Cardinality(Range(trees)) - 1
    <3> HIDE DEF b
    <3>1. Cardinality(Range(trees) \ {b}) = Cardinality(Range(trees)) - 1
      BY <2>2, <2>4, FS_RemoveElement
    <3> QED BY <2>1, <3>1
  <2>6. Cardinality(taken \cup {c}) = Cardinality(taken) + 1
    BY <1>1, <2>4, FS_AddElement
  <2>7. Cardinality(taken) \in Nat /\ Cardinality(Range(trees)) \in Nat
    BY <2>4, FS_CardinalityType
  <2>8. Cardinality(taken) + Cardinality(Range(trees)) = Cardinality(N)
    BY DEF Forested
  <2> QED BY <2>5, <2>6, <2>7, <2>8
<1>10. ASSUME NEW other \in SUBSET possible, Spans(N, possible, other)
       PROVE  \E M \in SUBSET possible :
                  Spans(N, possible, M) /\ taken \cup {c} \subseteq M /\ Length(M) <= Length(other)
  <2>1. PICK M \in SUBSET possible :
            Spans(N, possible, M) /\ taken \subseteq M /\ Length(M) <= Length(other)
    BY <1>10 DEF Forested
  <2>2. CASE c \in M
    BY <2>1, <2>2
  <2>3. CASE c \notin M
    <3>1. IsFiniteSet(M) /\ IsFiniteSet(other)
      BY FS_Subset DEF Typed
    <3>2. Joins(N, M, c)
      BY <1>1, <2>1 DEF Joins, Spans, Keeps
    <3>3. ~Joins(N, taken, c)
      <4> DEFINE X == {n \in N : trees[n] = a}
      <4>1. \A d \in taken : d[2] \in N /\ d[3] \in N /\ trees[d[2]] = trees[d[3]]
        BY <1>4 DEF Forested
      <4>2. Keeps(X, taken)
        BY <4>1 DEF Keeps
      <4>3. ~Keeps(X, {c})
        BY <1>1 DEF Keeps
      <4> QED BY <4>2, <4>3 DEF Joins
    <3>4. \A d \in M : d[2] \in N /\ d[3] \in N
      BY <1>4
    <3>5. PICK e \in M :
              /\ ~Joins(N, taken, e)
              /\ \A X \in SUBSET N : Keeps(X, (M \ {e}) \cup {c}) => Keeps(X, M)
      <4>1. taken \in SUBSET M /\ c[2] \in N /\ c[3] \in N
        BY <1>1, <2>1
      <4> HIDE DEF a, b
      <4> QED BY <3>1, <3>2, <3>3, <3>4, <4>1, Exchange
    <3>6. trees[e[2]] # trees[e[3]]
      <4>1. PICK X \in SUBSET N : Keeps(X, taken) /\ ~Keeps(X, {e})
        BY <3>5 DEF Joins
      <4>2. e[2] \in N /\ e[3] \in N
        BY <3>4
      <4>3. ~(e[2] \in X <=> e[3] \in X)
        BY <4>1 DEF Keeps
      <4> QED BY <1>7, <4>1, <4>2, <4>3
    <3>7. e \in left \ {c} /\ e \notin taken
      BY <2>3, <3>5, <3>6 DEF Forested
    <3>8. c[1] <= e[1]
      BY <1>1, <1>4, <3>7 DEF Before
    <3>9. Spans(N, possible, (M \ {e}) \cup {c})
      BY <1>1, <2>1, <3>5 DEF Spans
    <3>10. \A d \in M : d[1] \in Nat
      BY <1>4
    <3>11. Length((M \ {e}) \cup {c}) <= Length(M)
      BY <1>1, <2>3, <3>1, <3>5, <3>8, <3>10, LengthOfExchange
    <3>12. IsFiniteSet((M \ {e}) \cup {c}) /\ \A d \in (M \ {e}) \cup {c} : d[1] \in Nat
      BY <1>1, <3>1, <3>10, FS_RemoveElement, FS_AddElement
    <3>13. \A d \in other : d[1] \in Nat
      BY <1>4
    <3>14. Length((M \ {e}) \cup {c}) \in Nat /\ Length(M) \in Nat /\ Length(other) \in Nat
      BY <3>1, <3>10, <3>12, <3>13, LengthIsNat
    <3>15. Length((M \ {e}) \cup {c}) <= Length(other)
      BY <2>1, <3>11, <3>14
    <3>16. (M \ {e}) \cup {c} \in SUBSET possible /\ taken \cup {c} \subseteq (M \ {e}) \cup {c}
      BY <1>1, <2>1, <3>7
    <3> QED BY <3>9, <3>15, <3>16
  <2> QED BY <2>2, <2>3
<1> QED BY <1>3, <1>5, <1>6, <1>8, <1>9, <1>10 DEF Forested

\* When nothing is left, or one tree is, what keeps the connectors together keeps
\* together what all possible connectors join.
LEMMA ForestSpans ==
    ASSUME NEW N, NEW possible, Typed(N, possible),
           NEW left, NEW trees, NEW taken, Forested(N, possible, left, trees, taken),
           left = {} \/ Cardinality(taken) = Cardinality(N) - 1
    PROVE  /\ \A c \in possible : trees[c[2]] = trees[c[3]]
           /\ Spans(N, possible, taken)
<1>1. \A c \in possible : c[2] \in N /\ c[3] \in N
  BY EndsTyped
<1>2. trees \in [N -> N] /\ Range(trees) \in SUBSET N
  BY DEF Forested, Range
<1>3. \A c \in possible : trees[c[2]] = trees[c[3]]
  <2>1. CASE left = {}
    BY <2>1 DEF Forested
  <2>2. CASE Cardinality(taken) = Cardinality(N) - 1
    <3>1. IsFiniteSet(Range(trees)) /\ IsFiniteSet(taken)
      BY <1>2, FS_Subset DEF Typed, Forested
    <3>2. Cardinality(Range(trees)) \in Nat /\ Cardinality(taken) \in Nat /\ Cardinality(N) \in Nat
      BY <3>1, FS_CardinalityType DEF Typed
    <3>3. Cardinality(Range(trees)) = 1
      BY <2>2, <3>2 DEF Forested
    <3>4. PICK r : Range(trees) = {r}
      BY <3>1, <3>3, FS_Singleton
    <3>5. \A n \in N : trees[n] = r
      BY <1>2, <3>4 DEF Range
    <3> QED BY <1>1, <3>5
  <2> QED BY <2>1, <2>2
<1>4. ASSUME NEW X \in SUBSET N, Keeps(X, taken), NEW c \in possible PROVE c[2] \in X <=> c[3] \in X
  <2>1. c[2] \in N /\ c[3] \in N /\ trees[c[2]] = trees[c[3]]
    BY <1>1, <1>3
  <2>2. \A i, j \in N : trees[i] = trees[j] /\ i \in X => j \in X
    BY <1>4 DEF Forested
  <2> QED BY <2>1, <2>2
<1>5. taken \subseteq possible
  BY DEF Forested
<1> QED BY <1>3, <1>4, <1>5 DEF Spans, Keeps

\* The networks are the trees.
LEMMA TreesCounted ==
    ASSUME NEW N, NEW possible, Typed(N, possible),
           NEW left, NEW trees, NEW taken, Forested(N, possible, left, trees, taken),
           \A c \in possible : trees[c[2]] = trees[c[3]]
    PROVE  Cardinality(Range(trees)) = Cardinality(Blocks(N, Pairs(possible)))
<1> DEFINE Tree(r) == {n \in N : trees[n] = r}
           tree == [r \in Range(trees) |-> Tree(r)]
<1>1. \A c \in possible : c[2] \in N /\ c[3] \in N
  BY EndsTyped
<1>2. trees \in [N -> N] /\ Range(trees) \in SUBSET N
  BY DEF Forested, Range
<1>3. ASSUME NEW n \in N PROVE Block(n, N, Pairs(possible)) = Tree(trees[n])
  <2>1. ASSUME NEW m \in Block(n, N, Pairs(possible)) PROVE m \in Tree(trees[n])
    <3>1. Keeps(Tree(trees[n]), possible)
      BY <1>1 DEF Keeps
    <3>2. Closed(Tree(trees[n]), Pairs(possible))
      BY <3>1, ClosedKeeps
    <3>3. Tree(trees[n]) \in SUBSET N /\ n \in Tree(trees[n])
      OBVIOUS
    <3> HIDE DEF Tree
    <3> QED BY <2>1, <3>2, <3>3 DEF Block
  <2>2. ASSUME NEW m \in Tree(trees[n]) PROVE m \in Block(n, N, Pairs(possible))
    <3>1. ASSUME NEW X \in SUBSET N, n \in X, Closed(X, Pairs(possible)) PROVE m \in X
      <4>1. Keeps(X, possible)
        BY <3>1, ClosedKeeps
      <4>2. Keeps(X, taken)
        BY <4>1 DEF Keeps, Forested
      <4> QED BY <2>2, <3>1, <4>2 DEF Forested
    <3> QED BY <2>2, <3>1 DEF Block
  <2>3. Block(n, N, Pairs(possible)) \subseteq Tree(trees[n])
    BY <2>1
  <2>4. Tree(trees[n]) \subseteq Block(n, N, Pairs(possible))
    BY <2>2
  <2> HIDE DEF Tree
  <2> QED BY <2>3, <2>4
<1>4. tree \in Bijection(Range(trees), Blocks(N, Pairs(possible)))
  <2>1. ASSUME NEW r \in Range(trees) PROVE \E n \in N : trees[n] = r /\ Tree(r) = Block(n, N, Pairs(possible))
    <3>1. PICK n \in N : trees[n] = r
      BY <1>2 DEF Range
    <3> QED BY <1>3, <3>1
  <2>2. \A r \in Range(trees) : tree[r] = Tree(r) /\ tree[r] \in Blocks(N, Pairs(possible))
    BY <2>1 DEF Blocks
  <2>3. \A b \in Blocks(N, Pairs(possible)) : \E r \in Range(trees) : tree[r] = b
    <3> SUFFICES ASSUME NEW n \in N
                 PROVE  \E r \in Range(trees) : tree[r] = Block(n, N, Pairs(possible))
      BY DEF Blocks
    <3>1. trees[n] \in Range(trees)
      BY <1>2 DEF Range
    <3> QED BY <1>3, <3>1
  <2>4. ASSUME NEW r \in Range(trees), NEW s \in Range(trees), tree[r] = tree[s] PROVE r = s
    <3>1. PICK n \in N : trees[n] = r
      BY <1>2 DEF Range
    <3>2. n \in Tree(r)
      BY <3>1
    <3>3. n \in Tree(s)
      BY <2>2, <2>4, <3>2
    <3> QED BY <3>1, <3>3
  <2>5. tree \in [Range(trees) -> Blocks(N, Pairs(possible))]
    <3>1. tree = [r \in Range(trees) |-> tree[r]]
      OBVIOUS
    <3> HIDE DEF tree
    <3> QED BY <2>2, <3>1
  <2> HIDE DEF tree
  <2> QED BY <2>3, <2>4, <2>5 DEF Bijection, Injection, Surjection, IsInjective
<1>5. IsFiniteSet(Range(trees))
  BY <1>2, FS_Subset DEF Typed
<1>6. ExistsBijection(Range(trees), Blocks(N, Pairs(possible)))
  BY <1>4 DEF ExistsBijection
<1> QED BY <1>5, <1>6, FS_Bijection

LEMMA RepairedLines == RoadInv => Lines(repaired)
<1> SUFFICES ASSUME RoadInv PROVE Lines(repaired)
  OBVIOUS
<1>1. CASE Projected
  BY <1>1, RepairedEnds
<1>2. CASE ~Projected
  <2>1. network \in Networks /\ repaired = lines
    <3>1. tolerance \in Nat
      BY NetworkLines DEF RoadInv
    <3> QED BY <1>2, <3>1 DEF RoadInv, Projected
  <2> QED BY <2>1, NetworkLines
<1> QED BY <1>1, <1>2

LEMMA PossibleTyped ==
    ASSUME RoadInv, NEW c
    PROVE  Typed(DOMAIN Components(c), Eligible(Components(c), c))
BY RepairedLines, PartsTyped, EligibleTyped DEF Typed

\* The components are those of the lines and the configuration.
LEMMA PartsStay ==
    ASSUME repaired' = repaired
    PROVE  Components(connection)' = Components(connection') /\ Possible' = Eligible(Components(connection'), connection')
<1>1. Components(connection)' = Components(connection')
  BY DEF Components, ComponentIds, Lengthy, Near
<1> QED BY <1>1 DEF Possible

LEMMA ConnectKeeps == RoadInv /\ Connecting /\ Connect => ForestInv'
<1> SUFFICES ASSUME RoadInv, Connecting, Connect PROVE ForestInv'
  OBVIOUS
<1> DEFINE N == DOMAIN Components(connection')
           possible == Eligible(Components(connection'), connection')
<1>1. /\ program' = "roads" /\ exit' = "ok" /\ repaired' = repaired
      /\ candidates' = possible /\ forest' = [n \in N |-> n] /\ connectors' = {}
  BY DEF Connecting, Connect, roadVars, fileVars
<1>2. Typed(N, possible)
  BY PossibleTyped
<1>3. Forested(N, possible, candidates', forest', connectors')
  <2> HIDE DEF N, possible
  <2> QED BY <1>1, <1>2, ForestBegins
<1>4. (DOMAIN Components(connection))' = N /\ Possible' = possible
  BY <1>1, PartsStay
<1> HIDE DEF N, possible
<1> QED BY <1>1, <1>3, <1>4 DEF ForestInv

LEMMA ConsiderKeeps == RoadInv /\ ForestInv /\ Connecting /\ Consider => ForestInv'
<1> SUFFICES ASSUME RoadInv, ForestInv, Connecting, Consider PROVE ForestInv'
  OBVIOUS
<1> DEFINE N == DOMAIN Components(connection)
           c == CHOOSE c \in candidates : \A d \in candidates \ {c} : Before(c, d)
<1>1. /\ program = "roads" /\ exit = "ok" /\ connectors # None /\ candidates # {}
      /\ Forested(N, Possible, candidates, forest, connectors)
  BY DEF Consider, ForestInv
<1>2. /\ program' = "roads" /\ exit' = "ok" /\ repaired' = repaired /\ connection' = connection
      /\ candidates' = candidates \ {c}
  BY <1>1 DEF Connecting, Consider, roadVars, fileVars
<1>3. IF forest[c[2]] = forest[c[3]] THEN forest' = forest /\ connectors' = connectors
      ELSE forest' = Union(c[2], c[3]) /\ connectors' = connectors \cup {c}
  BY DEF Consider
<1>4. Typed(N, Possible)
  BY PossibleTyped DEF Possible
<1>5. c \in candidates /\ \A d \in candidates \ {c} : Before(c, d)
  <2>1. N \in SUBSET Nat /\ candidates \in SUBSET (Nat \X N \X N)
    BY <1>1, <1>4 DEF Typed, Forested
  <2>2. \E d \in candidates : \A e \in candidates \ {d} : Before(d, e)
    <3> HIDE DEF N
    <3> QED BY <1>1, <2>1, FirstCandidate
  <2> HIDE DEF N
  <2> QED BY <2>2
<1>6. Forested(N, Possible, candidates', forest', connectors')
  <2>1. CASE forest[c[2]] = forest[c[3]]
    <3> HIDE DEF N, c
    <3> QED BY <1>1, <1>2, <1>3, <1>5, <2>1, ForestSkips
  <2>2. CASE forest[c[2]] # forest[c[3]]
    <3>1. DOMAIN forest = N
      BY <1>1 DEF Forested
    <3>2. forest' = [n \in N |-> IF forest[n] = forest[c[3]] THEN forest[c[2]] ELSE forest[n]]
      BY <1>3, <2>2, <3>1 DEF Union
    <3>3. connectors' = connectors \cup {c}
      BY <1>3, <2>2
    <3> HIDE DEF N, c
    <3> QED BY <1>1, <1>2, <1>4, <1>5, <2>2, <3>2, <3>3, ForestJoins
  <2> QED BY <2>1, <2>2
<1>7. (DOMAIN Components(connection))' = N /\ Possible' = Possible
  BY <1>2, PartsStay DEF Possible
<1> HIDE DEF N, c
<1> QED BY <1>2, <1>6, <1>7 DEF ForestInv

LEMMA ForestStepKeeps == RoadInv /\ ForestInv /\ [Next]_pipeVars => ForestInv'
<1> SUFFICES ASSUME RoadInv, ForestInv, [Next]_pipeVars PROVE ForestInv'
  OBVIOUS
<1>1. CASE Connecting
  BY <1>1, ConnectKeeps, ConsiderKeeps DEF Connecting, ConnectNext
<1>2. CASE (Roads /\ connectors = None) \/ Streaming \/ Analysing
  BY <1>2 DEF Roads, Streaming, Analysing, connectVars, ForestInv
<1>3. CASE Roads /\ connectors # None
  <2>1. exit = "ok" /\ RoadNext
    BY <1>3 DEF ForestInv, Roads
  <2>2. Running
    BY <2>1 DEF RoadNext, Accept, Reject, Join, Found, Anchor, Cluster, Project, NothingLeft, Write,
                WriteFails, Publish, Report, RoadKilled, At
  <2> QED BY <2>1, <2>2, NoneAssumption DEF Running
<1>4. CASE UNCHANGED pipeVars
  <2>1. /\ UNCHANGED <<program, exit, repaired, connection, candidates, forest, connectors>>
    BY <1>4 DEF pipeVars, roadVars, connectVars, fileVars
  <2>2. Components(connection)' = Components(connection) /\ Possible' = Possible
    BY <2>1, PartsStay DEF Possible
  <2> QED BY <2>1, <2>2 DEF ForestInv
<1> QED BY <1>1, <1>2, <1>3, <1>4 DEF Next

LEMMA ForestConnects == RoadInv /\ ForestInv => NetworkConnected
<1> SUFFICES ASSUME RoadInv, ForestInv, Connected PROVE NetworkConnected
  BY DEF NetworkConnected
<1> DEFINE N == DOMAIN Components(connection)
<1>1. Forested(N, Possible, candidates, forest, connectors) /\ Typed(N, Possible)
  BY PossibleTyped DEF Connected, ForestInv, Possible
<1>2. DOMAIN forest = N /\ connectors \subseteq Possible /\ Range(forest) \in SUBSET N
  BY <1>1 DEF Forested, Range
<1>3. \A edges : Joined(edges) = Blocks(N, Pairs(edges))
  BY <1>2 DEF Joined, Pairs
<1> HIDE DEF N
<1>4. (\A c \in Possible : forest[c[2]] = forest[c[3]]) /\ Spans(N, Possible, connectors)
  <2>1. candidates = {} \/ Cardinality(connectors) = Cardinality(N) - 1
    BY <1>2 DEF Connected, Enough
  <2> QED BY <1>1, <2>1, ForestSpans
<1>5. ASSUME NEW edges \in SUBSET Possible
      PROVE  Joined(edges) = Joined(Possible) <=> Spans(N, Possible, edges)
  <2>1. \A c \in edges \cup Possible : c[2] \in N /\ c[3] \in N
    BY <1>1, EndsTyped
  <2>2. Joined(edges) = Joined(Possible) <=> \A X \in SUBSET N : Keeps(X, edges) <=> Keeps(X, Possible)
    BY <1>3, <2>1, NetworksByCuts
  <2> QED BY <2>2 DEF Spans, Keeps
<1>6. Joined(connectors) = Joined(Possible)
  BY <1>2, <1>4, <1>5
<1>7. Remaining = Cardinality(Joined(Possible))
  BY <1>1, <1>3, <1>4, TreesCounted DEF Remaining
<1>8. Cardinality(connectors) = Cardinality(N) - Remaining
  <2>1. IsFiniteSet(connectors) /\ IsFiniteSet(Range(forest)) /\ IsFiniteSet(N)
    BY <1>1, <1>2, FS_Subset DEF Typed
  <2>2. Cardinality(connectors) \in Nat /\ Cardinality(Range(forest)) \in Nat /\ Cardinality(N) \in Nat
    BY <2>1, FS_CardinalityType
  <2> QED BY <1>1, <2>2 DEF Forested, Remaining
<1>9. ASSUME NEW other \in SUBSET Possible, Joined(other) = Joined(Possible)
      PROVE  Length(connectors) <= Length(other)
  <2>1. Spans(N, Possible, other)
    BY <1>5, <1>9
  <2>2. PICK M \in SUBSET Possible : connectors \subseteq M /\ Length(M) <= Length(other)
    BY <1>1, <2>1 DEF Forested
  <2>3. \A edges \in SUBSET Possible : IsFiniteSet(edges) /\ \A c \in edges : c[1] \in Nat
    BY <1>1, EndsTyped, FS_Subset DEF Typed
  <2>4. Length(connectors) <= Length(M)
    BY <2>2, <2>3, LengthGrows
  <2>5. Length(connectors) \in Nat /\ Length(M) \in Nat /\ Length(other) \in Nat
    BY <1>2, <2>3, LengthIsNat
  <2> QED BY <2>2, <2>4, <2>5
<1> QED BY <1>2, <1>6, <1>7, <1>8, <1>9 DEF NetworkConnected, Possible

\* When the connector ends, its connectors join just the components that eligible
\* pairs can join, the count of remaining networks is theirs, and no other choice of
\* eligible pairs that joins the same components is shorter.
THEOREM NetworksConnected == Spec => []NetworkConnected
<1>1. Init => ForestInv
  BY DEF Init, ConnectInit, ForestInv
<1> QED BY <1>1, RoadInitHolds, RoadStepKeeps, ForestStepKeeps, ForestConnects, PTL DEF Spec

(***************************************************************************)
(* Spatial analyses: least and greatest elements, and what the measures of *)
(* two geometries come to                                                  *)
(***************************************************************************)
LEMMA Shares ==
    ASSUME NEW a \in Nat, NEW b \in Nat, b > 0
    PROVE  /\ Share(a, b) \in Nat
           /\ a <= b => Share(a, b) <= 1000
           /\ a = b => Share(a, b) = 1000
           /\ a = 0 => Share(a, b) = 0
<1> DEFINE q == (1000 * a) \div b
           r == (1000 * a) % b
<1>1. q \in Int /\ r \in 0..(b - 1) /\ 1000 * a = b * q + r
  OBVIOUS
<1>2. q >= 0
  BY <1>1
<1>3. a <= b => q <= 1000
  BY <1>1
<1>4. a = b => q = 1000
  BY <1>1
<1>5. a = 0 => q = 0
  BY <1>1
<1> QED BY <1>1, <1>2, <1>3, <1>4, <1>5 DEF Share

LEMMA Extremes ==
    ASSUME NEW S \in SUBSET Int, IsFiniteSet(S), S # {}
    PROVE  /\ Min(S) \in S /\ Max(S) \in S
           /\ \A x \in S : Min(S) <= x /\ x <= Max(S)
<1> DEFINE Has(T) == \E lo, hi \in T : \A x \in T : lo <= x /\ x <= hi
           Of(n) == {T \in SUBSET Int : IsFiniteSet(T) /\ T # {} /\ Cardinality(T) = n}
           bad == {n \in Nat : \E T \in Of(n) : ~Has(T)}
<1>1. bad = {}
  <2> SUFFICES ASSUME bad # {} PROVE FALSE
    OBVIOUS
  <2>1. PICK n \in bad : \A m \in bad : n <= m
    <3>1. bad \in SUBSET Nat
      OBVIOUS
    <3> HIDE DEF bad
    <3> QED BY <3>1, LeastNat
  <2>2. PICK T \in Of(n) : ~Has(T)
    BY <2>1
  <2>3. PICK t \in T : TRUE
    BY <2>2
  <2>4. t \in Int /\ T \in SUBSET Int /\ IsFiniteSet(T) /\ Cardinality(T) = n /\ n \in Nat
    BY <2>1, <2>2, <2>3
  <2>5. IsFiniteSet(T \ {t}) /\ Cardinality(T \ {t}) = n - 1
    BY <2>3, <2>4, FS_RemoveElement
  <2>6. CASE T \ {t} = {}
    <3>1. T = {t}
      BY <2>3, <2>6
    <3>2. \A x \in T : t <= x /\ x <= t
      BY <3>1, <2>4
    <3> QED BY <3>2, <2>2, <2>3
  <2>7. CASE T \ {t} # {}
    <3>1. Cardinality(T \ {t}) \in Nat
      BY <2>5, FS_CardinalityType
    <3>2. T \ {t} \in Of(n - 1) /\ n - 1 \in Nat
      BY <2>4, <2>5, <2>7, <3>1
    <3>3. Has(T \ {t})
      <4>1. n - 1 \notin bad
        BY <2>1, <2>4, <3>2
      <4> QED BY <4>1, <3>2
    <3>4. PICK lo \in T \ {t}, hi \in T \ {t} : \A x \in T \ {t} : lo <= x /\ x <= hi
      BY <3>3
    <3>5. \E l \in T : \A x \in T : l <= x
      <4>1. CASE t <= lo
        BY <4>1, <3>4, <2>3, <2>4
      <4>2. CASE ~(t <= lo)
        BY <4>2, <3>4, <2>3, <2>4
      <4> QED BY <4>1, <4>2
    <3>6. \E h \in T : \A x \in T : x <= h
      <4>1. CASE hi <= t
        BY <4>1, <3>4, <2>3, <2>4
      <4>2. CASE ~(hi <= t)
        BY <4>2, <3>4, <2>3, <2>4
      <4> QED BY <4>1, <4>2
    <3> QED BY <3>5, <3>6, <2>2
  <2> QED BY <2>6, <2>7
<1>2. Cardinality(S) \in Nat
  BY FS_CardinalityType
<1>3. Has(S)
  <2>1. S \in Of(Cardinality(S))
    OBVIOUS
  <2> QED BY <1>1, <1>2, <2>1
<1>4. PICK lo \in S, hi \in S : \A x \in S : lo <= x /\ x <= hi
  BY <1>3
<1> HIDE DEF bad, Of, Has
<1>5. Min(S) \in S /\ \A x \in S : Min(S) <= x
  BY <1>4 DEF Min
<1>6. Max(S) \in S /\ \A x \in S : Max(S) >= x
  BY <1>4 DEF Max
<1> QED BY <1>5, <1>6

LEMMA OfTwo ==
    ASSUME NEW a \in Int, NEW b \in Int
    PROVE  /\ Min({a, b}) \in {a, b} /\ Min({a, b}) <= a /\ Min({a, b}) <= b
           /\ Max({a, b}) \in {a, b} /\ Max({a, b}) >= a /\ Max({a, b}) >= b
<1>1. IsFiniteSet({a, b})
  <2>1. IsFiniteSet({} \cup {a})
    BY FS_EmptySet, FS_AddElement
  <2>2. IsFiniteSet(({} \cup {a}) \cup {b})
    BY <2>1, FS_AddElement
  <2>3. ({} \cup {a}) \cup {b} = {a, b}
    OBVIOUS
  <2> QED BY <2>2, <2>3
<1>2. {a, b} \in SUBSET Int /\ {a, b} # {} /\ a \in {a, b} /\ b \in {a, b}
  OBVIOUS
<1> QED BY <1>1, <1>2, Extremes

LEMMA Capped ==
    ASSUME NEW x \in Int
    PROVE  Min({1000, x}) \in {1000, x} /\ Min({1000, x}) <= 1000 /\ Min({1000, x}) <= x
<1> DEFINE c == 1000
<1>1. c \in Int
  OBVIOUS
<1> HIDE DEF c
<1>2. Min({c, x}) \in {c, x} /\ Min({c, x}) <= c /\ Min({c, x}) <= x
  BY <1>1, OfTwo, Zenon
<1> QED BY <1>2 DEF c

LEMMA Floored ==
    ASSUME NEW x \in Int
    PROVE  Max({0, x}) \in {0, x} /\ Max({0, x}) >= 0 /\ Max({0, x}) >= x
<1> DEFINE c == 0
<1>1. c \in Int
  OBVIOUS
<1> HIDE DEF c
<1>2. Max({c, x}) \in {c, x} /\ Max({c, x}) >= c /\ Max({c, x}) >= x
  BY <1>1, OfTwo, Zenon
<1> QED BY <1>2 DEF c

LEMMA Envelope ==
    ASSUME NEW g \in Shapes
    PROVE  /\ Extent[g].low[1] \in Int /\ Extent[g].high[1] \in Int
           /\ Extent[g].low[2] \in Int /\ Extent[g].high[2] \in Int
           /\ Extent[g].low[1] <= Extent[g].high[1]
           /\ Extent[g].low[2] <= Extent[g].high[2]
<1>1. \A axis \in {1, 2} :
          /\ Extent[g].low[axis] \in Int /\ Extent[g].high[axis] \in Int
          /\ Extent[g].low[axis] <= Extent[g].high[axis]
  BY GeosAssumption, Zenon
<1>2. 1 \in {1, 2} /\ 2 \in {1, 2}
  OBVIOUS
<1> QED BY <1>1, <1>2, Zenon

LEMMA NearbyAxes ==
    ASSUME NEW g, NEW h, NEW t
    PROVE  Nearby(g, h, t) <=>
               /\ Extent[g].low[1] - t <= Extent[h].high[1] /\ Extent[h].low[1] <= Extent[g].high[1] + t
               /\ Extent[g].low[2] - t <= Extent[h].high[2] /\ Extent[h].low[2] <= Extent[g].high[2] + t
BY DEF Nearby

\* What the assumption says of two geometries.
LEMMA Together ==
    ASSUME NEW g \in Shapes, NEW h \in Shapes
    PROVE  /\ Measure(Extent[g]) \in Nat
           /\ Measure(Common[g][h]) \in Nat /\ Measure(United[g][h]) \in Nat
           /\ Hausdorff[g][h] \in Nat /\ Scale(g, h) \in Nat
           /\ g = h => Measure(Common[g][h]) = Measure(United[g][h]) /\ Hausdorff[g][h] = 0
           /\ Common[g][h] = Common[h][g]
           /\ ~Nearby(g, h, 0) => Measure(Common[g][h]) = 0
<1>1. Extent[g].area \in Nat /\ Extent[g].length \in Nat
  BY GeosAssumption, Zenon
<1>2. /\ Common[g][h].area \in Nat /\ Common[g][h].length \in Nat
      /\ United[g][h].area \in Nat /\ United[g][h].length \in Nat
      /\ Hausdorff[g][h] \in Nat /\ Scale(g, h) \in Nat
      /\ Common[g][h] = Common[h][g]
  BY GeosAssumption, Zenon
<1>3. ~Nearby(g, h, 0) => Common[g][h] = [empty |-> TRUE, area |-> 0, length |-> 0]
  BY GeosAssumption, Zenon
<1>4. Measure(Common[g][g]) = Measure(United[g][g]) /\ Hausdorff[g][g] = 0
  BY GeosAssumption, Zenon
<1>5. \A s : s.area \in Nat /\ s.length \in Nat => Measure(s) \in Nat
  BY DEF Measure
<1>6. Measure([empty |-> TRUE, area |-> 0, length |-> 0]) = 0
  BY DEF Measure
<1>7. Measure(Extent[g]) \in Nat /\ Measure(Common[g][h]) \in Nat /\ Measure(United[g][h]) \in Nat
  BY <1>1, <1>2, <1>5, Zenon
<1>8. ~Nearby(g, h, 0) => Measure(Common[g][h]) = 0
  BY <1>3, <1>6, Zenon
<1>9. g = h => Measure(Common[g][h]) = Measure(United[g][h]) /\ Hausdorff[g][h] = 0
  BY <1>4, Zenon
<1> QED BY <1>2, <1>7, <1>8, <1>9, Zenon

LEMMA SelfNearby == ASSUME NEW g \in Shapes PROVE Nearby(g, g, 0)
BY Envelope, NearbyAxes

LEMMA NearbySymmetric ==
    ASSUME NEW g \in Shapes, NEW h \in Shapes, Nearby(g, h, 0)
    PROVE  Nearby(h, g, 0)
BY Envelope, NearbyAxes

LEMMA NearbyGrows ==
    ASSUME NEW g \in Shapes, NEW h \in Shapes, NEW t \in Nat, Nearby(g, h, 0)
    PROVE  Nearby(g, h, t)
BY Envelope, NearbyAxes

\* Geometries out of reach of each other share nothing.
LEMMA IouShare ==
    ASSUME NEW g \in Shapes, NEW h \in Shapes
    PROVE  /\ Iou(g, h) \in 0..1000
           /\ g = h => Iou(g, h) = 1000
           /\ ~Nearby(g, h, 0) => Iou(g, h) = 0
<1> DEFINE all == Measure(United[g][h])
           common == Measure(Common[g][h])
<1>1. all \in Nat /\ common \in Nat
  BY Together
<1>2. g = h => common = all
  BY Together
<1>3. ~Nearby(g, h, 0) => common = 0 /\ g # h
  BY Together, SelfNearby
<1>4. Iou(g, h) = IF all = 0 THEN (IF g = h THEN 1000 ELSE 0) ELSE Min({1000, Share(common, all)})
  BY DEF Iou
<1> HIDE DEF all, common
<1>5. CASE all = 0
  BY <1>3, <1>4, <1>5
<1>6. CASE all # 0
  <2>1. /\ Share(common, all) \in Nat
        /\ common = all => Share(common, all) = 1000
        /\ common = 0 => Share(common, all) = 0
    BY <1>1, <1>6, Shares
  <2>2. /\ Min({1000, Share(common, all)}) \in {1000, Share(common, all)}
        /\ Min({1000, Share(common, all)}) <= 1000
        /\ Min({1000, Share(common, all)}) <= Share(common, all)
    <3>1. Share(common, all) \in Int
      BY <2>1
    <3> QED BY <3>1, Capped, SMT
  <2> QED BY <1>2, <1>3, <1>4, <1>6, <2>1, <2>2
<1> QED BY <1>5, <1>6

LEMMA HausdorffShare ==
    ASSUME NEW g \in Shapes, NEW h \in Shapes
    PROVE  /\ HausdorffSimilarity(g, h) \in 0..1000
           /\ g = h => HausdorffSimilarity(g, h) = 1000
<1> DEFINE scale == Scale(g, h)
           far == Hausdorff[g][h]
<1>1. scale \in Nat /\ far \in Nat /\ (g = h => far = 0)
  BY Together
<1>2. HausdorffSimilarity(g, h) =
          IF scale = 0 THEN (IF far = 0 THEN 1000 ELSE 0) ELSE Max({0, 1000 - Share(far, scale)})
  BY DEF HausdorffSimilarity
<1> HIDE DEF scale, far
<1>3. CASE scale = 0
  BY <1>1, <1>2, <1>3
<1>4. CASE scale # 0
  <2>1. Share(far, scale) \in Nat /\ (far = 0 => Share(far, scale) = 0)
    BY <1>1, <1>4, Shares
  <2>2. /\ Max({0, 1000 - Share(far, scale)}) \in {0, 1000 - Share(far, scale)}
        /\ Max({0, 1000 - Share(far, scale)}) >= 0
        /\ Max({0, 1000 - Share(far, scale)}) >= 1000 - Share(far, scale)
    <3>1. 1000 - Share(far, scale) \in Int
      BY <2>1
    <3> QED BY <3>1, Floored, SMT
  <2> QED BY <1>1, <1>2, <1>4, <2>1, <2>2
<1> QED BY <1>3, <1>4

LEMMA Filled == ASSUME NEW g \in Shapes PROVE Fill(g) \in Nat
<1>1. Extent[g].area \in Nat
  BY GeosAssumption
<1>2. Box(g) \in Nat
  <2> DEFINE a == Extent[g].high[1] - Extent[g].low[1]
             b == Extent[g].high[2] - Extent[g].low[2]
  <2>1. a \in Nat /\ b \in Nat
    BY Envelope
  <2>2. Box(g) = a * b
    BY DEF Box
  <2> HIDE DEF a, b
  <2> QED BY <2>1, <2>2
<1> QED BY <1>1, <1>2, Shares DEF Fill

LEMMA ShapeShare ==
    ASSUME NEW g \in Shapes, NEW h \in Shapes
    PROVE  /\ ShapeSimilarity(g, h) \in 0..1000
           /\ g = h => ShapeSimilarity(g, h) = 1000
<1> DEFINE a == Measure(Extent[g])
           b == Measure(Extent[h])
           ratio == IF Max({a, b}) = 0 THEN (IF g = h THEN 1000 ELSE 0) ELSE Share(Min({a, b}), Max({a, b}))
           apart == Max({Fill(g), Fill(h)}) - Min({Fill(g), Fill(h)})
           half == (ratio + 1000 - apart) \div 2
<1>1. a \in Nat /\ b \in Nat /\ (g = h => a = b)
  BY Together
<1>2. Fill(g) \in Int /\ Fill(h) \in Int
  BY Filled
<1>3. ShapeSimilarity(g, h) = Max({0, Min({1000, half})})
  BY DEF ShapeSimilarity
<1>4. apart \in Int /\ (g = h => apart = 0)
  <2>1. /\ Max({Fill(g), Fill(h)}) \in {Fill(g), Fill(h)}
        /\ Min({Fill(g), Fill(h)}) \in {Fill(g), Fill(h)}
    BY <1>2, OfTwo, Zenon
  <2> QED BY <1>2, <2>1
<1>5. ratio \in Int /\ (g = h => ratio = 1000)
  <2> HIDE DEF a, b
  <2>1. Min({a, b}) \in Nat /\ Max({a, b}) \in Nat /\ (g = h => Min({a, b}) = Max({a, b}))
    <3>1. a \in Int /\ b \in Int
      BY <1>1
    <3>2. Min({a, b}) \in {a, b} /\ Max({a, b}) \in {a, b}
      BY <3>1, OfTwo, Zenon
    <3> QED BY <1>1, <3>2
  <2>2. CASE Max({a, b}) = 0
    BY <2>2
  <2>3. CASE Max({a, b}) # 0
    BY <2>1, <2>3, Shares
  <2> QED BY <2>2, <2>3
<1> HIDE DEF a, b, ratio, apart
<1>6. half \in Int /\ (g = h => half = 1000)
  BY <1>4, <1>5
<1> HIDE DEF half
<1>7. Min({1000, half}) \in {1000, half} /\ Min({1000, half}) <= 1000
  BY <1>6, Capped, SMT
<1>8. /\ Max({0, Min({1000, half})}) \in {0, Min({1000, half})}
      /\ Max({0, Min({1000, half})}) >= 0
      /\ Max({0, Min({1000, half})}) >= Min({1000, half})
  <2>1. Min({1000, half}) \in Int
    BY <1>6, <1>7
  <2> QED BY <2>1, Floored, SMT
<1> QED BY <1>3, <1>6, <1>7, <1>8

\* The score of equals is the greatest.
LEMMA ScoreShare ==
    ASSUME NEW g \in Shapes, NEW h \in Shapes
    PROVE  /\ Score(g, h) \in Int /\ Score(g, h) <= 1000
           /\ g = h => Score(g, h) = 1000
<1> DEFINE a == Iou(g, h)
           b == HausdorffSimilarity(g, h)
           c == ShapeSimilarity(g, h)
<1>1. a \in 0..1000 /\ b \in 0..1000 /\ c \in 0..1000
  BY IouShare, HausdorffShare, ShapeShare
<1>2. g = h => a = 1000 /\ b = 1000 /\ c = 1000
  BY IouShare, HausdorffShare, ShapeShare
<1>3. Score(g, h) = (a + b + c) \div 3
  BY DEF Score
<1> HIDE DEF a, b, c
<1> QED BY <1>1, <1>2, <1>3

\* What the index leaves out has no part in common with what it is asked for.
LEMMA FarIsDifferent ==
    ASSUME NEW g \in Shapes, NEW h \in Shapes, NEW t \in Nat, ~Nearby(g, h, t)
    PROVE  Similarity(g, h) \in Int /\ Similarity(g, h) <= Unseen
<1>1. ~Nearby(g, h, 0)
  BY NearbyGrows
<1> DEFINE a == Iou(g, h)
           b == HausdorffSimilarity(g, h)
           c == ShapeSimilarity(g, h)
<1>2. a = 0 /\ b \in 0..1000 /\ c \in 0..1000
  BY <1>1, IouShare, HausdorffShare, ShapeShare
<1>3. Similarity(g, h) = (45 * a + 35 * b + 20 * c) \div 100
  BY DEF Similarity
<1> HIDE DEF a, b, c
<1> QED BY <1>2, <1>3 DEF Unseen

(***************************************************************************)
(* Conflicts: the order of two layers does not matter, nor that of all.    *)
(***************************************************************************)
LEMMA RuleSymmetric == \A a, b : RuleFor(a, b) = RuleFor(b, a)
<1> TAKE a, b
<1>1. {a.role, b.role} = {b.role, a.role}
  OBVIOUS
<1> QED BY <1>1 DEF RuleFor

LEMMA SeveritySymmetric ==
    ASSUME NEW rule, NEW g \in Shapes, NEW h \in Shapes
    PROVE  Severity(rule, g, h) = Severity(rule, h, g)
<1>1. Common[g][h] = Common[h][g]
  BY Together
<1>2. {Measure(Extent[g]), Measure(Extent[h])} = {Measure(Extent[h]), Measure(Extent[g])}
  OBVIOUS
<1>3. Magnitude(g, h) = Magnitude(h, g)
  BY <1>1, <1>2 DEF Magnitude
<1> QED BY <1>3 DEF Severity

\* A conflict of features p[1] and p[2] of two layers.
ConflictOf(a, b, i, j) ==
    <<RuleFor(a, b), {<<a.name, i>>, <<b.name, j>>}, Severity(RuleFor(a, b), a.shapes[i], b.shapes[j])>>

Touching(a, b, i, j) ==
    /\ RuleFor(a, b) # Null
    /\ i \in DOMAIN a.shapes /\ j \in DOMAIN b.shapes
    /\ Nearby(a.shapes[i], b.shapes[j], 0)
    /\ ~Common[a.shapes[i]][b.shapes[j]].empty

LEMMA BetweenElements ==
    \A a, b, x : x \in ConflictsBetween(a, b) <=> \E i, j : Touching(a, b, i, j) /\ x = ConflictOf(a, b, i, j)
<1> TAKE a, b, x
<1>1. ASSUME x \in ConflictsBetween(a, b)
      PROVE  \E i, j : Touching(a, b, i, j) /\ x = ConflictOf(a, b, i, j)
  <2>1. PICK p \in Meeting(a, b) : RuleFor(a, b) # Null /\ x = ConflictOf(a, b, p[1], p[2])
    BY <1>1 DEF ConflictsBetween, ConflictOf
  <2>2. Touching(a, b, p[1], p[2])
    BY <2>1 DEF Meeting, Touching
  <2> QED BY <2>1, <2>2
<1>2. ASSUME NEW i, NEW j, Touching(a, b, i, j), x = ConflictOf(a, b, i, j)
      PROVE  x \in ConflictsBetween(a, b)
  <2>1. <<i, j>> \in Meeting(a, b) /\ RuleFor(a, b) # Null
    BY <1>2 DEF Meeting, Touching
  <2> DEFINE p == <<i, j>>
  <2>2. x = <<RuleFor(a, b), {<<a.name, p[1]>>, <<b.name, p[2]>>},
              Severity(RuleFor(a, b), a.shapes[p[1]], b.shapes[p[2]])>>
    BY <1>2 DEF ConflictOf
  <2>3. p \in IF RuleFor(a, b) = Null THEN {} ELSE Meeting(a, b)
    BY <2>1
  <2> HIDE DEF p
  <2> QED BY <2>2, <2>3 DEF ConflictsBetween
<1> QED BY <1>1, <1>2

SolidLayer(a) == \A i \in DOMAIN a.shapes : a.shapes[i] \in Shapes

LEMMA BetweenSymmetric ==
    \A a, b : SolidLayer(a) /\ SolidLayer(b) => ConflictsBetween(a, b) = ConflictsBetween(b, a)
<1>1. ASSUME NEW a, NEW b, SolidLayer(a), SolidLayer(b), NEW x \in ConflictsBetween(a, b)
      PROVE  x \in ConflictsBetween(b, a)
  <2>1. PICK i, j : Touching(a, b, i, j) /\ x = ConflictOf(a, b, i, j)
    BY <1>1, BetweenElements
  <2>2. a.shapes[i] \in Shapes /\ b.shapes[j] \in Shapes
    BY <1>1, <2>1 DEF Touching, SolidLayer
  <2>3. Touching(b, a, j, i)
    <3>1. Common[a.shapes[i]][b.shapes[j]] = Common[b.shapes[j]][a.shapes[i]]
      BY <2>2, Together
    <3>2. Nearby(b.shapes[j], a.shapes[i], 0)
      BY <2>1, <2>2, NearbySymmetric DEF Touching
    <3> QED BY <2>1, <3>1, <3>2, RuleSymmetric DEF Touching
  <2>4. ConflictOf(b, a, j, i) = ConflictOf(a, b, i, j)
    <3>1. {<<b.name, j>>, <<a.name, i>>} = {<<a.name, i>>, <<b.name, j>>}
      OBVIOUS
    <3>2. RuleFor(b, a) = RuleFor(a, b)
      BY RuleSymmetric
    <3>3. Severity(RuleFor(b, a), b.shapes[j], a.shapes[i]) = Severity(RuleFor(a, b), a.shapes[i], b.shapes[j])
      BY <2>2, <3>2, SeveritySymmetric
    <3> QED BY <3>1, <3>2, <3>3 DEF ConflictOf
  <2> QED BY <2>1, <2>3, <2>4, BetweenElements
<1> QED BY <1>1

LEMMA ConflictElements ==
    ASSUME NEW S, NEW layers \in Seq(S), NEW x
    PROVE  x \in ConflictsOf(layers) <=>
             \E i, j \in 1..Len(layers) : i < j /\ x \in ConflictsBetween(layers[i], layers[j])
<1>0. DOMAIN layers = 1..Len(layers)
  OBVIOUS
<1>1. ASSUME x \in ConflictsOf(layers)
      PROVE  \E i, j \in 1..Len(layers) : i < j /\ x \in ConflictsBetween(layers[i], layers[j])
  <2>1. PICK p \in (1..Len(layers)) \X (1..Len(layers)) :
               p[1] < p[2] /\ x \in ConflictsBetween(layers[p[1]], layers[p[2]])
    BY <1>0, <1>1 DEF ConflictsOf
  <2> QED BY <2>1
<1>2. ASSUME NEW i \in 1..Len(layers), NEW j \in 1..Len(layers), i < j,
             x \in ConflictsBetween(layers[i], layers[j])
      PROVE  x \in ConflictsOf(layers)
  <2> DEFINE p == <<i, j>>
  <2>1. p \in (1..Len(layers)) \X (1..Len(layers)) /\ p[1] = i /\ p[2] = j
    OBVIOUS
  <2> HIDE DEF p
  <2> QED BY <1>0, <1>2, <2>1 DEF ConflictsOf
<1> QED BY <1>1, <1>2

\* The order of the layers does not matter.
LEMMA ConflictsReversed ==
    ASSUME NEW S, NEW layers \in Seq(S), \A k \in 1..Len(layers) : SolidLayer(layers[k])
    PROVE  ConflictsOf(Reverse(layers)) = ConflictsOf(layers)
<1> DEFINE n == Len(layers)
           back == Reverse(layers)
<1>1. back \in Seq(S) /\ Len(back) = n /\ \A i \in 1..n : back[i] = layers[(n - i) + 1]
  BY DEF Reverse
<1> HIDE DEF back
<1>2. ASSUME NEW x \in ConflictsOf(back) PROVE x \in ConflictsOf(layers)
  <2>1. PICK i \in 1..n, j \in 1..n : i < j /\ x \in ConflictsBetween(back[i], back[j])
    BY <1>1, <1>2, ConflictElements
  <2>2. /\ (n - i) + 1 \in 1..n /\ (n - j) + 1 \in 1..n /\ (n - j) + 1 < (n - i) + 1
        /\ x \in ConflictsBetween(layers[(n - j) + 1], layers[(n - i) + 1])
    BY <1>1, <2>1, BetweenSymmetric
  <2> QED BY <2>2, ConflictElements
<1>3. ASSUME NEW x \in ConflictsOf(layers) PROVE x \in ConflictsOf(back)
  <2>1. PICK i \in 1..n, j \in 1..n : i < j /\ x \in ConflictsBetween(layers[i], layers[j])
    BY <1>3, ConflictElements
  <2>2. /\ (n - i) + 1 \in 1..n /\ (n - j) + 1 \in 1..n /\ (n - j) + 1 < (n - i) + 1
        /\ back[(n - i) + 1] = layers[i] /\ back[(n - j) + 1] = layers[j]
    BY <1>1, <2>1
  <2>3. x \in ConflictsBetween(back[(n - j) + 1], back[(n - i) + 1])
    BY <2>1, <2>2, BetweenSymmetric
  <2> QED BY <1>1, <2>2, <2>3, ConflictElements
<1> QED BY <1>2, <1>3 DEF back

(***************************************************************************)
(* The state of an analysis                                                *)
(***************************************************************************)
\* What has been collected: pairs of rows, all neighbours of the rows behind.
Collecting ==
    /\ row \in Nat \ {0}
    /\ \A p \in chosen :
           p \in (DOMAIN Left) \X (DOMAIN Left) /\ p[1] < p[2]
    /\ IsFiniteSet(chosen) /\ Cardinality(chosen) <= request.most
    /\ \A i \in DOMAIN Left : i < row => \A j \in Neighbours(i) : <<i, j>> \in chosen

\* What has been matched: no feature twice, and what is not free is settled.
Matching ==
    /\ chosen \subseteq Scored
    /\ \A p, q \in chosen : p # q => p[1] # q[1] /\ p[2] # q[2]
    /\ \A p \in Scored : Free(p) \/ Settled(p, chosen)

Analysed ==
    /\ request \in SpatialRequests
    /\ request.kind = "duplicates" => Collecting
    /\ request.kind = "compare" => Matching
    /\ reply # Null => SpatialRepliesHonest

LEMMA RequestSound ==
    ASSUME request \in SpatialRequests
    PROVE  /\ request.threshold \in 0..1000 /\ request.tolerance \in Nat /\ request.most \in Nat
           /\ DOMAIN Left = 1..Len(Left) /\ Len(Left) \in Nat
           /\ DOMAIN Right = 1..Len(Right) /\ Len(Right) \in Nat
           /\ ~Malformed => /\ \A i \in DOMAIN Left : Left[i] \in Shapes
                            /\ \A j \in DOMAIN Right : Right[j] \in Shapes
<1>1. /\ request.threshold \in 0..1000 /\ request.tolerance \in Nat /\ request.most \in Nat
      /\ Left \in Seq(Shapes \cup {Null}) /\ Right \in Seq(Shapes \cup {Null})
  BY RequestAssumption DEF IsDataset, Left, Right
<1>2. ASSUME ~Malformed, NEW i \in DOMAIN Left PROVE Left[i] # Null
  <2>1. Left[i] \in Range(request.left.shapes)
    BY DEF Left, Range
  <2>2. Range(request.left.shapes) \subseteq Geometries
    BY DEF Geometries
  <2> QED BY <1>2, <2>1, <2>2 DEF Malformed
<1>3. ASSUME ~Malformed, NEW j \in DOMAIN Right PROVE Right[j] # Null
  <2>1. Right[j] \in Range(request.right.shapes)
    BY DEF Right, Range
  <2>2. Range(request.right.shapes) \subseteq Geometries
    BY DEF Geometries
  <2> QED BY <1>3, <2>1, <2>2 DEF Malformed
<1>4. \A i \in DOMAIN Left : Left[i] \in Shapes \cup {Null}
  BY <1>1
<1>5. \A j \in DOMAIN Right : Right[j] \in Shapes \cup {Null}
  BY <1>1
<1> HIDE DEF Left, Right
<1> QED BY <1>1, <1>2, <1>3, <1>4, <1>5

LEMMA LayersSolid ==
    ASSUME request \in SpatialRequests, ~Malformed
    PROVE  \A k \in DOMAIN request.layers : SolidLayer(request.layers[k])
<1> SUFFICES ASSUME NEW k \in DOMAIN request.layers, NEW i \in DOMAIN request.layers[k].shapes
             PROVE  request.layers[k].shapes[i] \in Shapes
  BY DEF SolidLayer
<1> DEFINE layer == request.layers[k]
<1>1. layer \in Range(request.layers)
  BY DEF Range
<1>2. layer.shapes \in Seq(Shapes \cup {Null})
  BY <1>1, RequestAssumption DEF IsDataset
<1>3. layer.shapes[i] \in Range(layer.shapes) /\ Range(layer.shapes) \subseteq Geometries
  BY <1>1 DEF Range, Geometries
<1>4. layer.shapes[i] # Null
  BY <1>3 DEF Malformed
<1> QED BY <1>2, <1>4

LEMMA CollectPairKeeps ==
    ASSUME request \in SpatialRequests, Collecting, CollectPair
    PROVE  Collecting'
<1>1. PICK j \in Neighbours(row) : <<row, j>> \notin chosen /\ chosen' = chosen \cup {<<row, j>>}
  BY DEF CollectPair
<1>2. /\ UNCHANGED <<request, row, reply>> /\ ~Truncated /\ row <= Len(Left)
  BY DEF CollectPair, Left
<1>3. DOMAIN Left = 1..Len(Left) /\ Len(Left) \in Nat /\ request.most \in Nat
  BY RequestSound
<1>4. row \in DOMAIN Left /\ j \in DOMAIN Left /\ row < j
  BY <1>1, <1>2, <1>3 DEF Neighbours, Collecting, Left
<1>5. Left' = Left
  BY <1>2 DEF Left
<1>6. \A i : Neighbours(i)' = Neighbours(i)
  BY <1>2 DEF Neighbours
<1>7. \A p \in chosen' : p \in (DOMAIN Left) \X (DOMAIN Left) /\ p[1] < p[2]
  BY <1>1, <1>4 DEF Collecting
<1>8. IsFiniteSet(chosen') /\ Cardinality(chosen') <= request.most
  <2>1. IsFiniteSet(chosen) /\ Cardinality(chosen) \in Nat /\ ~(Cardinality(chosen) >= request.most)
    BY <1>2, FS_CardinalityType DEF Collecting, Truncated
  <2>2. IsFiniteSet(chosen') /\ Cardinality(chosen') = Cardinality(chosen) + 1
    BY <1>1, <2>1, FS_AddElement
  <2> QED BY <1>3, <2>1, <2>2
<1> QED BY <1>1, <1>2, <1>5, <1>6, <1>7, <1>8 DEF Collecting

LEMMA NextRowKeeps ==
    ASSUME request \in SpatialRequests, Collecting, NextRow
    PROVE  Collecting'
<1>1. UNCHANGED <<request, chosen, reply>> /\ row' = row + 1 /\ \A j \in Neighbours(row) : <<row, j>> \in chosen
  BY DEF NextRow
<1>2. Left' = Left /\ \A i : Neighbours(i)' = Neighbours(i)
  BY <1>1 DEF Left, Neighbours
<1>3. DOMAIN Left \subseteq Nat
  BY RequestSound
<1>4. \A i \in DOMAIN Left : i < row + 1 => i < row \/ i = row
  BY <1>3 DEF Collecting
<1>5. row + 1 \in Nat \ {0}
  BY DEF Collecting
<1>6. \A i \in DOMAIN Left : i < row + 1 => \A j \in Neighbours(i) : <<i, j>> \in chosen
  BY <1>1, <1>4 DEF Collecting
<1> QED BY <1>1, <1>2, <1>5, <1>6 DEF Collecting

\* A duplicate beyond the index's reach would be below the threshold.
LEMMA DuplicatesReported ==
    ASSUME request \in SpatialRequests, Collecting, ReportDuplicates
    PROVE  DuplicatesHonest'
<1>1. /\ request.kind = "duplicates" /\ ~Malformed
      /\ Truncated \/ row > Len(Left)
      /\ reply' = [kind |-> "duplicates", truncated |-> Truncated,
                   pairs |-> {p \in chosen : Duplicate(p[1], p[2])}]
      /\ UNCHANGED <<request, row, chosen>>
  BY DEF ReportDuplicates, Reply, Answering, Left
<1> DEFINE all == {p \in (DOMAIN Left) \X (DOMAIN Left) : p[1] < p[2] /\ Duplicate(p[1], p[2])}
           found == {p \in chosen : Duplicate(p[1], p[2])}
<1>2. Left' = Left /\ \A i, j : Duplicate(i, j)' = Duplicate(i, j)
  BY <1>1 DEF Left, Duplicate
<1>3. found \subseteq all
  BY DEF Collecting
<1>4. Cardinality(found) <= request.most
  <2>1. IsFiniteSet(chosen) /\ found \in SUBSET chosen /\ Cardinality(chosen) <= request.most
    BY DEF Collecting
  <2>2. Cardinality(found) <= Cardinality(chosen) /\ Cardinality(found) \in Nat /\ Cardinality(chosen) \in Nat
    BY <2>1, FS_Subset, FS_CardinalityType
  <2> QED BY <2>1, <2>2, RequestSound
<1>5. ASSUME ~Truncated, NEW p \in all, p \notin found
      PROVE  /\ ~Nearby(Left[p[1]], Left[p[2]], request.tolerance)
             /\ Similarity(Left[p[1]], Left[p[2]]) <= Unseen
  <2>1. p[1] \in DOMAIN Left /\ p[2] \in DOMAIN Left /\ p = <<p[1], p[2]>> /\ p[1] < p[2] /\ Duplicate(p[1], p[2])
    OBVIOUS
  <2>2. p[1] < row
    BY <1>1, <1>5, <2>1, RequestSound DEF Collecting
  <2>3. ~Nearby(Left[p[1]], Left[p[2]], request.tolerance)
    <3> SUFFICES ASSUME Nearby(Left[p[1]], Left[p[2]], request.tolerance) PROVE p \in found
      BY <1>5
    <3>1. p[2] \in Neighbours(p[1])
      BY <2>1 DEF Neighbours, Left
    <3>2. <<p[1], p[2]>> \in chosen
      BY <2>1, <2>2, <3>1 DEF Collecting
    <3> QED BY <2>1, <3>2
  <2>4. request.tolerance \in Nat /\ Left[p[1]] \in Shapes /\ Left[p[2]] \in Shapes
    BY <1>1, <2>1, RequestSound
  <2> QED BY <2>3, <2>4, FarIsDifferent
<1>6. reply'.pairs = found /\ reply'.truncated = Truncated
  BY <1>1
<1>7. all' = all
  BY <1>2
<1> HIDE DEF all, found
<1>8. /\ reply'.pairs \subseteq all' /\ Cardinality(reply'.pairs) <= request'.most
      /\ \A p \in all' \ reply'.pairs :
             \/ reply'.truncated
             \/ /\ ~Nearby(Left'[p[1]], Left'[p[2]], request'.tolerance)
                /\ Similarity(Left'[p[1]], Left'[p[2]]) <= Unseen
  BY <1>1, <1>2, <1>3, <1>4, <1>5, <1>6, <1>7
<1> QED BY <1>8 DEF DuplicatesHonest, all

LEMMA ScoredPairs ==
    ASSUME request \in SpatialRequests, ~Malformed
    PROVE  \A p \in Scored : /\ p \in (DOMAIN Left) \X (DOMAIN Right)
                             /\ ScoreOf(p) \in Int /\ ScoreOf(p) <= 1000
                             /\ Left[p[1]] = Right[p[2]] => ScoreOf(p) = 1000
<1> SUFFICES ASSUME NEW p \in Scored
             PROVE  /\ p \in (DOMAIN Left) \X (DOMAIN Right)
                    /\ ScoreOf(p) \in Int /\ ScoreOf(p) <= 1000
                    /\ Left[p[1]] = Right[p[2]] => ScoreOf(p) = 1000
  OBVIOUS
<1>1. p \in (DOMAIN Left) \X (DOMAIN Right)
  BY DEF Scored, Left, Right
<1>2. Left[p[1]] \in Shapes /\ Right[p[2]] \in Shapes
  BY <1>1, RequestSound
<1>3. ScoreOf(p) = Score(Left[p[1]], Right[p[2]])
  BY DEF ScoreOf, Left, Right
<1> QED BY <1>1, <1>2, <1>3, ScoreShare

\* The best free pair is matched: what it displaces shares one feature with it.
LEMMA MatchKeeps ==
    ASSUME request \in SpatialRequests, Matching, Match
    PROVE  Matching'
<1>1. /\ request.kind = "compare" /\ ~Malformed /\ UNCHANGED <<request, row, reply>>
  BY DEF Match, Answering
<1> DEFINE free == {q \in Scored : Free(q)}
<1>2. PICK p \in Scored :
        /\ Free(p)
        /\ \A q \in Scored : Free(q) /\ q # p => Precedes(p, q)
        /\ chosen' = chosen \cup {p}
  <2>1. PICK p \in free : (\A q \in free \ {p} : Precedes(p, q)) /\ chosen' = chosen \cup {p}
    BY DEF Match
  <2> QED BY <2>1
<1>3. Scored' = Scored
  BY <1>1 DEF Scored, ScoreOf
<1>4. \A q : ScoreOf(q)' = ScoreOf(q)
  BY <1>1 DEF ScoreOf
<1>5. \A q \in Scored : q \in (DOMAIN Left) \X (DOMAIN Right) /\ ScoreOf(q) \in Int
  BY <1>1, ScoredPairs
<1>6. chosen' \subseteq Scored'
  BY <1>2, <1>3 DEF Matching
<1>7. \A a, b \in chosen' : a # b => a[1] # b[1] /\ a[2] # b[2]
  BY <1>2 DEF Matching, Free
<1>8. ASSUME NEW q \in Scored PROVE Free(q)' \/ Settled(q, chosen)' \/ Settled(q, chosen')
  <2>1. CASE Settled(q, chosen)
    BY <1>2, <2>1 DEF Settled
  <2>2. CASE Free(q) /\ q # p
    <3>1. ScoreOf(p) >= ScoreOf(q)
      BY <1>2, <1>5, <2>2 DEF Precedes
    <3>2. p = <<p[1], p[2]>> /\ q = <<q[1], q[2]>>
      BY <1>2, <1>5
    <3>3. CASE p[1] # q[1] /\ p[2] # q[2]
      BY <1>2, <2>2, <3>3 DEF Free
    <3>4. CASE ~(p[1] # q[1] /\ p[2] # q[2])
      <4>1. (p[1] = q[1]) # (p[2] = q[2])
        BY <2>2, <3>2, <3>4
      <4> QED BY <1>2, <3>1, <4>1 DEF Settled
    <3> QED BY <3>3, <3>4
  <2>3. CASE q = p
    BY <1>2, <2>3 DEF Settled
  <2> QED BY <2>1, <2>2, <2>3 DEF Matching
<1>9. \A q : Settled(q, chosen)' <=> Settled(q, chosen')
  BY <1>4 DEF Settled
<1> QED BY <1>3, <1>6, <1>7, <1>8, <1>9 DEF Matching

\* The differences of a finished matching.
Differences ==
    {<<KindOf(p), p[1], p[2]>> : p \in chosen}
    \cup {<<"removed", i, Null>> : i \in DOMAIN Left \ {p[1] : p \in chosen}}
    \cup {<<"added", Null, j>> : j \in DOMAIN Right \ {p[2] : p \in chosen}}

PairsOf(found) == {<<d[2], d[3]>> : d \in {d \in found : d[1] \in {"modified", "unchanged"}}}

LEMMA KindsOfPairs == \A p : KindOf(p) \in {"modified", "unchanged"}
BY DEF KindOf

LEMMA DifferencesShape ==
    ASSUME request \in SpatialRequests, Matching
    PROVE  /\ chosen \subseteq (DOMAIN Left) \X (DOMAIN Right)
           /\ \A d \in Differences :
                \/ \E p \in chosen : d = <<KindOf(p), p[1], p[2]>>
                \/ \E i \in DOMAIN Left : i \notin {p[1] : p \in chosen} /\ d = <<"removed", i, Null>>
                \/ \E j \in DOMAIN Right : j \notin {p[2] : p \in chosen} /\ d = <<"added", Null, j>>
           /\ \A p \in chosen : <<KindOf(p), p[1], p[2]>> \in Differences
BY DEF Differences, Matching, Scored, Left, Right

LEMMA PairsOfDifferences ==
    ASSUME request \in SpatialRequests, Matching
    PROVE  PairsOf(Differences) = chosen
<1>1. ASSUME NEW p \in chosen PROVE p \in PairsOf(Differences)
  <2> DEFINE d == <<KindOf(p), p[1], p[2]>>
  <2>1. d \in Differences /\ p = <<p[1], p[2]>>
    BY DifferencesShape
  <2>2. d[1] = KindOf(p) /\ d[2] = p[1] /\ d[3] = p[2]
    OBVIOUS
  <2> HIDE DEF d
  <2> QED BY <2>1, <2>2, KindsOfPairs DEF PairsOf
<1>2. ASSUME NEW x \in PairsOf(Differences) PROVE x \in chosen
  <2>1. PICK d \in Differences : d[1] \in {"modified", "unchanged"} /\ x = <<d[2], d[3]>>
    BY <1>2 DEF PairsOf
  <2>2. PICK p \in chosen : d = <<KindOf(p), p[1], p[2]>>
    BY <2>1, DifferencesShape
  <2>3. p = <<p[1], p[2]>>
    BY DifferencesShape
  <2> QED BY <2>1, <2>2, <2>3
<1> QED BY <1>1, <1>2

\* Every feature of both datasets is told about once.
LEMMA LeftOnce ==
    ASSUME request \in SpatialRequests, Matching, NEW i \in DOMAIN Left
    PROVE  Cardinality({d \in Differences : d[2] = i}) = 1
<1> DEFINE told == {d \in Differences : d[2] = i}
<1>1. i # Null
  BY RequestAssumption, RequestSound
<1>2. CASE \E p \in chosen : p[1] = i
  <2>1. PICK p \in chosen : p[1] = i
    BY <1>2
  <2> DEFINE e == <<KindOf(p), p[1], p[2]>>
  <2>2. e \in told
    BY <2>1, DifferencesShape
  <2>3. ASSUME NEW d \in told PROVE d = e
    <3>1. \A q \in chosen : q[1] = i => q = p
      BY <2>1 DEF Matching
    <3>2. d \in Differences /\ d[2] = i
      OBVIOUS
    <3>3. CASE \E q \in chosen : d = <<KindOf(q), q[1], q[2]>>
      BY <3>1, <3>2, <3>3
    <3>4. CASE \E k \in DOMAIN Left : k \notin {q[1] : q \in chosen} /\ d = <<"removed", k, Null>>
      BY <2>1, <3>2, <3>4
    <3>5. CASE \E j \in DOMAIN Right : j \notin {q[2] : q \in chosen} /\ d = <<"added", Null, j>>
      BY <1>1, <3>2, <3>5
    <3> QED BY <3>2, <3>3, <3>4, <3>5, DifferencesShape
  <2>4. told = {e}
    <3> HIDE DEF told, e
    <3> QED BY <2>2, <2>3
  <2> QED BY <2>4, FS_Singleton
<1>3. CASE \A p \in chosen : p[1] # i
  <2> DEFINE e == <<"removed", i, Null>>
  <2>1. e \in told
    BY <1>3 DEF Differences
  <2>2. ASSUME NEW d \in told PROVE d = e
    <3>1. d \in Differences /\ d[2] = i
      OBVIOUS
    <3>2. CASE \E q \in chosen : d = <<KindOf(q), q[1], q[2]>>
      BY <1>3, <3>1, <3>2
    <3>3. CASE \E k \in DOMAIN Left : k \notin {q[1] : q \in chosen} /\ d = <<"removed", k, Null>>
      BY <3>1, <3>3
    <3>4. CASE \E j \in DOMAIN Right : j \notin {q[2] : q \in chosen} /\ d = <<"added", Null, j>>
      BY <1>1, <3>1, <3>4
    <3> QED BY <3>1, <3>2, <3>3, <3>4, DifferencesShape
  <2>3. told = {e}
    <3> HIDE DEF told, e
    <3> QED BY <2>1, <2>2
  <2> QED BY <2>3, FS_Singleton
<1> QED BY <1>2, <1>3

LEMMA RightOnce ==
    ASSUME request \in SpatialRequests, Matching, NEW j \in DOMAIN Right
    PROVE  Cardinality({d \in Differences : d[3] = j}) = 1
<1> DEFINE told == {d \in Differences : d[3] = j}
<1>1. j # Null
  BY RequestAssumption, RequestSound
<1>2. CASE \E p \in chosen : p[2] = j
  <2>1. PICK p \in chosen : p[2] = j
    BY <1>2
  <2> DEFINE e == <<KindOf(p), p[1], p[2]>>
  <2>2. e \in told
    BY <2>1, DifferencesShape
  <2>3. ASSUME NEW d \in told PROVE d = e
    <3>1. \A q \in chosen : q[2] = j => q = p
      BY <2>1 DEF Matching
    <3>2. d \in Differences /\ d[3] = j
      OBVIOUS
    <3>3. CASE \E q \in chosen : d = <<KindOf(q), q[1], q[2]>>
      BY <3>1, <3>2, <3>3
    <3>4. CASE \E i \in DOMAIN Left : i \notin {q[1] : q \in chosen} /\ d = <<"removed", i, Null>>
      BY <1>1, <3>2, <3>4
    <3>5. CASE \E k \in DOMAIN Right : k \notin {q[2] : q \in chosen} /\ d = <<"added", Null, k>>
      BY <2>1, <3>2, <3>5
    <3> QED BY <3>2, <3>3, <3>4, <3>5, DifferencesShape
  <2>4. told = {e}
    <3> HIDE DEF told, e
    <3> QED BY <2>2, <2>3
  <2> QED BY <2>4, FS_Singleton
<1>3. CASE \A p \in chosen : p[2] # j
  <2> DEFINE e == <<"added", Null, j>>
  <2>1. e \in told
    BY <1>3 DEF Differences
  <2>2. ASSUME NEW d \in told PROVE d = e
    <3>1. d \in Differences /\ d[3] = j
      OBVIOUS
    <3>2. CASE \E q \in chosen : d = <<KindOf(q), q[1], q[2]>>
      BY <1>3, <3>1, <3>2
    <3>3. CASE \E i \in DOMAIN Left : i \notin {q[1] : q \in chosen} /\ d = <<"removed", i, Null>>
      BY <1>1, <3>1, <3>3
    <3>4. CASE \E k \in DOMAIN Right : k \notin {q[2] : q \in chosen} /\ d = <<"added", Null, k>>
      BY <3>1, <3>4
    <3> QED BY <3>1, <3>2, <3>3, <3>4, DifferencesShape
  <2>3. told = {e}
    <3> HIDE DEF told, e
    <3> QED BY <2>1, <2>2
  <2> QED BY <2>3, FS_Singleton
<1> QED BY <1>2, <1>3

Permuted == IsInjective(Right) /\ Range(Left) = Range(Right) /\ ToldApart(Left)

\* Equal geometries reach the highest score, and of features that are told apart
\* only they do.
LEMMA EqualsMatch ==
    ASSUME request \in SpatialRequests, ~Malformed, Matching, ~\E p \in Scored : Free(p), Permuted,
           NEW i \in DOMAIN Left, NEW j \in DOMAIN Right, Left[i] = Right[j]
    PROVE  <<i, j>> \in chosen
<1> DEFINE e == <<i, j>>
<1>1. e[1] = i /\ e[2] = j /\ e \in (DOMAIN Left) \X (DOMAIN Right)
  OBVIOUS
<1>2. Left[i] \in Shapes /\ Right[j] \in Shapes /\ request.threshold \in 0..1000
  BY RequestSound
<1>3. ScoreOf(e) = Score(Left[i], Right[j])
  BY DEF ScoreOf, Left, Right
<1>4. ScoreOf(e) = 1000
  BY <1>2, <1>3, ScoreShare
<1>5. Nearby(Left[i], Right[j], 0)
  BY <1>2, SelfNearby
<1>6. e \in Scored
  <2> HIDE DEF e
  <2> QED BY <1>1, <1>2, <1>4, <1>5 DEF Scored, Left, Right
<1>7. e \in chosen \/ \E q \in chosen : (q[1] = i) # (q[2] = j) /\ ScoreOf(q) >= ScoreOf(e)
  BY <1>1, <1>6 DEF Matching, Settled
<1>8. ASSUME NEW q \in chosen, (q[1] = i) # (q[2] = j), ScoreOf(q) >= ScoreOf(e) PROVE FALSE
  <2>1. q \in Scored
    BY DEF Matching
  <2>2. ScoreOf(q) \in Int /\ q \in (DOMAIN Left) \X (DOMAIN Right)
    BY <2>1, ScoredPairs
  <2>3. q[1] \in DOMAIN Left /\ q[2] \in DOMAIN Right
    BY <2>2
  <2>4. PICK k \in DOMAIN Left : Left[k] = Right[q[2]]
    BY <2>3 DEF Permuted, Range
  <2>5. ScoreOf(q) = Score(Left[q[1]], Left[k])
    BY <2>4 DEF ScoreOf, Left, Right
  <2>6. q[1] = k
    BY <1>4, <1>8, <2>2, <2>3, <2>5 DEF Permuted, ToldApart
  <2>7. q[1] = i => q[2] = j
    BY <2>3, <2>4, <2>6 DEF Permuted, IsInjective
  <2>8. q[2] = j => q[1] = i
    <3>1. SUFFICES ASSUME q[2] = j PROVE Score(Left[q[1]], Left[i]) = 1000
      BY <2>3 DEF Permuted, ToldApart
    <3>2. Left[q[1]] = Left[i]
      BY <2>4, <2>6, <3>1
    <3> QED BY <1>2, <3>2, ScoreShare
  <2> QED BY <1>8, <2>7, <2>8
<1> QED BY <1>7, <1>8

LEMMA PermutedUnchanged ==
    ASSUME request \in SpatialRequests, ~Malformed, Matching, ~\E p \in Scored : Free(p), Permuted,
           NEW d \in Differences
    PROVE  d[1] \in {"modified", "unchanged"} /\ Left[d[2]] = Right[d[3]]
<1>1. \A i \in DOMAIN Left : \E j \in DOMAIN Right : Left[i] = Right[j]
  BY DEF Permuted, Range
<1>2. \A j \in DOMAIN Right : \E i \in DOMAIN Left : Left[i] = Right[j]
  BY DEF Permuted, Range
<1>3. CASE \E p \in chosen : d = <<KindOf(p), p[1], p[2]>>
  <2>1. PICK p \in chosen : d = <<KindOf(p), p[1], p[2]>>
    BY <1>3
  <2>2. p[1] \in DOMAIN Left
    BY DifferencesShape
  <2>3. PICK j \in DOMAIN Right : Left[p[1]] = Right[j]
    BY <1>1, <2>2
  <2>4. <<p[1], j>> \in chosen
    BY <2>2, <2>3, EqualsMatch
  <2>5. p = <<p[1], j>>
    BY <2>4 DEF Matching
  <2>6. p[2] = j
    BY <2>5
  <2> QED BY <2>1, <2>3, <2>6, KindsOfPairs
<1>4. ASSUME NEW i \in DOMAIN Left, i \notin {p[1] : p \in chosen} PROVE FALSE
  <2>1. PICK j \in DOMAIN Right : Left[i] = Right[j]
    BY <1>1
  <2>2. <<i, j>> \in chosen
    BY <2>1, EqualsMatch
  <2> QED BY <1>4, <2>2
<1>5. ASSUME NEW j \in DOMAIN Right, j \notin {p[2] : p \in chosen} PROVE FALSE
  <2>1. PICK i \in DOMAIN Left : Left[i] = Right[j]
    BY <1>2
  <2>2. <<i, j>> \in chosen
    BY <2>1, EqualsMatch
  <2> QED BY <1>5, <2>2
<1> QED BY <1>3, <1>4, <1>5, DifferencesShape

LEMMA ComparisonReported ==
    ASSUME request \in SpatialRequests, Matching, ReportComparison
    PROVE  DifferencesHonest'
<1>1. /\ ~Malformed /\ ~(\E p \in Scored : Free(p)) /\ UNCHANGED <<request, row, chosen>>
      /\ reply'.differences = Differences
  BY DEF ReportComparison, Reply, Answering, Differences, Left, Right
<1>2. Left' = Left /\ Right' = Right /\ Scored' = Scored /\ \A p : ScoreOf(p)' = ScoreOf(p)
  BY <1>1 DEF Left, Right, Scored, ScoreOf
<1> DEFINE found == Differences
<1>3. /\ \A i \in DOMAIN Left : Cardinality({d \in found : d[2] = i}) = 1
      /\ \A j \in DOMAIN Right : Cardinality({d \in found : d[3] = j}) = 1
  BY LeftOnce, RightOnce
<1>4. \A p \in Scored : Settled(p, chosen)
  BY <1>1 DEF Matching
<1>5. PairsOf(found) = chosen
  BY PairsOfDifferences
<1>6. Permuted => \A d \in found : d[1] \in {"modified", "unchanged"} /\ Left[d[2]] = Right[d[3]]
  BY <1>1, PermutedUnchanged
<1> HIDE DEF found
<1>7. \A p \in Scored' : \/ p \in chosen
                         \/ \E q \in chosen : (q[1] = p[1]) # (q[2] = p[2]) /\ ScoreOf(q)' >= ScoreOf(p)'
  BY <1>2, <1>4 DEF Settled
<1>8. /\ \A i \in DOMAIN Left' : Cardinality({d \in reply'.differences : d[2] = i}) = 1
      /\ \A j \in DOMAIN Right' : Cardinality({d \in reply'.differences : d[3] = j}) = 1
      /\ IsInjective(Right') /\ Range(Left') = Range(Right') /\ ToldApart(Left)' =>
             \A d \in reply'.differences : d[1] \in {"modified", "unchanged"} /\ Left'[d[2]] = Right'[d[3]]
  BY <1>1, <1>2, <1>3, <1>6 DEF Permuted, found
<1>9. {<<d[2], d[3]>> : d \in {d \in reply'.differences : d[1] \in {"modified", "unchanged"}}} = chosen
  BY <1>1, <1>5 DEF PairsOf, found
<1> QED BY <1>7, <1>8, <1>9 DEF DifferencesHonest, Settled

LEMMA AnalysedInit == SpatialInit => Analysed
<1> SUFFICES ASSUME SpatialInit PROVE Analysed
  OBVIOUS
<1> USE DEF SpatialInit, SpatialIdle
<1>1. Collecting
  <2>1. IsFiniteSet(chosen) /\ Cardinality(chosen) = 0
    BY FS_EmptySet
  <2>2. DOMAIN Left \subseteq Nat \ {0} /\ request.most \in Nat
    BY RequestSound
  <2>3. \A i \in DOMAIN Left : ~(i < row)
    BY <2>2
  <2> QED BY <2>1, <2>2, <2>3 DEF Collecting
<1>2. Matching
  BY DEF Matching, Free
<1> QED BY <1>1, <1>2 DEF Analysed

LEMMA AnalysedUnchanged == Analysed /\ UNCHANGED spatialVars => Analysed'
<1> SUFFICES ASSUME Analysed, UNCHANGED spatialVars PROVE Analysed'
  OBVIOUS
<1>1. request' = request /\ row' = row /\ chosen' = chosen /\ reply' = reply
  BY DEF spatialVars
<1>2. Left' = Left /\ Right' = Right /\ Scored' = Scored
  BY <1>1 DEF Left, Right, Scored, ScoreOf
<1>3. request.kind = "duplicates" => Collecting'
  BY <1>1, <1>2 DEF Analysed, Collecting, Neighbours
<1>4. request.kind = "compare" => Matching'
  BY <1>1, <1>2 DEF Analysed, Matching, Free, Settled, ScoreOf
<1>5. reply # Null => SpatialRepliesHonest'
  <2> SUFFICES ASSUME reply # Null PROVE SpatialRepliesHonest'
    OBVIOUS
  <2>1. SpatialRepliesHonest
    BY DEF Analysed
  <2>2. DifferencesHonest => DifferencesHonest'
    BY <1>1, <1>2 DEF DifferencesHonest, Settled, ScoreOf
  <2>3. DuplicatesHonest => DuplicatesHonest'
    BY <1>1, <1>2 DEF DuplicatesHonest, Duplicate
  <2>4. ConflictsHonest => ConflictsHonest'
    BY <1>1 DEF ConflictsHonest
  <2> QED BY <1>1, <2>1, <2>2, <2>3, <2>4 DEF SpatialRepliesHonest
<1> QED BY <1>1, <1>2, <1>3, <1>4, <1>5 DEF Analysed

\* The invariants do not read the reply.
LEMMA AnsweredKeeps ==
    ASSUME Analysed, UNCHANGED <<request, row, chosen>>, SpatialRepliesHonest'
    PROVE  Analysed'
<1>1. request' = request /\ row' = row /\ chosen' = chosen
  OBVIOUS
<1>2. Left' = Left /\ Right' = Right /\ Scored' = Scored
  BY <1>1 DEF Left, Right, Scored, ScoreOf
<1>3. request.kind = "duplicates" => Collecting'
  BY <1>1, <1>2 DEF Analysed, Collecting, Neighbours
<1>4. request.kind = "compare" => Matching'
  BY <1>1, <1>2 DEF Analysed, Matching, Free, Settled, ScoreOf
<1> QED BY <1>1, <1>2, <1>3, <1>4 DEF Analysed

LEMMA AnalysedStep == Analysed /\ SpatialNext => Analysed'
<1> SUFFICES ASSUME Analysed, SpatialNext PROVE Analysed'
  OBVIOUS
<1>0. request \in SpatialRequests
  BY DEF Analysed
<1>1. CASE RefuseRequest
  <2>1. UNCHANGED <<request, row, chosen>> /\ reply' = [kind |-> "refused"]
    BY <1>1 DEF RefuseRequest
  <2>2. SpatialRepliesHonest'
    BY <2>1 DEF SpatialRepliesHonest
  <2> QED BY <2>1, <2>2, AnsweredKeeps
<1>2. CASE CollectPair
  <2>1. request.kind = "duplicates" /\ request' = request /\ reply = Null /\ reply' = Null
    BY <1>2 DEF CollectPair, Answering
  <2>2. Collecting'
    BY <1>0, <1>2, <2>1, CollectPairKeeps DEF Analysed
  <2> QED BY <1>0, <2>1, <2>2 DEF Analysed
<1>3. CASE NextRow
  <2>1. request.kind = "duplicates" /\ request' = request /\ reply = Null /\ reply' = Null
    BY <1>3 DEF NextRow, Answering
  <2>2. Collecting'
    BY <1>0, <1>3, <2>1, NextRowKeeps DEF Analysed
  <2> QED BY <1>0, <2>1, <2>2 DEF Analysed
<1>4. CASE ReportDuplicates
  <2>1. /\ request.kind = "duplicates" /\ UNCHANGED <<request, row, chosen>>
        /\ reply'.kind = "duplicates"
    BY <1>4 DEF ReportDuplicates, Answering, Reply
  <2>2. SpatialRepliesHonest'
    BY <1>0, <1>4, <2>1, DuplicatesReported DEF Analysed, SpatialRepliesHonest
  <2> QED BY <2>1, <2>2, AnsweredKeeps
<1>5. CASE Match
  <2>1. request.kind = "compare" /\ request' = request /\ reply = Null /\ reply' = Null
    BY <1>5 DEF Match, Answering
  <2>2. Matching'
    BY <1>0, <1>5, <2>1, MatchKeeps DEF Analysed
  <2> QED BY <1>0, <2>1, <2>2 DEF Analysed
<1>6. CASE ReportComparison
  <2>1. /\ request.kind = "compare" /\ UNCHANGED <<request, row, chosen>>
        /\ reply'.kind = "compare"
    BY <1>6 DEF ReportComparison, Answering, Reply
  <2>2. SpatialRepliesHonest'
    BY <1>0, <1>6, <2>1, ComparisonReported DEF Analysed, SpatialRepliesHonest
  <2> QED BY <2>1, <2>2, AnsweredKeeps
<1>7. CASE ReportConflicts
  <2>1. /\ UNCHANGED <<request, row, chosen>> /\ reply'.kind = "conflicts"
        /\ reply'.conflicts = ConflictsOf(request.layers)
    BY <1>7 DEF ReportConflicts, Answering, Reply
  <2>2. request.layers \in Seq(Range(request.layers))
    BY <1>0, RequestAssumption
  <2>3. ConflictsOf(Reverse(request.layers)) = ConflictsOf(request.layers)
    <3>1. \A k \in DOMAIN request.layers : SolidLayer(request.layers[k])
      BY <1>0, <1>7, LayersSolid DEF ReportConflicts, Answering
    <3> QED BY <2>2, <3>1, ConflictsReversed
  <2>4. ConflictsHonest'
    BY <2>1, <2>3 DEF ConflictsHonest
  <2>5. SpatialRepliesHonest'
    BY <2>1, <2>4 DEF SpatialRepliesHonest
  <2> QED BY <2>1, <2>5, AnsweredKeeps
<1> QED BY <1>1, <1>2, <1>3, <1>4, <1>5, <1>6, <1>7 DEF SpatialNext


SpatialInv ==
    /\ program = "spatial" => Analysed
    /\ program # "spatial" => reply = Null

\* Whatever the plane, scores and ties of the datasets: a comparison tells about
\* every feature once and leaves no better pair apart; a search for duplicates
\* loses none in silence, save those out of reach of the index, which are at most
\* 550 per mille alike; and conflicts do not depend on the order of the layers.
THEOREM SpatialRepliesAreHonest == Spec => []SpatialRepliesHonest
<1>1. Init => SpatialInv
  BY AnalysedInit DEF Init, SpatialInv, SpatialInit, SpatialIdle
<1>2. SpatialInv /\ [Next]_pipeVars => SpatialInv'
  <2> SUFFICES ASSUME SpatialInv, [Next]_pipeVars PROVE SpatialInv'
    OBVIOUS
  <2>1. CASE Roads \/ Connecting \/ Streaming \/ UNCHANGED pipeVars
    <3>1. UNCHANGED <<program, spatialVars>>
      BY <2>1 DEF Roads, Connecting, Streaming, pipeVars
    <3>2. program' = program /\ reply' = reply
      BY <3>1 DEF spatialVars
    <3> QED BY <3>1, <3>2, AnalysedUnchanged DEF SpatialInv
  <2>2. CASE Analysing
    <3>1. program = "spatial" /\ program' = program /\ SpatialNext
      BY <2>2 DEF Analysing
    <3> QED BY <3>1, AnalysedStep DEF SpatialInv
  <2> QED BY <2>1, <2>2 DEF Next
<1>3. SpatialInv => SpatialRepliesHonest
  BY DEF SpatialInv, Analysed, SpatialRepliesHonest
<1> QED BY <1>1, <1>2, <1>3, PTL DEF Spec

(***************************************************************************)
(* Numbers in their order                                                  *)
(***************************************************************************)
\* s lists the numbers of a set from the least to the greatest.
Lists(s, S) ==
    /\ DOMAIN s = 1..Len(s) /\ Len(s) \in Nat
    /\ \A i \in DOMAIN s : s[i] \in S
    /\ \A x \in S : \E i \in DOMAIN s : s[i] = x
    /\ \A i, j \in DOMAIN s : i < j => s[i] < s[j]

LEMMA OneListing ==
    ASSUME NEW S \in SUBSET Nat, NEW s, NEW t, Lists(s, S), Lists(t, S), NEW i \in DOMAIN s
    PROVE  i \in DOMAIN t /\ t[i] = s[i]
<1> DEFINE bad == {k \in DOMAIN s : ~(k \in DOMAIN t /\ t[k] = s[k])}
<1>1. SUFFICES ASSUME bad # {} PROVE FALSE
  OBVIOUS
<1>2. /\ DOMAIN s = 1..Len(s) /\ Len(s) \in Nat /\ DOMAIN t = 1..Len(t) /\ Len(t) \in Nat
      /\ \A k \in DOMAIN s : s[k] \in Nat /\ s[k] \in S
      /\ \A k \in DOMAIN t : t[k] \in Nat /\ t[k] \in S
  BY DEF Lists
<1>3. PICK k \in bad : \A m \in bad : k <= m
  <2>1. bad \in SUBSET Nat
    BY <1>2
  <2> HIDE DEF bad
  <2> QED BY <1>1, <2>1, LeastNat
<1>4. k \in DOMAIN s /\ k \in Nat /\ \A m \in DOMAIN s : m < k => m \in DOMAIN t /\ t[m] = s[m]
  BY <1>2, <1>3
<1>5. PICK j \in DOMAIN t : t[j] = s[k]
  BY <1>2, <1>4 DEF Lists
<1>6. CASE j < k
  <2>1. s[j] = s[k] /\ j \in DOMAIN s
    BY <1>2, <1>4, <1>5, <1>6
  <2>2. s[j] < s[k]
    BY <1>4, <1>6, <2>1 DEF Lists
  <2> QED BY <1>2, <1>4, <2>1, <2>2
<1>7. CASE k < j
  <2>1. k \in DOMAIN t
    BY <1>2, <1>4, <1>5, <1>7
  <2>2. t[k] < s[k]
    BY <1>5, <1>7, <2>1 DEF Lists
  <2>3. PICK m \in DOMAIN s : s[m] = t[k]
    BY <1>2, <2>1 DEF Lists
  <2>4. m < k
    <3>1. ~(k <= m)
      <4>1. k < m => s[k] < s[m]
        BY <1>4, <2>3 DEF Lists
      <4> QED BY <1>2, <1>4, <2>2, <2>3, <4>1
    <3> QED BY <1>2, <1>4, <2>3, <3>1
  <2>5. t[m] = t[k] /\ m \in DOMAIN t
    BY <1>4, <2>3, <2>4
  <2>6. t[m] < t[k]
    BY <2>1, <2>4, <2>5 DEF Lists
  <2> QED BY <1>2, <2>1, <2>5, <2>6
<1>8. CASE k = j
  BY <1>3, <1>5, <1>8
<1> QED BY <1>2, <1>4, <1>5, <1>6, <1>7, <1>8

LEMMA SameListing ==
    ASSUME NEW S \in SUBSET Nat, NEW s, NEW t, Lists(s, S), Lists(t, S)
    PROVE  Len(s) = Len(t) /\ \A i \in 1..Len(s) : s[i] = t[i]
<1>1. DOMAIN s = 1..Len(s) /\ Len(s) \in Nat /\ DOMAIN t = 1..Len(t) /\ Len(t) \in Nat
  BY DEF Lists
<1>2. \A i \in DOMAIN s : i \in DOMAIN t /\ t[i] = s[i]
  BY OneListing
<1>3. \A i \in DOMAIN t : i \in DOMAIN s
  BY OneListing
<1>4. Len(s) <= Len(t)
  <2>1. Len(s) # 0 => Len(s) \in DOMAIN s
    BY <1>1
  <2> QED BY <1>1, <1>2, <2>1
<1>5. Len(t) <= Len(s)
  <2>1. Len(t) # 0 => Len(t) \in DOMAIN t
    BY <1>1
  <2> QED BY <1>1, <1>3, <2>1
<1>6. Len(s) = Len(t)
  <2>1. Len(s) \in Int /\ Len(t) \in Int
    BY <1>1
  <2> QED BY <1>4, <1>5, <2>1
<1>7. \A i \in 1..Len(s) : s[i] = t[i]
  <2> SUFFICES ASSUME NEW i \in 1..Len(s) PROVE s[i] = t[i]
    OBVIOUS
  <2>1. i \in DOMAIN s
    BY <1>1
  <2> QED BY <1>2, <2>1
<1> QED BY <1>6, <1>7

\* A finite set of numbers can be listed, and its list is as long as it is large.
LEMMA ListExists ==
    ASSUME NEW S \in SUBSET Nat, IsFiniteSet(S)
    PROVE  \E s \in [1..Cardinality(S) -> S] : \A i, j \in DOMAIN s : i < j => s[i] < s[j]
<1> DEFINE Has(T) == \E s \in [1..Cardinality(T) -> T] : \A i, j \in DOMAIN s : i < j => s[i] < s[j]
           Of(n) == {T \in SUBSET Nat : IsFiniteSet(T) /\ Cardinality(T) = n}
           bad == {n \in Nat : \E T \in Of(n) : ~Has(T)}
<1>1. bad = {}
  <2> SUFFICES ASSUME bad # {} PROVE FALSE
    OBVIOUS
  <2>1. PICK n \in bad : \A m \in bad : n <= m
    <3>1. bad \in SUBSET Nat
      OBVIOUS
    <3> HIDE DEF bad
    <3> QED BY <3>1, LeastNat
  <2>2. PICK T \in Of(n) : ~Has(T)
    BY <2>1
  <2>3. n \in Nat /\ T \in SUBSET Nat /\ IsFiniteSet(T) /\ Cardinality(T) = n
    BY <2>1, <2>2
  <2>4. T # {}
    <3> SUFFICES ASSUME T = {} PROVE FALSE
      OBVIOUS
    <3>1. 1..Cardinality(T) = {}
      BY FS_EmptySet
    <3>2. [i \in 1..Cardinality(T) |-> 0] \in [1..Cardinality(T) -> T]
      BY <3>1
    <3>3. \A i, j \in 1..Cardinality(T) : FALSE
      BY <3>1
    <3> QED BY <2>2, <3>2, <3>3
  <2> DEFINE x == Max(T)
             U == T \ {x}
  <2>5. x \in T /\ \A y \in T : y <= x
    BY <2>3, <2>4, Extremes
  <2>6. IsFiniteSet(U) /\ Cardinality(U) = n - 1 /\ Cardinality(U) \in Nat
    BY <2>3, <2>5, FS_RemoveElement, FS_CardinalityType
  <2>7. U \in Of(n - 1) /\ n - 1 \in Nat
    BY <2>3, <2>6
  <2>8. Has(U)
    <3>1. n - 1 \notin bad
      BY <2>1, <2>3, <2>7
    <3> QED BY <2>7, <3>1
  <2>9. PICK s \in [1..(n - 1) -> U] : \A i, j \in DOMAIN s : i < j => s[i] < s[j]
    BY <2>6, <2>8
  <2> DEFINE t == [i \in 1..n |-> IF i = n THEN x ELSE s[i]]
  <2> HIDE DEF x
  <2>10. t \in [1..n -> T]
    BY <2>3, <2>5, <2>9
  <2>11. \A y \in U : y < x
    BY <2>3, <2>5
  <2>12. ASSUME NEW i \in 1..n, NEW j \in 1..n, i < j PROVE t[i] < t[j]
    <3>1. i \in 1..(n - 1) /\ t[i] = s[i] /\ s[i] \in U
      BY <2>3, <2>9, <2>12
    <3>2. CASE j = n
      BY <2>11, <2>12, <3>1, <3>2
    <3>3. CASE j # n
      BY <2>3, <2>9, <2>12, <3>1, <3>3
    <3> QED BY <3>2, <3>3
  <2>13. Has(T)
    <3> HIDE DEF t
    <3>1. DOMAIN t = 1..n
      BY <2>10
    <3> QED BY <2>3, <2>10, <2>12, <3>1
  <2> QED BY <2>2, <2>13
<1>2. Cardinality(S) \in Nat /\ S \in Of(Cardinality(S))
  BY FS_CardinalityType
<1> QED BY <1>1, <1>2

LEMMA ListedLists ==
    ASSUME NEW S \in SUBSET Nat, IsFiniteSet(S)
    PROVE  Lists(Listed(S), S) /\ Len(Listed(S)) = Cardinality(S) /\ Listed(S) \in [1..Cardinality(S) -> S]
<1> DEFINE L == Listed(S)
           n == Cardinality(S)
<1>1. L \in [1..n -> S] /\ \A i, j \in DOMAIN L : i < j => L[i] < L[j]
  BY ListExists DEF Listed
<1> HIDE DEF L
<1>2. n \in Nat /\ IsFiniteSet(1..n) /\ Cardinality(1..n) = n
  <2>1. n \in Nat
    BY FS_CardinalityType
  <2> HIDE DEF n
  <2> QED BY <2>1, FS_Interval
<1>3. L \in Injection(1..n, S)
  <2>1. ASSUME NEW i \in 1..n, NEW j \in 1..n, i # j PROVE L[i] # L[j]
    <3>1. i < j \/ j < i
      BY <1>2, <2>1
    <3>2. L[i] < L[j] \/ L[j] < L[i]
      BY <1>1, <3>1
    <3>3. L[i] \in Nat /\ L[j] \in Nat
      BY <1>1
    <3> QED BY <3>2, <3>3
  <2> QED BY <1>1, <2>1 DEF Injection, IsInjective
<1>4. L \in Surjection(1..n, S)
  BY <1>2, <1>3, FS_Injection
<1>5. L \in Seq(S) /\ Len(L) = n /\ DOMAIN L = 1..n
  BY <1>1, <1>2
<1> QED BY <1>1, <1>2, <1>4, <1>5 DEF Lists, Surjection, L

\* How many numbers of a set are at most m.
Below(F, m) == Cardinality(F \cap 1..m)

LEMMA ListedBelow ==
    ASSUME NEW F \in SUBSET (Nat \ {0}), IsFiniteSet(F), NEW m \in Nat
    PROVE  /\ Below(F, m) \in 0..Cardinality(F)
           /\ \A i \in 1..Cardinality(F) : Listed(F)[i] <= m <=> i <= Below(F, m)
<1> DEFINE L == Listed(F)
           c == Cardinality(F)
           over == {i \in 1..c : L[i] > m}
           G == F \cap 1..m
<1>1. Lists(L, F) /\ Len(L) = c /\ DOMAIN L = 1..c /\ c \in Nat /\ \A i \in 1..c : L[i] \in F /\ L[i] \in Nat \ {0}
  BY ListedLists, FS_CardinalityType DEF Lists
<1>2. \A i, j \in 1..c : i < j => L[i] < L[j]
  BY <1>1 DEF Lists
<1>3. IsFiniteSet(G) /\ G \in SUBSET Nat /\ Cardinality(G) \in Nat
  BY FS_Subset, FS_CardinalityType
<1> HIDE DEF L, c
<1>4. \E b \in 0..c : \A i \in 1..c : L[i] <= m <=> i <= b
  <2>1. CASE over = {}
    <3>1. \A i \in 1..c : L[i] <= m /\ i <= c
      BY <1>1, <2>1
    <3> QED BY <1>1, <3>1
  <2>2. CASE over # {}
    <3>1. PICK k \in over : \A i \in over : k <= i
      <4>1. over \in SUBSET Nat
        OBVIOUS
      <4> HIDE DEF over
      <4> QED BY <2>2, <4>1, LeastNat
    <3>2. k \in 1..c /\ L[k] > m
      BY <3>1
    <3>3. ASSUME NEW i \in 1..c PROVE L[i] <= m <=> i <= k - 1
      <4>1. CASE i < k
        BY <1>1, <3>1, <3>2, <3>3, <4>1
      <4>2. CASE i = k
        BY <1>1, <3>2, <4>2
      <4>3. CASE k < i
        <5>1. L[k] < L[i]
          BY <1>2, <3>2, <4>3
        <5> QED BY <1>1, <3>2, <3>3, <4>3, <5>1
      <4> QED BY <3>2, <4>1, <4>2, <4>3
    <3>4. k - 1 \in 0..c
      BY <1>1, <3>2
    <3> QED BY <3>3, <3>4
  <2> QED BY <2>1, <2>2
<1>5. PICK b \in 0..c : \A i \in 1..c : L[i] <= m <=> i <= b
  BY <1>4
<1> DEFINE s == [i \in 1..b |-> L[i]]
<1>6. Lists(s, G)
  <2>1. s \in Seq(Nat) /\ DOMAIN s = 1..b /\ Len(s) = b /\ b \in Nat
    BY <1>1, <1>5
  <2>2. \A i \in 1..b : s[i] = L[i] /\ i \in 1..c
    BY <1>1, <1>5
  <2> HIDE DEF s
  <2>3. \A i \in 1..b : s[i] \in G
    BY <1>1, <1>5, <2>2
  <2>4. ASSUME NEW x \in G PROVE \E i \in 1..b : s[i] = x
    <3>1. PICK i \in 1..c : L[i] = x
      BY <1>1 DEF Lists
    <3>2. i \in 1..b
      BY <1>1, <1>5, <3>1
    <3> QED BY <2>2, <3>1, <3>2
  <2>5. \A i, j \in 1..b : i < j => s[i] < s[j]
    BY <1>2, <2>2
  <2> QED BY <2>1, <2>3, <2>4, <2>5 DEF Lists
<1>7. Lists(Listed(G), G) /\ Len(Listed(G)) = Cardinality(G)
  BY <1>3, ListedLists
<1>8. Len(s) = Cardinality(G)
  <2> HIDE DEF s, G
  <2> QED BY <1>3, <1>6, <1>7, SameListing
<1>9. Len(s) = b
  BY <1>5, <1>1
<1>10. Below(F, m) = b
  BY <1>8, <1>9 DEF Below
<1> QED BY <1>5, <1>10 DEF L, c

\* A slice of a set, moved to the front, is listed as it was in the whole.
LEMMA SliceListed ==
    ASSUME NEW F \in SUBSET (Nat \ {0}), IsFiniteSet(F), NEW m \in Nat, NEW n \in Nat,
           NEW S, \A x : x \in S <=> x \in 1..n /\ m + x \in F
    PROVE  /\ IsFiniteSet(S) /\ S \in SUBSET Nat
           /\ Below(F, m + n) = Below(F, m) + Cardinality(S)
           /\ \A i \in 1..Cardinality(S) : Listed(S)[i] = Listed(F)[Below(F, m) + i] - m
<1> DEFINE L == Listed(F)
           c == Cardinality(F)
           a == Below(F, m)
           b == Below(F, m + n)
<1>1. Lists(L, F) /\ DOMAIN L = 1..c /\ c \in Nat /\ \A i \in 1..c : L[i] \in F /\ L[i] \in Nat \ {0}
  BY ListedLists, FS_CardinalityType DEF Lists
<1>2. \A i, j \in 1..c : i < j => L[i] < L[j]
  BY <1>1 DEF Lists
<1>3. a \in 0..c /\ \A i \in 1..c : L[i] <= m <=> i <= a
  BY ListedBelow
<1>4. b \in 0..c /\ \A i \in 1..c : L[i] <= m + n <=> i <= b
  BY ListedBelow
<1>5. IsFiniteSet(S) /\ S \in SUBSET Nat
  <2>1. S \in SUBSET (1..n) /\ IsFiniteSet(1..n)
    BY FS_Interval
  <2> QED BY <2>1, FS_Subset
<1> HIDE DEF L, c, a, b
<1>6. a <= b
  <2>1. CASE a = 0
    BY <1>1, <1>4, <2>1
  <2>2. CASE a # 0
    <3>1. a \in 1..c
      BY <1>1, <1>3, <2>2
    <3>2. L[a] <= m /\ L[a] \in Nat
      BY <1>1, <1>3, <3>1
    <3>3. L[a] <= m + n
      BY <3>2
    <3> QED BY <1>4, <3>1, <3>3
  <2> QED BY <2>1, <2>2
<1> DEFINE s == [i \in 1..(b - a) |-> L[a + i] - m]
<1>7. \A i \in 1..(b - a) : a + i \in 1..c /\ s[i] = L[a + i] - m
  BY <1>1, <1>3, <1>4, <1>6
<1>8. ASSUME NEW i \in 1..(b - a) PROVE L[a + i] - m \in 1..n /\ L[a + i] - m \in S
  <2>1. a + i \in 1..c /\ ~(a + i <= a) /\ a + i <= b
    BY <1>1, <1>3, <1>4, <1>6
  <2>2. L[a + i] \in F /\ L[a + i] \in Nat /\ L[a + i] > m /\ L[a + i] <= m + n
    BY <1>1, <1>3, <1>4, <2>1
  <2>3. L[a + i] - m \in 1..n /\ m + (L[a + i] - m) = L[a + i]
    BY <2>2
  <2> QED BY <2>2, <2>3
<1>9. b - a \in Nat
  BY <1>1, <1>3, <1>4, <1>6
<1>10. Lists(s, S)
  <2>1. s \in Seq(Int) /\ DOMAIN s = 1..(b - a) /\ Len(s) = b - a
    BY <1>8, <1>9
  <2> HIDE DEF s
  <2>2. \A i \in 1..(b - a) : s[i] \in S
    BY <1>7, <1>8
  <2>3. ASSUME NEW x \in S PROVE \E i \in 1..(b - a) : s[i] = x
    <3>1. x \in 1..n /\ m + x \in F
      OBVIOUS
    <3>2. PICK k \in 1..c : L[k] = m + x
      BY <1>1, <3>1 DEF Lists
    <3>3. ~(k <= a) /\ k <= b
      BY <1>3, <1>4, <3>1, <3>2
    <3>4. k - a \in 1..(b - a) /\ a + (k - a) = k
      BY <1>1, <1>3, <1>4, <3>2, <3>3
    <3>5. s[k - a] = x
      BY <1>7, <3>1, <3>2, <3>4
    <3> QED BY <3>4, <3>5
  <2>4. ASSUME NEW i \in 1..(b - a), NEW j \in 1..(b - a), i < j PROVE s[i] < s[j]
    <3>1. a + i \in 1..c /\ a + j \in 1..c /\ a + i < a + j
      BY <1>3, <1>7, <2>4
    <3>2. L[a + i] < L[a + j] /\ L[a + i] \in Nat /\ L[a + j] \in Nat
      BY <1>1, <1>2, <3>1
    <3> QED BY <1>7, <3>2
  <2> QED BY <1>9, <2>1, <2>2, <2>3, <2>4 DEF Lists
<1>11. Lists(Listed(S), S) /\ Len(Listed(S)) = Cardinality(S) /\ Cardinality(S) \in Nat
  BY <1>5, ListedLists, FS_CardinalityType
<1>12. Len(s) = b - a
  BY <1>8, <1>9
<1> HIDE DEF s
<1>13. Len(s) = Len(Listed(S)) /\ \A i \in 1..Len(s) : s[i] = Listed(S)[i]
  BY <1>5, <1>10, <1>11, SameListing
<1>14. Cardinality(S) = b - a
  BY <1>11, <1>12, <1>13
<1>15. b = a + Cardinality(S)
  BY <1>1, <1>3, <1>4, <1>14
<1>16. \A i \in 1..Cardinality(S) : Listed(S)[i] = L[a + i] - m
  BY <1>7, <1>12, <1>13, <1>14
<1> QED BY <1>5, <1>15, <1>16 DEF L, a, b

\* The place of a number in the list is one more than the smaller numbers.
LEMMA Ranks ==
    ASSUME NEW F \in SUBSET (Nat \ {0}), IsFiniteSet(F), NEW i \in 1..Cardinality(F)
    PROVE  Cardinality({j \in F : j < Listed(F)[i]}) = i - 1
<1> DEFINE L == Listed(F)
           c == Cardinality(F)
           m == L[i] - 1
<1>1. Lists(L, F) /\ DOMAIN L = 1..c /\ c \in Nat /\ \A k \in 1..c : L[k] \in F /\ L[k] \in Nat \ {0}
  BY ListedLists, FS_CardinalityType DEF Lists
<1>2. \A k, j \in 1..c : k < j => L[k] < L[j]
  BY <1>1 DEF Lists
<1>3. L[i] \in Nat \ {0}
  BY <1>1
<1>4. m \in Nat
  BY <1>3
<1>5. {j \in F : j < L[i]} = F \cap 1..m
  <2> HIDE DEF L
  <2>1. \A j \in F : j < L[i] <=> j \in 1..m
    BY <1>3
  <2> HIDE DEF m
  <2> QED BY <2>1
<1>6. Below(F, m) \in 0..c /\ \A k \in 1..c : L[k] <= m <=> k <= Below(F, m)
  <2> HIDE DEF m
  <2> QED BY <1>4, ListedBelow
<1> HIDE DEF L, c
<1>7. ~(i <= Below(F, m))
  BY <1>3, <1>6 DEF c
<1>8. i - 1 <= Below(F, m)
  <2>1. CASE i = 1
    BY <1>1, <1>6, <2>1
  <2>2. CASE i # 1
    <3>1. i - 1 \in 1..c /\ i \in 1..c /\ i - 1 < i
      BY <1>1, <2>2 DEF c
    <3>2. L[i - 1] < L[i] /\ L[i - 1] \in Nat
      BY <1>1, <1>2, <3>1
    <3>3. L[i - 1] <= m
      BY <1>3, <3>2
    <3> QED BY <1>6, <3>1, <3>3
  <2> QED BY <2>1, <2>2
<1>9. Below(F, m) = i - 1
  <2>1. i \in Nat /\ Below(F, m) \in Nat
    BY <1>1, <1>6
  <2> QED BY <1>7, <1>8, <2>1
<1> QED BY <1>5, <1>9 DEF Below, L

(***************************************************************************)
(* Geometry audits in chunks                                               *)
(***************************************************************************)
LEMMA LeastOfTwo == \A a, b \in Int : Min({a, b}) = IF a <= b THEN a ELSE b
<1> SUFFICES ASSUME NEW a \in Int, NEW b \in Int PROVE Min({a, b}) = IF a <= b THEN a ELSE b
  OBVIOUS
<1> DEFINE x == IF a <= b THEN a ELSE b
<1>1. x \in {a, b} /\ \A y \in {a, b} : x <= y
  OBVIOUS
<1>2. Min({a, b}) \in {a, b} /\ \A y \in {a, b} : Min({a, b}) <= y
  BY <1>1 DEF Min
<1> QED BY <1>1, <1>2

LEMMA PrefixOf ==
    ASSUME NEW S, NEW s \in Seq(S), NEW n \in Int, n >= 0
    PROVE  /\ Prefix(s, n) \in Seq(S)
           /\ Len(Prefix(s, n)) = IF n <= Len(s) THEN n ELSE Len(s)
           /\ \A i \in 1..Len(Prefix(s, n)) : Prefix(s, n)[i] = s[i]
<1>1. Len(s) \in Nat
  OBVIOUS
<1>2. Min({n, Len(s)}) = IF n <= Len(s) THEN n ELSE Len(s)
  BY <1>1, LeastOfTwo
<1> DEFINE k == Min({n, Len(s)})
<1>3. k \in 0..Len(s)
  BY <1>1, <1>2
<1>4. Prefix(s, n) = SubSeq(s, 1, k)
  BY DEF Prefix
<1> HIDE DEF k
<1>5. SubSeq(s, 1, k) \in Seq(S) /\ Len(SubSeq(s, 1, k)) = k /\ \A i \in 1..k : SubSeq(s, 1, k)[i] = s[i]
  BY <1>1, <1>3
<1> QED BY <1>2, <1>4, <1>5 DEF k

\* The job of a stream, and the next chunk of it.
Served == job \in Jobs /\ offset \in 0..Len(Features)

LEMMA JobSound ==
    ASSUME job \in Jobs
    PROVE  /\ Features \in Seq(ToSet(Features)) /\ DOMAIN Features = 1..Len(Features) /\ Len(Features) \in Nat
           /\ \A k \in DOMAIN Features : Issues(Features[k]) \in Seq(ToSet(Issues(Features[k])))
           /\ job.rules \in Seq(ToSet(job.rules)) /\ DOMAIN job.rules = 1..Len(job.rules) /\ Len(job.rules) \in Nat
<1>1. Features \in Seq(ToSet(Features)) /\ job.rules \in Seq(ToSet(job.rules))
  BY JobAssumption DEF Features
<1>2. \A f \in ToSet(Features) : Issues(f) \in Seq(ToSet(Issues(f)))
  BY JobAssumption DEF Features
<1>3. \A k \in DOMAIN Features : Features[k] \in ToSet(Features)
  BY DEF ToSet
<1> QED BY <1>1, <1>2, <1>3

LEMMA NextChunk ==
    ASSUME Served, NEW n \in 1..ChunkSize, Chunk(n)
    PROVE  /\ offset + n <= Len(Features) /\ offset' = offset + n /\ chunks' = TRUE
           /\ SubSeq(Rest, 1, n) \in Seq(ToSet(Features))
           /\ Len(SubSeq(Rest, 1, n)) = n /\ DOMAIN SubSeq(Rest, 1, n) = 1..n
           /\ \A k \in 1..n : SubSeq(Rest, 1, n)[k] = Features[offset + k]
<1>1. /\ Features \in Seq(ToSet(Features)) /\ Len(Features) \in Nat /\ offset \in 0..Len(Features)
      /\ DOMAIN Features = 1..Len(Features)
  BY JobSound DEF Served
<1>2. /\ Rest \in Seq(ToSet(Features)) /\ Len(Rest) = Len(Features) - offset
      /\ \A k \in 1..Len(Rest) : Rest[k] = Features[offset + k]
  <2> DEFINE S == ToSet(Features)
             f == Features
  <2>1. Rest = SubSeq(f, offset + 1, Len(f))
    BY DEF Rest
  <2> HIDE DEF S, f
  <2>2. f \in Seq(S) /\ Len(f) \in Nat /\ offset \in 0..Len(f)
    BY <1>1 DEF S, f
  <2>3. SubSeq(f, offset + 1, Len(f)) \in Seq(S) /\ Len(SubSeq(f, offset + 1, Len(f))) = Len(f) - offset
    BY <2>2
  <2>4. \A k \in 1..(Len(f) - offset) : SubSeq(f, offset + 1, Len(f))[k] = f[offset + k]
    BY <2>2
  <2> QED BY <2>1, <2>3, <2>4 DEF S, f
<1>3. Len(Rest) \in Nat /\ n \in Nat /\ ChunkSize \in Int
  BY <1>1, <1>2, LimitAssumption
<1>4. n <= Len(Rest)
  <2>1. n <= Min({ChunkSize, Len(Rest)}) /\ Min({ChunkSize, Len(Rest)}) \in Int
    BY <1>3, LeastOfTwo DEF Chunk
  <2>2. Min({ChunkSize, Len(Rest)}) <= Len(Rest)
    BY <1>3, LeastOfTwo
  <2> QED BY <1>3, <2>1, <2>2
<1>5. offset' = offset + n /\ chunks' = TRUE
  BY DEF Chunk
<1> DEFINE r == Rest
           T == ToSet(Features)
<1>6. r \in Seq(T) /\ n \in 1..Len(r) /\ Len(r) \in Nat
  BY <1>2, <1>3, <1>4
<1> HIDE DEF r, T
<1>7. SubSeq(r, 1, n) \in Seq(T) /\ Len(SubSeq(r, 1, n)) = n /\ DOMAIN SubSeq(r, 1, n) = 1..n
      /\ \A k \in 1..n : SubSeq(r, 1, n)[k] = r[k] /\ k \in 1..Len(r)
  BY <1>6
<1> QED BY <1>1, <1>2, <1>3, <1>4, <1>5, <1>7 DEF r, T

\* The issues of a feature are in a list.
Audited(s) == /\ DOMAIN s = 1..Len(s) /\ Len(s) \in Nat
              /\ \A k \in DOMAIN s : Issues(s[k]) \in Seq(ToSet(Issues(s[k])))

LEMMA FlawedFinite ==
    ASSUME NEW s, Audited(s)
    PROVE  IsFiniteSet(Flawed(s)) /\ Flawed(s) \in SUBSET (Nat \ {0})
<1>1. Flawed(s) \in SUBSET (1..Len(s)) /\ Len(s) \in Nat
  BY DEF Flawed, Audited
<1>2. IsFiniteSet(1..Len(s))
  BY <1>1, FS_Interval
<1>3. IsFiniteSet(Flawed(s))
  BY <1>1, <1>2, FS_Subset
<1> QED BY <1>1, <1>3

LEMMA OccurrenceElements ==
    ASSUME NEW s, Audited(s), NEW t, NEW x
    PROVE  x \in Occurrences(s, t) <=>
             \E k \in DOMAIN s : \E i \in DOMAIN Issues(s[k]) : x = <<k, i>> /\ Issues(s[k])[i] = t
<1>1. ASSUME NEW k \in DOMAIN s, NEW i \in DOMAIN Issues(s[k]) PROVE k \in Flawed(s)
  <2>1. Issues(s[k]) \in Seq(ToSet(Issues(s[k])))
    BY DEF Audited
  <2>2. Issues(s[k]) # <<>>
    BY <2>1
  <2> QED BY <2>2 DEF Flawed
<1>2. \A k \in Flawed(s) : k \in DOMAIN s
  BY DEF Flawed
<1>3. ASSUME x \in Occurrences(s, t)
      PROVE  \E k \in DOMAIN s : \E i \in DOMAIN Issues(s[k]) : x = <<k, i>> /\ Issues(s[k])[i] = t
  BY <1>2, <1>3 DEF Occurrences
<1>4. ASSUME NEW k \in DOMAIN s, NEW i \in DOMAIN Issues(s[k]), x = <<k, i>>, Issues(s[k])[i] = t
      PROVE  x \in Occurrences(s, t)
  <2>1. k \in Flawed(s)
    BY <1>1
  <2>2. i \in {m \in DOMAIN Issues(s[k]) : Issues(s[k])[m] = t}
    BY <1>4
  <2> QED BY <1>4, <2>1, <2>2 DEF Occurrences
<1> QED BY <1>3, <1>4

LEMMA OccurrencesFinite ==
    ASSUME NEW s, Audited(s), NEW t
    PROVE  IsFiniteSet(Occurrences(s, t))
<1> DEFINE At1(k) == {<<k, i>> : i \in {i \in DOMAIN Issues(s[k]) : Issues(s[k])[i] = t}}
           all == {At1(k) : k \in Flawed(s)}
           f == [k \in Flawed(s) |-> At1(k)]
<1>1. IsFiniteSet(Flawed(s)) /\ \A k \in Flawed(s) : k \in DOMAIN s
  BY FlawedFinite DEF Flawed
<1>2. IsFiniteSet(all)
  <2>1. f \in Surjection(Flawed(s), all)
    BY DEF Surjection
  <2> QED BY <1>1, <2>1, FS_Surjection
<1>3. ASSUME NEW k \in Flawed(s) PROVE IsFiniteSet(At1(k))
  <2>1. Issues(s[k]) \in Seq(ToSet(Issues(s[k])))
    BY <1>1 DEF Audited
  <2>2. DOMAIN Issues(s[k]) = 1..Len(Issues(s[k])) /\ Len(Issues(s[k])) \in Nat
    BY <2>1
  <2>3. IsFiniteSet(DOMAIN Issues(s[k]))
    BY <2>2, FS_Interval
  <2>4. IsFiniteSet({k})
    BY FS_Singleton
  <2>5. IsFiniteSet({k} \X (DOMAIN Issues(s[k])))
    BY <2>3, <2>4, FS_Product
  <2>6. At1(k) \in SUBSET ({k} \X (DOMAIN Issues(s[k])))
    OBVIOUS
  <2> QED BY <2>5, <2>6, FS_Subset
<1>4. \A T \in all : IsFiniteSet(T)
  BY <1>3
<1>5. Occurrences(s, t) = UNION all
  BY DEF Occurrences
<1> HIDE DEF all
<1> QED BY <1>2, <1>4, <1>5, FS_UNION

\* The dataset up to its first m features.
Begin(m) == SubSeq(Features, 1, m)

LEMMA BeginOf ==
    ASSUME job \in Jobs, NEW m \in 0..Len(Features)
    PROVE  /\ Begin(m) \in Seq(ToSet(Features)) /\ Len(Begin(m)) = m /\ DOMAIN Begin(m) = 1..m
           /\ \A k \in 1..m : Begin(m)[k] = Features[k]
           /\ Audited(Begin(m))
           /\ Begin(Len(Features)) = Features
<1> DEFINE f == Features
           T == ToSet(Features)
<1>1. f \in Seq(T) /\ Len(f) \in Nat /\ m \in 0..Len(f)
  BY JobSound
<1>2. \A k \in 1..Len(f) : Issues(f[k]) \in Seq(ToSet(Issues(f[k])))
  BY JobSound
<1>3. Begin(m) = SubSeq(f, 1, m) /\ Begin(Len(f)) = SubSeq(f, 1, Len(f))
  BY DEF Begin
<1> HIDE DEF f, T
<1>4. /\ SubSeq(f, 1, m) \in Seq(T) /\ Len(SubSeq(f, 1, m)) = m /\ DOMAIN SubSeq(f, 1, m) = 1..m
      /\ \A k \in 1..m : SubSeq(f, 1, m)[k] = f[k] /\ k \in 1..Len(f)
  BY <1>1
<1>5. SubSeq(f, 1, Len(f)) = f
  BY <1>1
<1>6. Audited(Begin(m))
  BY <1>1, <1>2, <1>3, <1>4 DEF Audited
<1> QED BY <1>3, <1>4, <1>5, <1>6 DEF f, T

\* A chunk of n features behind the first m.
ChunkAt(batch, m, n) ==
    /\ n \in Nat /\ m + n <= Len(Features)
    /\ DOMAIN batch = 1..n /\ Len(batch) = n
    /\ \A k \in 1..n : batch[k] = Features[m + k]

LEMMA ChunkAudited ==
    ASSUME job \in Jobs, NEW m \in 0..Len(Features), NEW n, NEW batch, ChunkAt(batch, m, n)
    PROVE  Audited(batch)
<1>1. Len(Features) \in Nat /\ DOMAIN Features = 1..Len(Features)
  BY JobSound
<1>2. \A k \in 1..n : m + k \in DOMAIN Features
  BY <1>1 DEF ChunkAt
<1>3. \A k \in 1..n : Issues(batch[k]) = Issues(Features[m + k])
  BY DEF ChunkAt
<1> QED BY <1>2, <1>3, JobSound DEF ChunkAt, Audited

\* Counts of issues add up.
LEMMA CountsAdd ==
    ASSUME job \in Jobs, NEW m \in 0..Len(Features), NEW n, NEW batch, ChunkAt(batch, m, n), NEW t
    PROVE  Cardinality(Occurrences(Begin(m + n), t)) =
             Cardinality(Occurrences(Begin(m), t)) + Cardinality(Occurrences(batch, t))
<1> DEFINE A == Occurrences(Begin(m), t)
           B == Occurrences(batch, t)
           C == Occurrences(Begin(m + n), t)
           D == C \ A
           f == [p \in B |-> <<m + p[1], p[2]>>]
<1>1. Len(Features) \in Nat /\ m \in Nat /\ n \in Nat /\ m + n \in 0..Len(Features)
  BY JobSound DEF ChunkAt
<1>2. /\ Audited(Begin(m)) /\ DOMAIN Begin(m) = 1..m /\ \A k \in 1..m : Begin(m)[k] = Features[k]
      /\ Audited(Begin(m + n)) /\ DOMAIN Begin(m + n) = 1..(m + n)
      /\ \A k \in 1..(m + n) : Begin(m + n)[k] = Features[k]
      /\ Audited(batch) /\ DOMAIN batch = 1..n /\ \A k \in 1..n : batch[k] = Features[m + k]
  BY <1>1, BeginOf, ChunkAudited DEF ChunkAt
<1> DEFINE Here(k, i, x) == i \in DOMAIN Issues(Features[k]) /\ x = <<k, i>> /\ Issues(Features[k])[i] = t
<1>3. /\ \A x : x \in A <=> \E k \in 1..m : \E i : Here(k, i, x)
      /\ \A x : x \in C <=> \E k \in 1..(m + n) : \E i : Here(k, i, x)
  <2> SUFFICES ASSUME NEW l \in {m, m + n}
               PROVE  \A x : x \in Occurrences(Begin(l), t) <=> \E k \in 1..l : \E i : Here(k, i, x)
    OBVIOUS
  <2>1. Audited(Begin(l)) /\ DOMAIN Begin(l) = 1..l /\ \A k \in 1..l : Begin(l)[k] = Features[k]
    BY <1>2
  <2>2. \A x : x \in Occurrences(Begin(l), t) <=>
                 \E k \in 1..l : \E i \in DOMAIN Issues(Begin(l)[k]) : x = <<k, i>> /\ Issues(Begin(l)[k])[i] = t
    BY <2>1, OccurrenceElements
  <2> QED BY <2>1, <2>2
<1>4. \A x : x \in B <=> \E k \in 1..n : \E i : Here(m + k, i, <<m + k, i>>) /\ x = <<k, i>>
  <2>1. \A x : x \in B <=>
                 \E k \in 1..n : \E i \in DOMAIN Issues(batch[k]) : x = <<k, i>> /\ Issues(batch[k])[i] = t
    <3>1. Audited(batch) /\ DOMAIN batch = 1..n
      BY <1>2
    <3>2. ASSUME NEW x
          PROVE  x \in Occurrences(batch, t) <=>
                   \E k \in DOMAIN batch : \E i \in DOMAIN Issues(batch[k]) : x = <<k, i>> /\ Issues(batch[k])[i] = t
      <4>1. Audited(batch)
        BY <3>1
      <4> HIDE DEF A, B, C, D, f, Here
      <4> QED BY <4>1, OccurrenceElements
    <3> QED BY <3>1, <3>2
  <2>2. \A k \in 1..n : Issues(batch[k]) = Issues(Features[m + k])
    BY <1>2
  <2> SUFFICES ASSUME NEW x
               PROVE  x \in B <=> \E k \in 1..n : \E i : Here(m + k, i, <<m + k, i>>) /\ x = <<k, i>>
    OBVIOUS
  <2> HIDE DEF B
  <2>3. ASSUME x \in B PROVE \E k \in 1..n : \E i : Here(m + k, i, <<m + k, i>>) /\ x = <<k, i>>
    BY <2>1, <2>2, <2>3
  <2>4. ASSUME NEW k \in 1..n, NEW i, Here(m + k, i, <<m + k, i>>), x = <<k, i>> PROVE x \in B
    BY <2>1, <2>2, <2>4
  <2> QED BY <2>3, <2>4
<1>5. IsFiniteSet(A) /\ IsFiniteSet(B) /\ IsFiniteSet(C)
  BY <1>2, OccurrencesFinite
<1> HIDE DEF A, B, C
<1>6. A \subseteq C
  BY <1>1, <1>3
<1>7. \A x : x \in D <=> \E k \in (m + 1)..(m + n) : \E i : Here(k, i, x)
  <2>1. ASSUME NEW x \in D PROVE \E k \in (m + 1)..(m + n) : \E i : Here(k, i, x)
    <3>1. PICK k, i : k \in 1..(m + n) /\ Here(k, i, x)
      BY <1>3
    <3>2. k \notin 1..m
      BY <1>3, <3>1
    <3> QED BY <1>1, <3>1, <3>2
  <2>2. ASSUME NEW x, NEW k \in (m + 1)..(m + n), NEW i, Here(k, i, x) PROVE x \in D
    <3>1. x \in C
      <4>1. k \in 1..(m + n)
        BY <1>1
      <4> QED BY <1>3, <2>2, <4>1
    <3>2. x \notin A
      <4> SUFFICES ASSUME x \in A PROVE FALSE
        OBVIOUS
      <4>1. PICK l, j : l \in 1..m /\ Here(l, j, x)
        BY <1>3
      <4>2. <<k, i>> = <<l, j>>
        BY <2>2, <4>1
      <4> QED BY <1>1, <4>1, <4>2
    <3> QED BY <3>1, <3>2
  <2> QED BY <2>1, <2>2
<1>8. f \in Bijection(B, D)
  <2>1. ASSUME NEW p \in B PROVE f[p] \in D
    <3>1. PICK k, i : k \in 1..n /\ Here(m + k, i, <<m + k, i>>) /\ p = <<k, i>>
      BY <1>4
    <3>2. f[p] = <<m + k, i>> /\ m + k \in (m + 1)..(m + n)
      BY <1>1, <3>1
    <3> QED BY <1>7, <3>1, <3>2
  <2>2. ASSUME NEW p \in B, NEW q \in B, f[p] = f[q] PROVE p = q
    <3>1. PICK k, i : k \in 1..n /\ p = <<k, i>>
      BY <1>4
    <3>2. PICK l, j : l \in 1..n /\ q = <<l, j>>
      BY <1>4
    <3>3. <<m + k, i>> = <<m + l, j>>
      BY <2>2, <3>1, <3>2
    <3> QED BY <1>1, <3>1, <3>2, <3>3
  <2>3. ASSUME NEW x \in D PROVE \E p \in B : f[p] = x
    <3>1. PICK k, i : k \in (m + 1)..(m + n) /\ Here(k, i, x)
      BY <1>7
    <3>2. k - m \in 1..n /\ m + (k - m) = k
      BY <1>1, <3>1
    <3>3. <<k - m, i>> \in B
      BY <1>4, <3>1, <3>2
    <3>4. f[<<k - m, i>>] = x
      BY <3>1, <3>2, <3>3
    <3> QED BY <3>3, <3>4
  <2> HIDE DEF D
  <2>4. f \in [B -> D]
    BY <2>1
  <2> HIDE DEF f
  <2>5. f \in Injection(B, D)
    <3>1. DOMAIN f = B
      BY <2>4
    <3>2. \A p, q \in B : f[p] = f[q] => p = q
      BY <2>2
    <3> QED BY <2>4, <3>1, <3>2 DEF Injection, IsInjective
  <2>6. f \in Surjection(B, D)
    BY <2>3, <2>4 DEF Surjection
  <2> QED BY <2>5, <2>6 DEF Bijection
<1>9. Cardinality(D) = Cardinality(B) /\ IsFiniteSet(D)
  <2>1. ExistsBijection(B, D)
    BY <1>8 DEF ExistsBijection
  <2> QED BY <1>5, <2>1, FS_Bijection
<1>10. Cardinality(C) = Cardinality(A) + Cardinality(D)
  <2>1. A \cup D = C /\ A \cap D = {}
    BY <1>6
  <2> HIDE DEF D
  <2>2. Cardinality(A \cup D) = Cardinality(A) + Cardinality(D) - Cardinality(A \cap D)
    BY <1>5, <1>9, FS_Union
  <2>3. Cardinality(A \cap D) = 0
    BY <2>1, FS_EmptySet
  <2>4. Cardinality(A) \in Nat /\ Cardinality(D) \in Nat
    BY <1>5, <1>9, FS_CardinalityType
  <2>5. Cardinality(A \cup D) = Cardinality(C)
    BY <2>1
  <2> QED BY <2>2, <2>3, <2>4, <2>5
<1> QED BY <1>9, <1>10 DEF A, B, C

\* What an audit of the first m features reports.
Kept(F, m) == IF Below(F, m) <= MaximumFindings THEN Below(F, m) ELSE MaximumFindings

FindingOf(k) == [index |-> k - 1, issues |-> Issues(Features[k])]

FindingsUpTo(m) == [i \in 1..Kept(Flawed(Features), m) |-> FindingOf(Listed(Flawed(Features))[i])]

AuditedUpTo(m) ==
    [features |-> m, invalid |-> Below(Flawed(Features), m),
     counts |-> [t \in IssueTypes |-> Cardinality(Occurrences(Begin(m), t))],
     findings |-> FindingsUpTo(m)]

LEMMA FlawedFeatures ==
    ASSUME job \in Jobs
    PROVE  /\ IsFiniteSet(Flawed(Features)) /\ Flawed(Features) \in SUBSET (Nat \ {0})
           /\ Cardinality(Flawed(Features)) \in Nat /\ MaximumFindings \in Nat
           /\ \A i \in 1..Cardinality(Flawed(Features)) :
                 Listed(Flawed(Features))[i] \in Flawed(Features) /\ Listed(Flawed(Features))[i] \in Nat \ {0}
<1>1. Audited(Features)
  BY JobSound DEF Audited
<1> DEFINE s == Features
<1>2. IsFiniteSet(Flawed(s)) /\ Flawed(s) \in SUBSET (Nat \ {0})
  BY <1>1, FlawedFinite
<1> DEFINE F == Flawed(s)
<1> HIDE DEF F, s
<1>3. Cardinality(F) \in Nat
  BY <1>2, FS_CardinalityType DEF F
<1>4. Listed(F) \in [1..Cardinality(F) -> F]
  <2>1. IsFiniteSet(F) /\ F \in SUBSET Nat
    BY <1>2 DEF F
  <2> QED BY <2>1, ListedLists
<1>5. \A i \in 1..Cardinality(F) : Listed(F)[i] \in F
  BY <1>4
<1> QED BY <1>2, <1>3, <1>5, LimitAssumption DEF F, s

LEMMA FirstAudited ==
    ASSUME job \in Jobs
    PROVE  NothingFound = AuditedUpTo(0)
<1>1. 0 \in 0..Len(Features)
  BY JobSound
<1>2. Below(Flawed(Features), 0) = 0
  <2>1. Flawed(Features) \cap 1..0 = {}
    OBVIOUS
  <2> QED BY <2>1, FS_EmptySet DEF Below
<1>3. ASSUME NEW t PROVE Cardinality(Occurrences(Begin(0), t)) = 0
  <2>1. Audited(Begin(0)) /\ DOMAIN Begin(0) = {}
    BY <1>1, BeginOf
  <2>2. Occurrences(Begin(0), t) = {}
    BY <2>1 DEF Occurrences, Flawed
  <2> QED BY <2>2, FS_EmptySet
<1>4. FindingsUpTo(0) = <<>>
  <2>1. Kept(Flawed(Features), 0) = 0
    BY <1>2, LimitAssumption DEF Kept
  <2> QED BY <2>1 DEF FindingsUpTo
<1>5. [t \in IssueTypes |-> Cardinality(Occurrences(Begin(0), t))] = [t \in IssueTypes |-> 0]
  BY <1>3
<1> QED BY <1>2, <1>4, <1>5 DEF NothingFound, AuditedUpTo

\* The flawed features of a chunk, in the chunk and in the dataset.
LEMMA FlawedChunk ==
    ASSUME job \in Jobs, NEW m \in 0..Len(Features), NEW n, NEW batch, ChunkAt(batch, m, n)
    PROVE  \A x : x \in Flawed(batch) <=> x \in 1..n /\ m + x \in Flawed(Features)
<1>1. Len(Features) \in Nat /\ DOMAIN Features = 1..Len(Features)
  BY JobSound
<1>2. \A x \in 1..n : m + x \in DOMAIN Features /\ batch[x] = Features[m + x]
  BY <1>1 DEF ChunkAt
<1>3. DOMAIN batch = 1..n
  BY DEF ChunkAt
<1> QED BY <1>2, <1>3 DEF Flawed

LEMMA FindingsJoin ==
    ASSUME job \in Jobs, NEW m \in 0..Len(Features), NEW n, NEW batch, ChunkAt(batch, m, n)
    PROVE  FindingsUpTo(m) \o Prefix(FindingsAt(batch, Flawed(batch), m), MaximumFindings - Len(FindingsUpTo(m))) =
             FindingsUpTo(m + n)
<1> DEFINE F == Flawed(Features)
           S == Flawed(batch)
           a == Below(F, m)
           b == Below(F, m + n)
           k == Kept(F, m)
           M == MaximumFindings
           r == FindingsAt(batch, S, m)
           c == Cardinality(S)
           left == M - k
           p == IF left <= c THEN left ELSE c
           All == {FindingOf(x) : x \in F}
<1>1. IsFiniteSet(F) /\ F \in SUBSET (Nat \ {0}) /\ Cardinality(F) \in Nat /\ M \in Nat
      /\ \A i \in 1..Cardinality(F) : Listed(F)[i] \in F /\ Listed(F)[i] \in Nat \ {0}
  BY FlawedFeatures
<1>2. m \in Nat /\ n \in Nat /\ m + n \in Nat
  BY JobSound DEF ChunkAt
<1>3. \A x : x \in S <=> x \in 1..n /\ m + x \in F
  BY FlawedChunk
<1>4. /\ IsFiniteSet(S) /\ S \in SUBSET Nat /\ b = a + c
      /\ \A i \in 1..c : Listed(S)[i] = Listed(F)[a + i] - m
  <2> HIDE DEF F, S
  <2> QED BY <1>1, <1>2, <1>3, SliceListed
<1>5. a \in 0..Cardinality(F) /\ b \in 0..Cardinality(F)
  <2> HIDE DEF F
  <2> QED BY <1>1, <1>2, ListedBelow
<1>6. c \in Nat /\ \A i \in 1..c : Listed(S)[i] \in S
  <2> HIDE DEF S
  <2>1. c \in Nat
    BY <1>4, FS_CardinalityType
  <2>2. Listed(S) \in [1..c -> S]
    BY <1>4, ListedLists
  <2> QED BY <2>1, <2>2
<1>7. k = (IF a <= M THEN a ELSE M) /\ Kept(F, m + n) = IF b <= M THEN b ELSE M
  BY DEF Kept
<1>8. r = [i \in 1..c |-> [index |-> m + Listed(S)[i] - 1, issues |-> Issues(batch[Listed(S)[i]])]]
  BY DEF FindingsAt
<1>9. ASSUME NEW i \in 1..c PROVE r[i] = FindingOf(Listed(F)[a + i]) /\ a + i \in 1..Cardinality(F)
  <2>1. Listed(S)[i] \in 1..n /\ Listed(S)[i] = Listed(F)[a + i] - m
    BY <1>3, <1>4, <1>6
  <2>2. a + i \in 1..Cardinality(F)
    BY <1>1, <1>4, <1>5, <1>6
  <2>3. Listed(F)[a + i] \in Nat
    BY <1>1, <2>2
  <2>4. m + Listed(S)[i] = Listed(F)[a + i]
    <3> DEFINE u == Listed(S)[i]
               v == Listed(F)[a + i]
    <3>1. u = v - m /\ v \in Nat /\ m \in Nat
      BY <1>2, <2>1, <2>3
    <3> HIDE DEF u, v
    <3>2. m + u = v
      BY <3>1
    <3> QED BY <3>2 DEF u, v
  <2>5. batch[Listed(S)[i]] = Features[m + Listed(S)[i]]
    BY <2>1 DEF ChunkAt
  <2>6. r[i] = [index |-> m + Listed(S)[i] - 1, issues |-> Issues(batch[Listed(S)[i]])]
    BY <1>8
  <2>7. batch[Listed(S)[i]] = Features[Listed(F)[a + i]]
    BY <2>4, <2>5
  <2>8. m + Listed(S)[i] - 1 = Listed(F)[a + i] - 1
    <3>1. m \in Int /\ Listed(S)[i] \in Int /\ Listed(F)[a + i] \in Int
      BY <1>2, <2>1, <2>3
    <3> HIDE DEF F, S, a
    <3> QED BY <2>4, <3>1
  <2>9. Issues(batch[Listed(S)[i]]) = Issues(Features[Listed(F)[a + i]])
    <3> HIDE DEF F, S, a
    <3> QED BY <2>7
  <2> HIDE DEF r, F, S, a
  <2>10. r[i] = [index |-> Listed(F)[a + i] - 1, issues |-> Issues(Features[Listed(F)[a + i]])]
    BY <2>6, <2>8, <2>9, Zenon
  <2>11. r[i] = FindingOf(Listed(F)[a + i])
    BY <2>10 DEF FindingOf
  <2> QED BY <2>2, <2>11
<1>10. DOMAIN r = 1..c /\ r \in Seq(All) /\ Len(r) = c
  <2>1. \A i \in 1..c : r[i] \in All
    BY <1>1, <1>9
  <2>2. DOMAIN r = 1..c
    BY <1>8
  <2>3. r = [i \in 1..c |-> r[i]]
    BY <1>8
  <2> HIDE DEF r, All, c
  <2> QED BY <1>6, <2>1, <2>2, <2>3
<1> DEFINE h == FindingsUpTo(m)
<1>11. k \in Nat /\ k <= M /\ k <= a /\ k <= Cardinality(F)
  <2> HIDE DEF k, a, b, F
  <2> QED BY <1>1, <1>5, <1>7
<1>12. h \in Seq(All) /\ Len(h) = k /\ \A i \in 1..k : h[i] = FindingOf(Listed(F)[i])
  <2>1. h = [i \in 1..k |-> FindingOf(Listed(F)[i])]
    BY DEF FindingsUpTo
  <2>2. \A i \in 1..k : FindingOf(Listed(F)[i]) \in All
    BY <1>1, <1>11
  <2> HIDE DEF h, k, F, All
  <2> QED BY <1>11, <2>1, <2>2
<1> DEFINE q == Prefix(r, left)
<1>13. q \in Seq(All) /\ Len(q) = p /\ \A i \in 1..p : q[i] = r[i]
  <2>1. left \in Int /\ left >= 0
    <3> HIDE DEF k
    <3> QED BY <1>1, <1>11
  <2> HIDE DEF r, left, All, c
  <2>2. /\ Prefix(r, left) \in Seq(All)
        /\ Len(Prefix(r, left)) = IF left <= Len(r) THEN left ELSE Len(r)
        /\ \A i \in 1..Len(Prefix(r, left)) : Prefix(r, left)[i] = r[i]
    BY <1>10, <2>1, PrefixOf, Zenon
  <2> QED BY <1>10, <2>2
<1> HIDE DEF F, S, a, b, c, k, r, M, All, h, q
<1>14. p \in Nat /\ k + p = Kept(F, m + n)
  <2>1. /\ a \in Nat /\ b \in Nat /\ c \in Nat /\ M \in Nat /\ b = a + c
        /\ k = (IF a <= M THEN a ELSE M) /\ Kept(F, m + n) = IF b <= M THEN b ELSE M
    BY <1>1, <1>4, <1>5, <1>6, <1>7
  <2> DEFINE d == Kept(F, m + n)
  <2> HIDE DEF d
  <2>2. d = IF b <= M THEN b ELSE M
    BY <2>1 DEF d
  <2>3. p \in Nat /\ k + p = d
    BY <2>1, <2>2
  <2> QED BY <2>3 DEF d
<1>15. h \o q \in Seq(All) /\ Len(h \o q) = k + p
       /\ \A i \in 1..(k + p) : (h \o q)[i] = IF i <= k THEN h[i] ELSE q[i - k]
  <2> HIDE DEF p
  <2> QED BY <1>11, <1>12, <1>13, <1>14
<1>16. ASSUME NEW i \in 1..(k + p) PROVE (h \o q)[i] = FindingOf(Listed(F)[i])
  <2>1. CASE i <= k
    BY <1>11, <1>12, <1>15, <2>1
  <2>2. CASE ~(i <= k)
    <3>1. i - k \in 1..p /\ p <= c /\ p <= M - k
      BY <1>1, <1>6, <1>11, <1>14, <2>2
    <3>2. k = a
      <4>1. /\ a \in Nat /\ M \in Nat /\ k \in Nat /\ p \in Nat
            /\ k = (IF a <= M THEN a ELSE M)
        BY <1>1, <1>5, <1>7, <1>11, <1>14
      <4> HIDE DEF p
      <4>2. p >= 1
        BY <3>1, <4>1
      <4> QED BY <3>1, <4>1, <4>2
    <3>3. i - k \in 1..c /\ a + (i - k) = i
      BY <1>5, <1>6, <1>14, <3>1, <3>2
    <3>4. q[i - k] = r[i - k] /\ r[i - k] = FindingOf(Listed(F)[a + (i - k)])
      BY <1>9, <1>13, <3>1, <3>3
    <3> QED BY <1>15, <2>2, <3>3, <3>4
  <2> QED BY <2>1, <2>2
<1>17. h \o q = [i \in 1..(k + p) |-> FindingOf(Listed(F)[i])]
  <2> DEFINE g == h \o q
             l == k + p
  <2>1. g \in Seq(All) /\ Len(g) = l /\ \A i \in 1..l : g[i] = FindingOf(Listed(F)[i])
    BY <1>15, <1>16
  <2> HIDE DEF g, l
  <2>2. g = [i \in 1..l |-> g[i]]
    BY <2>1
  <2>3. g = [i \in 1..l |-> FindingOf(Listed(F)[i])]
    BY <2>1, <2>2
  <2> QED BY <2>3 DEF g, l
<1>18. FindingsUpTo(m + n) = [i \in 1..(k + p) |-> FindingOf(Listed(F)[i])]
  BY <1>14 DEF FindingsUpTo, F
<1>19. q = Prefix(FindingsAt(batch, Flawed(batch), m), MaximumFindings - Len(FindingsUpTo(m)))
  BY <1>12 DEF q, h, r, S, M
<1> QED BY <1>17, <1>18, <1>19 DEF h

\* A chunk more.
LEMMA ChunkAudit ==
    ASSUME job \in Jobs, NEW m \in 0..Len(Features), NEW n, NEW batch, ChunkAt(batch, m, n)
    PROVE  Merged(AuditedUpTo(m), ChunkResult(batch, m)) = AuditedUpTo(m + n)
<1> DEFINE F == Flawed(Features)
           have == AuditedUpTo(m)
           result == ChunkResult(batch, m)
<1>1. IsFiniteSet(F) /\ F \in SUBSET (Nat \ {0})
  BY FlawedFeatures
<1>2. m \in Nat /\ n \in Nat /\ Len(batch) = n
  BY JobSound DEF ChunkAt
<1>3. Below(F, m + n) = Below(F, m) + Cardinality(Flawed(batch))
  <2>1. \A x : x \in Flawed(batch) <=> x \in 1..n /\ m + x \in F
    BY FlawedChunk
  <2> HIDE DEF F
  <2> QED BY <1>1, <1>2, <2>1, SliceListed
<1>4. \A t : Cardinality(Occurrences(Begin(m + n), t)) =
               Cardinality(Occurrences(Begin(m), t)) + Cardinality(Occurrences(batch, t))
  BY CountsAdd
<1>5. /\ have.features = m /\ have.invalid = Below(F, m) /\ have.findings = FindingsUpTo(m)
      /\ have.counts = [t \in IssueTypes |-> Cardinality(Occurrences(Begin(m), t))]
  BY DEF AuditedUpTo
<1>6. /\ result.features = n /\ result.invalid = Cardinality(Flawed(batch))
      /\ result.findings = FindingsAt(batch, Flawed(batch), m)
      /\ result.counts = [t \in IssueTypes |-> Cardinality(Occurrences(batch, t))]
  BY <1>2 DEF ChunkResult
<1> HIDE DEF have, result, F
<1>7. [t \in IssueTypes |-> have.counts[t] + result.counts[t]] =
        [t \in IssueTypes |-> Cardinality(Occurrences(Begin(m + n), t))]
  <2>1. ASSUME NEW t \in IssueTypes
        PROVE  have.counts[t] + result.counts[t] = Cardinality(Occurrences(Begin(m + n), t))
    BY <1>4, <1>5, <1>6
  <2> QED BY <2>1
<1>8. have.findings \o Prefix(result.findings, MaximumFindings - Len(have.findings)) = FindingsUpTo(m + n)
  BY <1>5, <1>6, FindingsJoin
<1>9. Merged(have, result) = [features |-> m + n, invalid |-> Below(F, m + n),
        counts |-> [t \in IssueTypes |-> Cardinality(Occurrences(Begin(m + n), t))],
        findings |-> FindingsUpTo(m + n)]
  BY <1>3, <1>5, <1>6, <1>7, <1>8 DEF Merged
<1> QED BY <1>9 DEF AuditedUpTo, have, result, F

\* The whole dataset.
LEMMA WholeAudit ==
    ASSUME job \in Jobs
    PROVE  AuditedUpTo(Len(Features)) = AuditOf(Features)
<1> DEFINE F == Flawed(Features)
           L == Listed(F)
           c == Cardinality(F)
           M == MaximumFindings
           kept == {k \in F : Cardinality({j \in F : j < k}) < M}
           K == IF c <= M THEN c ELSE M
           s == [i \in 1..K |-> L[i]]
<1>1. IsFiniteSet(F) /\ F \in SUBSET (Nat \ {0}) /\ c \in Nat /\ M \in Nat
      /\ \A i \in 1..c : L[i] \in F /\ L[i] \in Nat \ {0}
  BY FlawedFeatures
<1>2. Below(F, Len(Features)) = c
  <2>1. F \cap 1..Len(Features) = F
    BY JobSound DEF Flawed
  <2> QED BY <2>1 DEF Below
<1>3. Begin(Len(Features)) = Features
  <2>1. Len(Features) \in 0..Len(Features)
    BY JobSound
  <2> QED BY <2>1, BeginOf
<1>4. Kept(F, Len(Features)) = K
  BY <1>2 DEF Kept
<1>5. Lists(L, F)
  <2>1. F \in SUBSET Nat
    BY <1>1
  <2> HIDE DEF F
  <2> QED BY <1>1, <2>1, ListedLists
<1>6. \A i \in 1..c : Cardinality({j \in F : j < L[i]}) = i - 1
  <2> HIDE DEF F
  <2> QED BY <1>1, Ranks
<1>7. K \in Nat /\ K <= c /\ \A i \in 1..c : i - 1 < M <=> i <= K
  <2> HIDE DEF c
  <2> QED BY <1>1
<1>8. \A i \in 1..c : L[i] \in kept <=> i <= K
  <2> HIDE DEF F, L, c, K
  <2> QED BY <1>1, <1>6, <1>7
<1>9. DOMAIN L = 1..c
  <2>1. F \in SUBSET Nat
    BY <1>1
  <2> HIDE DEF F
  <2> QED BY <1>1, <2>1, ListedLists
<1>10. kept \in SUBSET Nat /\ IsFiniteSet(kept)
  <2>1. kept \subseteq F
    OBVIOUS
  <2> HIDE DEF kept, F
  <2> QED BY <1>1, <2>1, FS_Subset
<1>11. \A x \in kept : x \in F
  OBVIOUS
<1> HIDE DEF F, L, c, K, kept
<1>12. Lists(s, kept) /\ Len(s) = K
  <2>1. DOMAIN s = 1..K /\ s \in Seq(Nat) /\ Len(s) = K
    BY <1>1, <1>7
  <2>2. \A i \in 1..K : s[i] = L[i] /\ i \in 1..c
    BY <1>1, <1>7
  <2> HIDE DEF s
  <2>3. \A i \in 1..K : s[i] \in kept
    BY <1>7, <1>8, <2>2
  <2>4. ASSUME NEW x \in kept PROVE \E i \in 1..K : s[i] = x
    <3>1. PICK i \in 1..c : L[i] = x
      BY <1>5, <1>9, <1>11 DEF Lists
    <3>2. i \in 1..K
      BY <1>1, <1>7, <1>8, <3>1
    <3> QED BY <2>2, <3>1, <3>2
  <2>5. \A i, j \in 1..K : i < j => s[i] < s[j]
    BY <1>5, <1>9, <2>2 DEF Lists
  <2> QED BY <1>7, <2>1, <2>3, <2>4, <2>5 DEF Lists
<1>13. Lists(Listed(kept), kept) /\ Len(Listed(kept)) = Cardinality(kept)
  BY <1>10, ListedLists
<1>14. Cardinality(kept) = K /\ \A i \in 1..K : Listed(kept)[i] = L[i]
  <2>1. Len(s) = Len(Listed(kept)) /\ \A i \in 1..Len(s) : s[i] = Listed(kept)[i]
    <3> HIDE DEF s
    <3> QED BY <1>10, <1>12, <1>13, SameListing
  <2>2. \A i \in 1..K : s[i] = L[i]
    OBVIOUS
  <2> HIDE DEF s
  <2> QED BY <1>12, <1>13, <2>1, <2>2
<1>15. FindingsAt(Features, kept, 0) = [i \in 1..K |-> FindingOf(L[i])]
  <2>1. FindingsAt(Features, kept, 0) =
          [n \in 1..K |-> [index |-> 0 + Listed(kept)[n] - 1, issues |-> Issues(Features[Listed(kept)[n]])]]
    BY <1>14 DEF FindingsAt
  <2>2. ASSUME NEW i \in 1..K
        PROVE  [index |-> 0 + Listed(kept)[i] - 1, issues |-> Issues(Features[Listed(kept)[i]])] = FindingOf(L[i])
    <3>1. Listed(kept)[i] = L[i] /\ L[i] \in Nat
      BY <1>1, <1>7, <1>14
    <3>2. 0 + Listed(kept)[i] - 1 = L[i] - 1
      BY <3>1
    <3> QED BY <3>1, <3>2 DEF FindingOf
  <2> QED BY <2>1, <2>2
<1>16. FindingsUpTo(Len(Features)) = FindingsAt(Features, kept, 0)
  BY <1>4, <1>15 DEF FindingsUpTo, L, F
<1> QED BY <1>2, <1>3, <1>16 DEF AuditedUpTo, AuditOf, kept, F, c

(***************************************************************************)
(* Rules in chunks                                                         *)
(***************************************************************************)
\* f gathers the findings of a rule from the first n results.
Gathers(f, id, results, n) ==
    f = [k \in 0..n |-> IF k = 0 THEN <<>>
                        ELSE IF results[k].rule = id THEN f[k - 1] \o results[k].findings
                        ELSE f[k - 1]]

\* The recursion has a solution of any length, by the least length that had none.
LEMMA Gathering ==
    ASSUME NEW id, NEW results
    PROVE  \A n \in Nat : \E f : Gathers(f, id, results, n)
<1> DEFINE worse == {n \in Nat : ~\E f : Gathers(f, id, results, n)}
<1>1. SUFFICES ASSUME worse # {} PROVE FALSE
  OBVIOUS
<1>2. PICK n \in worse : \A m \in worse : n <= m
  <2>1. worse \in SUBSET Nat
    OBVIOUS
  <2> HIDE DEF worse
  <2> QED BY <1>1, <2>1, LeastNat
<1>3. n \in Nat /\ ~\E f : Gathers(f, id, results, n)
  BY <1>2
<1>4. CASE n = 0
  <2> DEFINE f == [k \in 0..0 |-> <<>>]
  <2>1. Gathers(f, id, results, 0)
    BY DEF Gathers
  <2> QED BY <1>3, <1>4, <2>1
<1>5. CASE n # 0
  <2>1. n - 1 \in Nat /\ n - 1 \notin worse
    <3>1. n - 1 \in Nat /\ ~(n <= n - 1)
      BY <1>3, <1>5
    <3> HIDE DEF worse
    <3> QED BY <1>2, <3>1
  <2>2. PICK f : Gathers(f, id, results, n - 1)
    BY <2>1
  <2> DEFINE last == IF results[n].rule = id THEN f[n - 1] \o results[n].findings ELSE f[n - 1]
             g == [k \in 0..n |-> IF k = n THEN last ELSE f[k]]
  <2>3. \A k \in 0..(n - 1) : f[k] = IF k = 0 THEN <<>>
                                     ELSE IF results[k].rule = id THEN f[k - 1] \o results[k].findings
                                     ELSE f[k - 1]
    BY <2>2 DEF Gathers
  <2>4. ASSUME NEW k \in 0..n
        PROVE  g[k] = IF k = 0 THEN <<>>
                      ELSE IF results[k].rule = id THEN g[k - 1] \o results[k].findings
                      ELSE g[k - 1]
    <3>1. CASE k = n
      <4>1. k # 0 /\ k - 1 \in 0..n /\ k - 1 # n /\ k - 1 = n - 1
        BY <1>3, <1>5, <3>1
      <4>2. g[k - 1] = f[n - 1] /\ g[k] = last
        BY <3>1, <4>1
      <4> HIDE DEF g
      <4> QED BY <3>1, <4>1, <4>2
    <3>2. CASE k # n
      <4>1. k \in 0..(n - 1) /\ g[k] = f[k]
        BY <1>3, <3>2
      <4>2. k # 0 => k - 1 \in 0..n /\ k - 1 # n
        BY <1>3, <3>2
      <4>3. k # 0 => g[k - 1] = f[k - 1]
        BY <4>2
      <4> HIDE DEF g
      <4> QED BY <2>3, <4>1, <4>3
    <3> QED BY <3>1, <3>2
  <2>5. Gathers(g, id, results, n)
    <3>1. g = [k \in 0..n |-> g[k]]
      OBVIOUS
    <3> HIDE DEF g
    <3> QED BY <2>4, <3>1 DEF Gathers
  <2> HIDE DEF g
  <2> QED BY <1>3, <2>5
<1> QED BY <1>4, <1>5

LEMMA OneGathering ==
    ASSUME NEW id, NEW results, NEW n \in Nat, NEW f, NEW g, Gathers(f, id, results, n), Gathers(g, id, results, n)
    PROVE  f[n] = g[n]
<1> DEFINE differ == {k \in 0..n : f[k] # g[k]}
<1>1. SUFFICES ASSUME differ # {} PROVE FALSE
  BY n \in 0..n
<1>2. PICK k \in differ : \A m \in differ : k <= m
  <2>1. differ \in SUBSET Nat
    OBVIOUS
  <2> HIDE DEF differ
  <2> QED BY <1>1, <2>1, LeastNat
<1>3. k \in 0..n /\ f[k] # g[k]
  BY <1>2
<1>4. /\ f[k] = IF k = 0 THEN <<>>
                ELSE IF results[k].rule = id THEN f[k - 1] \o results[k].findings ELSE f[k - 1]
      /\ g[k] = IF k = 0 THEN <<>>
                ELSE IF results[k].rule = id THEN g[k - 1] \o results[k].findings ELSE g[k - 1]
  BY <1>3 DEF Gathers
<1>5. k # 0 => f[k - 1] = g[k - 1]
  <2> SUFFICES ASSUME k # 0 PROVE f[k - 1] = g[k - 1]
    OBVIOUS
  <2>1. k - 1 \in 0..n /\ ~(k <= k - 1)
    BY <1>3
  <2>2. k - 1 \notin differ
    <3> HIDE DEF differ
    <3> QED BY <1>2, <2>1
  <2> QED BY <2>1, <2>2
<1> QED BY <1>3, <1>4, <1>5

LEMMA GatheredIs ==
    ASSUME NEW id, NEW results, Len(results) \in Nat, NEW f, Gathers(f, id, results, Len(results))
    PROVE  Gathered(id, results) = f[Len(results)]
<1> DEFINE n == Len(results)
           up == CHOOSE upTo : Gathers(upTo, id, results, n)
<1>1. Gathers(up, id, results, n)
  OBVIOUS
<1>2. Gathered(id, results) = up[n]
  BY Zenon DEF Gathered, Gathers
<1> HIDE DEF up, n
<1>3. up[n] = f[n]
  BY <1>1, OneGathering DEF n
<1> QED BY <1>2, <1>3 DEF n

\* Sequences that come one after the other.
LEMMA Appending ==
    ASSUME NEW s, NEW t, s \in Seq(ToSet(s)), t \in Seq(ToSet(t))
    PROVE  /\ s \o t \in Seq(ToSet(s \o t)) /\ Len(s \o t) = Len(s) + Len(t) /\ Len(s) \in Nat /\ Len(t) \in Nat
           /\ DOMAIN (s \o t) = 1..(Len(s) + Len(t)) /\ DOMAIN s = 1..Len(s) /\ DOMAIN t = 1..Len(t)
           /\ \A k \in 1..Len(s) : (s \o t)[k] = s[k]
           /\ \A k \in 1..Len(t) : (s \o t)[Len(s) + k] = t[k]
<1> DEFINE A == ToSet(s)
           B == ToSet(t)
           C == A \cup B
<1>1. s \in Seq(C) /\ t \in Seq(C)
  <2> HIDE DEF A, B
  <2>1. s \in Seq(A) /\ t \in Seq(B)
    BY DEF A, B
  <2> QED BY <2>1
<1> HIDE DEF C
<1> DEFINE j == s \o t
<1>2. j \in Seq(C) /\ Len(j) = Len(s) + Len(t) /\ Len(s) \in Nat /\ Len(t) \in Nat
      /\ DOMAIN s = 1..Len(s) /\ DOMAIN t = 1..Len(t)
  BY <1>1
<1>3. \A k \in 1..Len(s) : j[k] = s[k]
  BY <1>1
<1>4. \A k \in 1..Len(t) : j[Len(s) + k] = t[k]
  BY <1>1
<1> HIDE DEF j
<1>5. DOMAIN j = 1..Len(j) /\ Len(j) \in Nat
  BY <1>2
<1>6. j \in Seq(ToSet(j))
  <2>1. \A k \in 1..Len(j) : j[k] \in ToSet(j)
    BY <1>5 DEF ToSet
  <2>2. j = [k \in 1..Len(j) |-> j[k]]
    BY <1>2
  <2> DEFINE D == ToSet(j)
  <2> HIDE DEF D
  <2>3. \A k \in 1..Len(j) : j[k] \in D
    BY <2>1 DEF D
  <2>4. j \in Seq(D)
    BY <1>5, <2>2, <2>3
  <2> QED BY <2>4 DEF D
<1> QED BY <1>2, <1>3, <1>4, <1>5, <1>6 DEF j

\* Of results that hold one of the rule, its findings come last.
LEMMA GatheredMore ==
    ASSUME NEW id, NEW s, NEW t, s \in Seq(ToSet(s)), t \in Seq(ToSet(t)),
           NEW p \in 1..Len(t), \A k \in 1..Len(t) : t[k].rule = id <=> k = p
    PROVE  Gathered(id, s \o t) = Gathered(id, s) \o t[p].findings
<1> DEFINE a == Len(s)
           b == Len(t)
           j == s \o t
<1>1. /\ a \in Nat /\ b \in Nat /\ Len(j) = a + b
      /\ \A k \in 1..a : j[k] = s[k]
      /\ \A k \in 1..b : j[a + k] = t[k]
  BY Appending
<1>2. PICK f : Gathers(f, id, s, a)
  BY <1>1, Gathering
<1> DEFINE more == f[a] \o t[p].findings
           g == [k \in 0..(a + b) |-> IF k <= a THEN f[k] ELSE IF k < a + p THEN f[a] ELSE more]
<1> HIDE DEF a, b, j
<1>3. p \in 1..b
  BY DEF b
<1>4. \A k \in 0..a : f[k] = IF k = 0 THEN <<>>
                             ELSE IF s[k].rule = id THEN f[k - 1] \o s[k].findings ELSE f[k - 1]
  BY <1>2 DEF Gathers
<1>5. ASSUME NEW k \in 0..(a + b)
      PROVE  g[k] = IF k = 0 THEN <<>>
                    ELSE IF j[k].rule = id THEN g[k - 1] \o j[k].findings ELSE g[k - 1]
  <2>1. CASE k <= a
    <3>1. k \in 0..a /\ g[k] = f[k]
      BY <1>1, <2>1
    <3>2. k # 0 => k - 1 \in 0..(a + b) /\ k - 1 <= a /\ k \in 1..a
      BY <1>1, <2>1
    <3>3. k # 0 => g[k - 1] = f[k - 1] /\ j[k] = s[k]
      BY <1>1, <3>2
    <3> HIDE DEF g
    <3> QED BY <1>4, <3>1, <3>3
  <2>2. CASE ~(k <= a)
    <3>1. k # 0 /\ k - a \in 1..b /\ a + (k - a) = k /\ k - 1 \in 0..(a + b)
      BY <1>1, <2>2
    <3>2. j[k] = t[k - a]
      BY <1>1, <3>1
    <3>3. t[k - a].rule = id <=> k - a = p
      BY <3>1 DEF b
    <3>4. CASE k - a = p
      <4>1. k - 1 < a + p /\ ~(k < a + p) /\ t[k - a] = t[p]
        BY <1>1, <1>3, <3>1, <3>4
      <4>2. g[k] = more
        BY <2>2, <4>1
      <4>3. g[k - 1] = f[a]
        <5>1. k - 1 <= a => k - 1 = a
          BY <1>1, <2>2
        <5> QED BY <3>1, <4>1, <5>1
      <4> HIDE DEF g
      <4> QED BY <3>1, <3>2, <3>3, <3>4, <4>1, <4>2, <4>3
    <3>5. CASE k - a # p /\ k < a + p
      <4>1. g[k] = f[a]
        BY <2>2, <3>5
      <4>2. g[k - 1] = f[a]
        <5>1. k - 1 <= a => k - 1 = a
          BY <1>1, <2>2
        <5>2. k - 1 < a + p
          BY <1>1, <1>3, <3>5
        <5> QED BY <3>1, <5>1, <5>2
      <4> HIDE DEF g
      <4> QED BY <3>1, <3>2, <3>3, <3>5, <4>1, <4>2
    <3>6. CASE k - a # p /\ ~(k < a + p)
      <4>1. g[k] = more
        BY <2>2, <3>6
      <4>2. ~(k - 1 <= a) /\ ~(k - 1 < a + p)
        BY <1>1, <1>3, <3>1, <3>6
      <4>3. g[k - 1] = more
        BY <3>1, <4>2
      <4> HIDE DEF g
      <4> QED BY <3>1, <3>2, <3>3, <3>6, <4>1, <4>3
    <3> QED BY <3>4, <3>5, <3>6
  <2> QED BY <2>1, <2>2
<1>6. Gathers(g, id, j, a + b)
  <2>1. g = [k \in 0..(a + b) |-> g[k]]
    OBVIOUS
  <2> HIDE DEF g
  <2> QED BY <1>5, <2>1 DEF Gathers
<1>7. g[a + b] = more
  <2>1. a + b \in 0..(a + b) /\ ~(a + b <= a) /\ ~(a + b < a + p)
    BY <1>1, <1>3
  <2> QED BY <2>1
<1> HIDE DEF g
<1>8. Gathered(id, j) = more
  <2>1. Len(j) \in Nat
    BY <1>1
  <2>2. Gathered(id, j) = g[Len(j)]
    BY <1>1, <1>6, <2>1, GatheredIs
  <2> QED BY <1>1, <1>7, <2>2
<1>9. Gathered(id, s) = f[a]
  BY <1>1, <1>2, GatheredIs DEF a
<1> QED BY <1>8, <1>9 DEF j

LEMMA NothingGathered == \A id : Gathered(id, <<>>) = <<>>
<1> SUFFICES ASSUME NEW id PROVE Gathered(id, <<>>) = <<>>
  OBVIOUS
<1>1. Len(<<>>) = 0
  OBVIOUS
<1>2. PICK f : Gathers(f, id, <<>>, 0)
  BY Gathering
<1>3. f[0] = <<>>
  BY <1>2 DEF Gathers
<1> DEFINE e == <<>>
<1>4. Len(e) = 0 /\ Gathers(f, id, e, Len(e))
  BY <1>1, <1>2
<1> HIDE DEF e
<1>5. Gathered(id, e) = f[Len(e)]
  BY <1>4, GatheredIs
<1> QED BY <1>3, <1>4, <1>5 DEF e

\* Where a rule finds something, what it reports of the first m features, and
\* whether it raised for one of them.
FoundBy(id) == {k \in DOMAIN Features : Features[k] \in Rule[id].finds}

PlacesUpTo(id, m) == [i \in 1..Below(FoundBy(id), m) |-> Listed(FoundBy(id))[i] - 1]

Stumbles(id, s) == ToSet(s) \cap Rule[id].raises # {}

ErrorOf(id, results) == \E k \in DOMAIN results : results[k].rule = id /\ results[k].status = "error"

LEMMA StumblesIn ==
    ASSUME job \in Jobs, NEW m \in 0..Len(Features), NEW n, NEW batch, ChunkAt(batch, m, n), NEW id
    PROVE  /\ Stumbles(id, Begin(m + n)) <=> Stumbles(id, Begin(m)) \/ Stumbles(id, batch)
           /\ Stumbles(id, Begin(m)) => Stumbles(id, Features)
           /\ Stumbles(id, batch) => Stumbles(id, Features)
<1>1. Len(Features) \in Nat /\ m \in Nat /\ n \in Nat /\ m + n \in 0..Len(Features) /\ DOMAIN Features = 1..Len(Features)
  BY JobSound DEF ChunkAt
<1>2. /\ DOMAIN Begin(m) = 1..m /\ \A k \in 1..m : Begin(m)[k] = Features[k]
      /\ DOMAIN Begin(m + n) = 1..(m + n) /\ \A k \in 1..(m + n) : Begin(m + n)[k] = Features[k]
      /\ DOMAIN batch = 1..n /\ \A k \in 1..n : batch[k] = Features[m + k]
  BY <1>1, BeginOf DEF ChunkAt
<1>3. /\ \A x : x \in ToSet(Begin(m)) <=> \E k \in 1..m : Features[k] = x
      /\ \A x : x \in ToSet(Begin(m + n)) <=> \E k \in 1..(m + n) : Features[k] = x
      /\ \A x : x \in ToSet(batch) <=> \E k \in 1..n : Features[m + k] = x
      /\ \A x : x \in ToSet(Features) <=> \E k \in 1..Len(Features) : Features[k] = x
  BY <1>1, <1>2 DEF ToSet
<1>4. ASSUME NEW k \in 1..(m + n) PROVE k \in 1..m \/ (k - m \in 1..n /\ m + (k - m) = k)
  BY <1>1
<1>5. \A k \in 1..m : k \in 1..(m + n) /\ k \in 1..Len(Features)
  BY <1>1
<1>6. \A k \in 1..n : m + k \in 1..(m + n) /\ m + k \in 1..Len(Features)
  BY <1>1
<1>7. \A x : x \in ToSet(Begin(m + n)) <=> x \in ToSet(Begin(m)) \/ x \in ToSet(batch)
  <2> SUFFICES ASSUME NEW x
               PROVE  x \in ToSet(Begin(m + n)) <=> x \in ToSet(Begin(m)) \/ x \in ToSet(batch)
    OBVIOUS
  <2>1. ASSUME x \in ToSet(Begin(m + n)) PROVE x \in ToSet(Begin(m)) \/ x \in ToSet(batch)
    <3>1. PICK k \in 1..(m + n) : Features[k] = x
      BY <1>3, <2>1
    <3>2. CASE k \in 1..m
      BY <1>3, <3>1, <3>2
    <3>3. CASE k - m \in 1..n /\ m + (k - m) = k
      <4>1. Features[m + (k - m)] = x
        BY <3>1, <3>3
      <4> QED BY <1>3, <3>3, <4>1
    <3> QED BY <1>4, <3>2, <3>3
  <2>2. ASSUME x \in ToSet(Begin(m)) PROVE x \in ToSet(Begin(m + n))
    BY <1>3, <1>5, <2>2
  <2>3. ASSUME x \in ToSet(batch) PROVE x \in ToSet(Begin(m + n))
    BY <1>3, <1>6, <2>3
  <2> QED BY <2>1, <2>2, <2>3
<1>8. \A x : x \in ToSet(Begin(m)) \/ x \in ToSet(batch) => x \in ToSet(Features)
  BY <1>3, <1>5, <1>6
<1> QED BY <1>7, <1>8 DEF Stumbles

\* Below a chunk the places go on.
LEMMA FoundFeatures ==
    ASSUME job \in Jobs, NEW id
    PROVE  /\ IsFiniteSet(FoundBy(id)) /\ FoundBy(id) \in SUBSET (Nat \ {0}) /\ Cardinality(FoundBy(id)) \in Nat
           /\ \A i \in 1..Cardinality(FoundBy(id)) : Listed(FoundBy(id))[i] \in FoundBy(id) /\ Listed(FoundBy(id))[i] \in Nat
<1> DEFINE F == FoundBy(id)
<1>1. F \in SUBSET (1..Len(Features)) /\ Len(Features) \in Nat
  BY JobSound DEF FoundBy
<1>2. IsFiniteSet(1..Len(Features))
  BY <1>1, FS_Interval
<1> HIDE DEF F
<1>3. IsFiniteSet(F) /\ F \in SUBSET (Nat \ {0}) /\ F \in SUBSET Nat
  <2>1. IsFiniteSet(F)
    BY <1>1, <1>2, FS_Subset
  <2> QED BY <1>1, <2>1
<1>4. Cardinality(F) \in Nat
  BY <1>3, FS_CardinalityType
<1>5. Listed(F) \in [1..Cardinality(F) -> F]
  BY <1>3, ListedLists
<1>6. \A i \in 1..Cardinality(F) : Listed(F)[i] \in F /\ Listed(F)[i] \in Nat
  BY <1>3, <1>5
<1> QED BY <1>3, <1>4, <1>6 DEF F

LEMMA PlacesJoin ==
    ASSUME job \in Jobs, NEW m \in 0..Len(Features), NEW n, NEW batch, ChunkAt(batch, m, n),
           NEW id, ~Stumbles(id, batch)
    PROVE  PlacesUpTo(id, m) \o RuleResult(id, batch, m).findings = PlacesUpTo(id, m + n)
<1> DEFINE F == FoundBy(id)
           S == {k \in DOMAIN batch : batch[k] \in Rule[id].finds}
           a == Below(F, m)
           b == Below(F, m + n)
           c == Cardinality(S)
           h == PlacesUpTo(id, m)
           r == [i \in 1..c |-> m + Listed(S)[i] - 1]
           L == Listed(F)
           LS == Listed(S)
<1>1. IsFiniteSet(F) /\ F \in SUBSET (Nat \ {0}) /\ Cardinality(F) \in Nat
      /\ \A i \in 1..Cardinality(F) : L[i] \in F /\ L[i] \in Nat
  BY FoundFeatures
<1>2. m \in Nat /\ n \in Nat /\ m + n \in Nat
  BY JobSound DEF ChunkAt
<1>3. \A x : x \in S <=> x \in 1..n /\ m + x \in F
  <2>1. Len(Features) \in Nat /\ DOMAIN Features = 1..Len(Features)
    BY JobSound
  <2>2. \A x \in 1..n : m + x \in DOMAIN Features /\ batch[x] = Features[m + x]
    BY <2>1 DEF ChunkAt
  <2>3. DOMAIN batch = 1..n
    BY DEF ChunkAt
  <2> QED BY <2>2, <2>3 DEF FoundBy
<1>4. /\ IsFiniteSet(S) /\ S \in SUBSET Nat /\ b = a + c
      /\ \A i \in 1..c : LS[i] = L[a + i] - m
  <2> HIDE DEF F, S
  <2> QED BY <1>1, <1>2, <1>3, SliceListed
<1>5. a \in 0..Cardinality(F) /\ b \in 0..Cardinality(F)
  <2> HIDE DEF F
  <2> QED BY <1>1, <1>2, ListedBelow
<1>6. c \in Nat
  <2> HIDE DEF S
  <2> QED BY <1>4, FS_CardinalityType
<1>7. RuleResult(id, batch, m).findings = r
  BY DEF RuleResult, Stumbles
<1>8. h = [i \in 1..a |-> L[i] - 1]
  BY DEF PlacesUpTo
<1> HIDE DEF F, S, a, b, c, h, L, LS
<1>9. ASSUME NEW i \in 1..c PROVE r[i] = L[a + i] - 1 /\ r[i] \in Int
  <2>1. a + i \in 1..Cardinality(F)
    BY <1>1, <1>4, <1>5, <1>6
  <2>2. L[a + i] \in Int /\ LS[i] = L[a + i] - m
    BY <1>1, <1>4, <2>1
  <2>3. r[i] = m + LS[i] - 1
    BY DEF LS
  <2> HIDE DEF r
  <2> DEFINE u == L[a + i]
  <2>4. u \in Int /\ LS[i] = u - m
    BY <2>2
  <2> HIDE DEF u
  <2>5. r[i] = u - 1 /\ r[i] \in Int
    BY <1>2, <2>3, <2>4
  <2> QED BY <2>5 DEF u
<1>10. r \in Seq(Int) /\ Len(r) = c
  <2>1. r = [i \in 1..c |-> r[i]]
    BY DEF c
  <2> HIDE DEF r
  <2> QED BY <1>6, <1>9, <2>1
<1>11. a \in Nat /\ h \in Seq(Int) /\ Len(h) = a /\ \A i \in 1..a : h[i] = L[i] - 1
  <2>1. a \in Nat /\ \A i \in 1..a : i \in 1..Cardinality(F)
    BY <1>1, <1>5
  <2>2. \A i \in 1..a : L[i] - 1 \in Int
    BY <1>1, <2>1
  <2> QED BY <1>8, <2>1, <2>2
<1> HIDE DEF r
<1>12. h \o r \in Seq(Int) /\ Len(h \o r) = a + c
       /\ \A i \in 1..(a + c) : (h \o r)[i] = IF i <= a THEN h[i] ELSE r[i - a]
  <2> DEFINE Z == Int
  <2>1. h \in Seq(Z) /\ r \in Seq(Z) /\ Len(h) = a /\ Len(r) = c /\ a \in Nat /\ c \in Nat
    BY <1>6, <1>10, <1>11
  <2> HIDE DEF Z
  <2>2. h \o r \in Seq(Z) /\ Len(h \o r) = a + c
       /\ \A i \in 1..(a + c) : (h \o r)[i] = IF i <= a THEN h[i] ELSE r[i - a]
    BY <2>1
  <2> QED BY <2>2 DEF Z
<1> DEFINE g == h \o r
<1>13. g \in Seq(Int) /\ Len(g) = b /\ \A i \in 1..b : g[i] = L[i] - 1
  <2>1. g \in Seq(Int) /\ Len(g) = a + c /\ \A i \in 1..(a + c) : g[i] = IF i <= a THEN h[i] ELSE r[i - a]
    BY <1>12
  <2> HIDE DEF g
  <2>2. ASSUME NEW i \in 1..(a + c) PROVE g[i] = L[i] - 1
    <3>1. CASE i <= a
      BY <1>11, <2>1, <3>1
    <3>2. CASE ~(i <= a)
      <4>1. i - a \in 1..c /\ a + (i - a) = i
        BY <1>6, <1>11, <3>2
      <4>2. r[i - a] = L[a + (i - a)] - 1
        BY <1>9, <4>1
      <4> QED BY <2>1, <3>2, <4>1, <4>2
    <3> QED BY <3>1, <3>2
  <2> QED BY <1>4, <2>1, <2>2
<1> HIDE DEF g
<1>14. g = [i \in 1..b |-> L[i] - 1]
  <2>1. g = [i \in 1..b |-> g[i]]
    BY <1>13
  <2> QED BY <1>13, <2>1
<1>15. PlacesUpTo(id, m + n) = [i \in 1..b |-> L[i] - 1]
  BY DEF PlacesUpTo, b, F, L
<1> QED BY <1>7, <1>14, <1>15 DEF g, h

LEMMA NoPlaces ==
    ASSUME job \in Jobs
    PROVE  \A id : PlacesUpTo(id, 0) = <<>> /\ ~Stumbles(id, Begin(0))
<1> SUFFICES ASSUME NEW id PROVE PlacesUpTo(id, 0) = <<>> /\ ~Stumbles(id, Begin(0))
  OBVIOUS
<1>1. Below(FoundBy(id), 0) = 0
  <2>1. FoundBy(id) \cap 1..0 = {}
    OBVIOUS
  <2> QED BY <2>1, FS_EmptySet DEF Below
<1>2. DOMAIN Begin(0) = {}
  <2>1. 0 \in 0..Len(Features)
    BY JobSound
  <2> QED BY <2>1, BeginOf
<1> QED BY <1>1, <1>2 DEF PlacesUpTo, Stumbles, ToSet

\* The result of a rule for the dataset as one chunk.
LEMMA WholeResult ==
    ASSUME job \in Jobs, NEW id
    PROVE  LET p == PlacesUpTo(id, Len(Features)) IN
           RuleResult(id, Features, 0) =
             IF Stumbles(id, Features) THEN [rule |-> id, status |-> "error", findings |-> <<>>]
             ELSE [rule |-> id, status |-> IF p = <<>> THEN "passed" ELSE "failed", findings |-> p]
<1> DEFINE F == FoundBy(id)
           p == PlacesUpTo(id, Len(Features))
           c == Cardinality(F)
           L == Listed(F)
           q == [n \in 1..c |-> 0 + L[n] - 1]
<1>1. IsFiniteSet(F) /\ c \in Nat /\ \A i \in 1..c : L[i] \in Nat
  BY FoundFeatures
<1>2. Below(F, Len(Features)) = c
  <2>1. F \cap 1..Len(Features) = F
    BY JobSound DEF FoundBy
  <2> QED BY <2>1 DEF Below
<1>3. p = [i \in 1..c |-> L[i] - 1]
  BY <1>2 DEF PlacesUpTo
<1>4. q = p
  <2>1. \A i \in 1..c : 0 + L[i] - 1 = L[i] - 1
    BY <1>1
  <2> QED BY <1>3, <2>1
<1>5. F = {} <=> p = <<>>
  <2>1. F = {} <=> c = 0
    BY <1>1, FS_EmptySet
  <2>2. DOMAIN p = 1..c
    BY <1>3
  <2>3. c = 0 => p = <<>>
    BY <1>3
  <2>4. p = <<>> => c = 0
    <3> HIDE DEF p, c
    <3>1. p = <<>> => 1..c = {}
      BY <2>2
    <3> QED BY <1>1, <3>1
  <2> QED BY <2>1, <2>3, <2>4
<1>6. RuleResult(id, Features, 0) =
        IF Stumbles(id, Features) THEN [rule |-> id, status |-> "error", findings |-> <<>>]
        ELSE [rule |-> id, status |-> IF F = {} THEN "passed" ELSE "failed", findings |-> q]
  BY DEF RuleResult, Stumbles, FoundBy
<1> HIDE DEF F, p, q
<1> QED BY <1>4, <1>5, <1>6 DEF p

\* What the collector of the rules holds after the first m features.
Ruled(results, m) ==
    /\ results \in Seq(ToSet(results))
    /\ m = 0 => Len(results) = 0
    /\ m > 0 =>
           /\ ToSet(job.rules) \subseteq DOMAIN Rule
           /\ Len(results) >= Len(job.rules)
           /\ \A k \in DOMAIN job.rules : results[k].rule = job.rules[k]
    /\ \A k \in DOMAIN results : results[k].rule \in ToSet(job.rules)
    /\ \A id \in ToSet(job.rules) :
           IF Stumbles(id, Begin(m))
           THEN job.policy # "raise" /\ ~Rule[id].silent /\ ErrorOf(id, results)
           ELSE /\ m > 0 => Rule[id].answers = id
                /\ ~ErrorOf(id, results)
                /\ IsInjective(job.rules) => Gathered(id, results) = PlacesUpTo(id, m)

LEMMA NothingRuled ==
    ASSUME job \in Jobs
    PROVE  Ruled(<<>>, 0)
<1>1. <<>> \in Seq(ToSet(<<>>)) /\ DOMAIN <<>> = {} /\ Len(<<>>) = 0
  OBVIOUS
<1>2. \A id : ~ErrorOf(id, <<>>)
  BY <1>1 DEF ErrorOf
<1>3. \A id : Gathered(id, <<>>) = PlacesUpTo(id, 0) /\ ~Stumbles(id, Begin(0))
  BY NothingGathered, NoPlaces
<1> QED BY <1>1, <1>2, <1>3 DEF Ruled

\* The results of a chunk.
LEMMA Executed ==
    ASSUME job \in Jobs, NEW batch, NEW m
    PROVE  /\ Execute(batch, m) \in Seq(ToSet(Execute(batch, m)))
           /\ Len(Execute(batch, m)) = Len(job.rules) /\ DOMAIN Execute(batch, m) = 1..Len(job.rules)
           /\ DOMAIN job.rules = 1..Len(job.rules) /\ Len(job.rules) \in Nat
           /\ \A k \in 1..Len(job.rules) :
                 /\ Execute(batch, m)[k] = RuleResult(job.rules[k], batch, m)
                 /\ Execute(batch, m)[k].rule = job.rules[k]
                 /\ Execute(batch, m)[k].status = "error" <=> Stumbles(job.rules[k], batch)
<1> DEFINE t == Execute(batch, m)
           n == Len(job.rules)
           S == ToSet(t)
<1>1. DOMAIN job.rules = 1..n /\ n \in Nat
  BY JobSound
<1>2. t = [k \in 1..n |-> RuleResult(job.rules[k], batch, m)]
  BY <1>1 DEF Execute
<1>3. ASSUME NEW k \in 1..n
      PROVE  /\ t[k] = RuleResult(job.rules[k], batch, m)
             /\ t[k].rule = job.rules[k]
             /\ t[k].status = "error" <=> Stumbles(job.rules[k], batch)
  <2> DEFINE id == job.rules[k]
  <2>1. t[k] = RuleResult(id, batch, m)
    BY <1>2
  <2> HIDE DEF t, id
  <2>2. CASE Stumbles(id, batch)
    <3>1. RuleResult(id, batch, m) = [rule |-> id, status |-> "error", findings |-> <<>>]
      BY <2>2 DEF RuleResult, Stumbles
    <3> QED BY <2>1, <2>2, <3>1 DEF id
  <2>3. CASE ~Stumbles(id, batch)
    <3>1. RuleResult(id, batch, m).rule = id /\ RuleResult(id, batch, m).status \in {"passed", "failed"}
      BY <2>3 DEF RuleResult, Stumbles
    <3> QED BY <2>1, <2>3, <3>1 DEF id
  <2> QED BY <2>2, <2>3
<1>4. \A k \in 1..n : t[k] \in S
  <2>1. DOMAIN t = 1..n
    BY <1>2
  <2> HIDE DEF t
  <2> QED BY <2>1 DEF ToSet
<1>5. t \in Seq(S) /\ Len(t) = n /\ DOMAIN t = 1..n
  <2>1. t = [k \in 1..n |-> t[k]]
    BY <1>2
  <2> HIDE DEF t, S, n
  <2> QED BY <1>1, <1>4, <2>1
<1> HIDE DEF t, n
<1> QED BY <1>1, <1>3, <1>5 DEF t, n

LEMMA RulesMore ==
    ASSUME job \in Jobs, NEW m \in 0..Len(Features), NEW n, n > 0, NEW batch, ChunkAt(batch, m, n),
           NEW results, Ruled(results, m), ~Raises(batch)
    PROVE  Ruled(results \o Execute(batch, m), m + n)
<1> DEFINE t == Execute(batch, m)
           R == Len(job.rules)
           a == Len(results)
           j == results \o t
<1>1. /\ t \in Seq(ToSet(t)) /\ Len(t) = R /\ DOMAIN t = 1..R /\ DOMAIN job.rules = 1..R /\ R \in Nat
      /\ \A k \in 1..R : /\ t[k] = RuleResult(job.rules[k], batch, m)
                         /\ t[k].rule = job.rules[k]
                         /\ t[k].status = "error" <=> Stumbles(job.rules[k], batch)
  BY Executed
<1> HIDE DEF t, R
<1>2. results \in Seq(ToSet(results))
  BY DEF Ruled
<1>3. /\ j \in Seq(ToSet(j)) /\ Len(j) = a + R /\ a \in Nat
      /\ DOMAIN j = 1..(a + R) /\ DOMAIN results = 1..a
      /\ \A k \in 1..a : j[k] = results[k]
      /\ \A k \in 1..R : j[a + k] = t[k]
  BY <1>1, <1>2, Appending
<1> HIDE DEF a, j
<1>4. m \in Nat /\ n \in Nat
  BY JobSound DEF ChunkAt
<1>5. ASSUME NEW k \in DOMAIN j
      PROVE  \/ k \in 1..a /\ j[k] = results[k]
             \/ k - a \in 1..R /\ a + (k - a) = k /\ j[k] = t[k - a]
  <2>1. k \in 1..a \/ (k - a \in 1..R /\ a + (k - a) = k)
    BY <1>1, <1>3
  <2>2. k - a \in 1..R => j[a + (k - a)] = t[k - a]
    BY <1>3
  <2> QED BY <1>3, <2>1, <2>2
<1>6. ToSet(job.rules) \subseteq DOMAIN Rule /\ \A id \in ToSet(job.rules) : ~RuleRaises(id, batch)
  BY DEF Raises
<1>7. Len(j) >= R /\ \A k \in 1..R : j[k].rule = job.rules[k]
  <2>1. CASE m > 0
    <3>1. a >= R /\ \A k \in 1..R : results[k].rule = job.rules[k]
      BY <1>1, <2>1 DEF Ruled, R, a
    <3>2. \A k \in 1..R : k \in 1..a
      BY <1>1, <1>3, <3>1
    <3>3. Len(j) >= R
      BY <1>1, <1>3
    <3> QED BY <1>3, <3>1, <3>2, <3>3
  <2>2. CASE ~(m > 0)
    <3>1. a = 0
      BY <1>4, <2>2 DEF Ruled, a
    <3>2. \A k \in 1..R : a + k = k
      BY <1>1, <3>1
    <3>3. \A k \in 1..R : j[k] = t[k]
      BY <1>3, <3>2
    <3>4. Len(j) >= R
      BY <1>1, <1>3
    <3> QED BY <1>1, <3>3, <3>4
  <2> QED BY <2>1, <2>2
<1>8. \A k \in DOMAIN j : j[k].rule \in ToSet(job.rules)
  <2>1. \A k \in 1..R : job.rules[k] \in ToSet(job.rules)
    BY <1>1 DEF ToSet
  <2>2. \A k \in 1..a : results[k].rule \in ToSet(job.rules)
    BY <1>3 DEF Ruled
  <2> QED BY <1>1, <1>5, <2>1, <2>2
<1>9. ASSUME NEW id \in ToSet(job.rules)
      PROVE  ErrorOf(id, j) <=> ErrorOf(id, results) \/ Stumbles(id, batch)
  <2>1. PICK p \in 1..R : job.rules[p] = id
    BY <1>1 DEF ToSet
  <2>2. ASSUME ErrorOf(id, j) PROVE ErrorOf(id, results) \/ Stumbles(id, batch)
    <3>1. PICK k \in DOMAIN j : j[k].rule = id /\ j[k].status = "error"
      BY <2>2 DEF ErrorOf
    <3>2. CASE k \in 1..a /\ j[k] = results[k]
      BY <1>3, <3>1, <3>2 DEF ErrorOf
    <3>3. CASE k - a \in 1..R /\ j[k] = t[k - a]
      <4>1. t[k - a].rule = id /\ t[k - a].status = "error"
        BY <3>1, <3>3
      <4>2. job.rules[k - a] = id /\ Stumbles(job.rules[k - a], batch)
        BY <1>1, <3>3, <4>1
      <4> QED BY <4>2
    <3> QED BY <1>5, <3>2, <3>3
  <2>3. ASSUME ErrorOf(id, results) PROVE ErrorOf(id, j)
    <3>1. PICK k \in 1..a : results[k].rule = id /\ results[k].status = "error"
      BY <1>3, <2>3 DEF ErrorOf
    <3>2. k \in DOMAIN j /\ j[k] = results[k]
      BY <1>1, <1>3
    <3> QED BY <3>1, <3>2 DEF ErrorOf
  <2>4. ASSUME Stumbles(id, batch) PROVE ErrorOf(id, j)
    <3>1. a + p \in DOMAIN j /\ j[a + p] = t[p]
      BY <1>1, <1>3
    <3>2. t[p].rule = id /\ t[p].status = "error"
      BY <1>1, <2>1, <2>4
    <3> QED BY <3>1, <3>2 DEF ErrorOf
  <2> QED BY <2>2, <2>3, <2>4
<1>10. ASSUME NEW id \in ToSet(job.rules)
       PROVE  IF Stumbles(id, Begin(m + n))
              THEN job.policy # "raise" /\ ~Rule[id].silent /\ ErrorOf(id, j)
              ELSE /\ m + n > 0 => Rule[id].answers = id
                   /\ ~ErrorOf(id, j)
                   /\ IsInjective(job.rules) => Gathered(id, j) = PlacesUpTo(id, m + n)
  <2>1. Stumbles(id, Begin(m + n)) <=> Stumbles(id, Begin(m)) \/ Stumbles(id, batch)
    BY StumblesIn
  <2>2. IF Stumbles(id, batch) THEN job.policy # "raise" /\ ~Rule[id].silent ELSE Rule[id].answers = id
    BY <1>6 DEF RuleRaises, Stumbles
  <2>3. IF Stumbles(id, Begin(m))
        THEN job.policy # "raise" /\ ~Rule[id].silent /\ ErrorOf(id, results)
        ELSE /\ ~ErrorOf(id, results)
             /\ IsInjective(job.rules) => Gathered(id, results) = PlacesUpTo(id, m)
    BY DEF Ruled
  <2>4. CASE Stumbles(id, Begin(m + n))
    BY <1>9, <2>1, <2>2, <2>3, <2>4
  <2>5. CASE ~Stumbles(id, Begin(m + n))
    <3>1. ~ErrorOf(id, j) /\ Rule[id].answers = id
      BY <1>9, <2>1, <2>2, <2>3, <2>5
    <3>2. ASSUME IsInjective(job.rules) PROVE Gathered(id, j) = PlacesUpTo(id, m + n)
      <4>1. PICK p \in 1..R : job.rules[p] = id
        BY <1>1 DEF ToSet
      <4>2. \A k \in 1..R : job.rules[k] = id <=> k = p
        BY <1>1, <3>2, <4>1 DEF IsInjective
      <4>3. \A k \in 1..Len(t) : t[k].rule = id <=> k = p
        BY <1>1, <4>2
      <4>4. p \in 1..Len(t)
        BY <1>1
      <4>5. Gathered(id, j) = Gathered(id, results) \o t[p].findings
        <5>1. t \in Seq(ToSet(t))
          BY <1>1
        <5>2. Gathered(id, results \o t) = Gathered(id, results) \o t[p].findings
          BY <1>2, <4>3, <4>4, <5>1, GatheredMore
        <5> QED BY <5>2 DEF j
      <4>6. t[p].findings = RuleResult(id, batch, m).findings
        BY <1>1, <4>1
      <4>7. Gathered(id, results) = PlacesUpTo(id, m) /\ ~Stumbles(id, batch)
        BY <2>1, <2>3, <2>5, <3>2
      <4>8. PlacesUpTo(id, m) \o RuleResult(id, batch, m).findings = PlacesUpTo(id, m + n)
        BY <4>7, PlacesJoin
      <4> QED BY <4>5, <4>6, <4>7, <4>8
    <3> QED BY <2>5, <3>1, <3>2
  <2> QED BY <2>4, <2>5
<1>11. m + n # 0
  BY <1>4
<1>12. j \in Seq(ToSet(j)) /\ DOMAIN job.rules = 1..R
  BY <1>1, <1>3
<1>13. Ruled(j, m + n)
  BY <1>6, <1>7, <1>8, <1>10, <1>11, <1>12 DEF Ruled, R
<1> QED BY <1>13 DEF j, t

LEMMA WholeFeatures ==
    ASSUME job \in Jobs
    PROVE  Begin(Len(Features)) = Features /\ Len(Features) \in 0..Len(Features) /\ Len(Features) \in Nat
<1>1. Len(Features) \in 0..Len(Features) /\ Len(Features) \in Nat
  BY JobSound
<1> QED BY <1>1, BeginOf

\* At the end of the dataset no rule has raised, and the merged results are
\* those of one chunk.
LEMMA RulesFinished ==
    ASSUME job \in Jobs, Len(Features) > 0, NEW results, Ruled(results, Len(Features))
    PROVE  ~Raises(Features) /\ (IsInjective(job.rules) => Finished(results) = Execute(Features, 0))
<1> DEFINE R == Len(job.rules)
           a == Len(results)
<1>1. DOMAIN job.rules = 1..R /\ R \in Nat
  BY JobSound
<1>2. Begin(Len(Features)) = Features /\ Len(Features) \in Nat
  BY WholeFeatures
<1>3. results \in Seq(ToSet(results)) /\ DOMAIN results = 1..a /\ a \in Nat
  <2> DEFINE S == ToSet(results)
  <2>1. results \in Seq(S)
    BY DEF Ruled
  <2> HIDE DEF S
  <2>2. DOMAIN results = 1..a /\ a \in Nat
    BY <2>1
  <2> QED BY <2>1, <2>2 DEF S
<1>4. /\ ToSet(job.rules) \subseteq DOMAIN Rule /\ a >= R
      /\ \A k \in 1..R : results[k].rule = job.rules[k]
      /\ \A k \in 1..a : results[k].rule \in ToSet(job.rules)
  BY <1>1, <1>3 DEF Ruled
<1>5. \A id \in ToSet(job.rules) :
         IF Stumbles(id, Features)
         THEN job.policy # "raise" /\ ~Rule[id].silent /\ ErrorOf(id, results)
         ELSE /\ Rule[id].answers = id
              /\ ~ErrorOf(id, results)
              /\ IsInjective(job.rules) => Gathered(id, results) = PlacesUpTo(id, Len(Features))
  BY <1>2 DEF Ruled
<1>6. ~Raises(Features)
  BY <1>4, <1>5 DEF Raises, RuleRaises, Stumbles
<1>7. ASSUME IsInjective(job.rules) PROVE Finished(results) = Execute(Features, 0)
  <2> DEFINE firsts == {n \in DOMAIN results : \A m \in 1..(n - 1) : results[m].rule # results[n].rule}
             s == [k \in 1..R |-> k]
  <2> HIDE DEF R, a
  <2>1. ASSUME NEW n \in 1..R PROVE n \in firsts
    <3>1. n \in 1..a /\ n \in DOMAIN results
      BY <1>1, <1>3, <1>4
    <3>2. ASSUME NEW m \in 1..(n - 1) PROVE results[m].rule # results[n].rule
      <4>1. m \in 1..R /\ m # n
        BY <1>1
      <4>2. job.rules[m] # job.rules[n]
        BY <1>1, <1>7, <4>1 DEF IsInjective
      <4> QED BY <1>4, <4>1, <4>2
    <3> QED BY <3>1, <3>2
  <2>2. ASSUME NEW n \in firsts PROVE n \in 1..R
    <3>1. n \in 1..a /\ results[n].rule \in ToSet(job.rules)
      BY <1>3, <1>4
    <3>2. PICK k \in 1..R : job.rules[k] = results[n].rule
      BY <1>1, <3>1 DEF ToSet
    <3>3. results[k].rule = results[n].rule
      BY <1>4, <3>2
    <3>4. k \notin 1..(n - 1)
      BY <3>3
    <3> QED BY <1>1, <1>3, <3>1, <3>4
  <2>3. firsts = 1..R
    <3> HIDE DEF firsts
    <3> QED BY <2>1, <2>2
  <2>4. IsFiniteSet(1..R) /\ Cardinality(1..R) = R /\ 1..R \in SUBSET Nat
    <3>1. IsFiniteSet(1..R) /\ Cardinality(1..R) = R
      BY <1>1, FS_Interval
    <3>2. 1..R \in SUBSET Nat
      BY <1>1
    <3> QED BY <3>1, <3>2
  <2>5. \A n \in 1..R : Listed(1..R)[n] = n
    <3>1. Lists(s, 1..R) /\ Len(s) = R
      <4>1. s \in Seq(Nat) /\ Len(s) = R /\ DOMAIN s = 1..R
        BY <1>1
      <4>2. \A k \in 1..R : s[k] = k
        OBVIOUS
      <4> HIDE DEF s
      <4> QED BY <1>1, <4>1, <4>2 DEF Lists
    <3>2. Lists(Listed(1..R), 1..R)
      BY <2>4, ListedLists
    <3>3. \A k \in 1..R : s[k] = k
      OBVIOUS
    <3> HIDE DEF s
    <3>4. \A k \in 1..R : s[k] = Listed(1..R)[k]
      BY <2>4, <3>1, <3>2, SameListing
    <3> QED BY <3>3, <3>4
  <2>6. ASSUME NEW id \in ToSet(job.rules) PROVE Merge(id, results) = RuleResult(id, Features, 0)
    <3> DEFINE p == PlacesUpTo(id, Len(Features))
    <3>1. RuleResult(id, Features, 0) =
            IF Stumbles(id, Features) THEN [rule |-> id, status |-> "error", findings |-> <<>>]
            ELSE [rule |-> id, status |-> IF p = <<>> THEN "passed" ELSE "failed", findings |-> p]
      BY WholeResult
    <3>2. IF Stumbles(id, Features) THEN ErrorOf(id, results)
          ELSE ~ErrorOf(id, results) /\ Gathered(id, results) = p
      BY <1>5, <1>7
    <3> HIDE DEF p
    <3>3. Merge(id, results) =
            IF ErrorOf(id, results) THEN [rule |-> id, status |-> "error", findings |-> <<>>]
            ELSE [rule |-> id, status |-> IF Gathered(id, results) = <<>> THEN "passed" ELSE "failed",
                  findings |-> Gathered(id, results)]
      BY DEF Merge, ErrorOf
    <3> QED BY <3>1, <3>2, <3>3
  <2>7. Finished(results) = [n \in 1..Cardinality(firsts) |-> Merge(results[Listed(firsts)[n]].rule, results)]
    BY DEF Finished
  <2> HIDE DEF firsts, s
  <2>8. Finished(results) = [n \in 1..R |-> Merge(results[Listed(1..R)[n]].rule, results)]
    BY <2>3, <2>4, <2>7
  <2>9. ASSUME NEW n \in 1..R
        PROVE  Merge(results[Listed(1..R)[n]].rule, results) = RuleResult(job.rules[n], Features, 0)
    <3>1. results[Listed(1..R)[n]].rule = job.rules[n]
      BY <1>4, <2>5
    <3>2. job.rules[n] \in ToSet(job.rules)
      BY <1>1 DEF ToSet
    <3> QED BY <2>6, <3>1, <3>2
  <2>10. Execute(Features, 0) = [n \in 1..R |-> RuleResult(job.rules[n], Features, 0)]
    BY <1>1 DEF Execute
  <2> QED BY <2>8, <2>9, <2>10
<1> QED BY <1>6, <1>7

\* A chunk for which a rule raised.
LEMMA RaisedExplained ==
    ASSUME job \in Jobs, NEW m \in 0..Len(Features), NEW n, NEW batch, ChunkAt(batch, m, n), Raises(batch)
    PROVE  Raises(Features) \/ Masked
<1>1. CASE ~(ToSet(job.rules) \subseteq DOMAIN Rule)
  BY <1>1 DEF Raises
<1>2. CASE \E id \in ToSet(job.rules) : RuleRaises(id, batch)
  <2>1. PICK id \in ToSet(job.rules) : RuleRaises(id, batch)
    BY <1>2
  <2>2. Stumbles(id, batch) => Stumbles(id, Features)
    BY StumblesIn
  <2>3. CASE Stumbles(id, batch)
    <3>1. job.policy = "raise" \/ Rule[id].silent
      BY <2>1, <2>3 DEF RuleRaises, Stumbles
    <3>2. RuleRaises(id, Features)
      BY <2>2, <2>3, <3>1 DEF RuleRaises, Stumbles
    <3> QED BY <3>2 DEF Raises
  <2>4. CASE ~Stumbles(id, batch)
    <3>1. Rule[id].answers # id
      BY <2>1, <2>4 DEF RuleRaises, Stumbles
    <3>2. CASE Stumbles(id, Features)
      BY <3>1, <3>2 DEF Masked, Stumbles
    <3>3. CASE ~Stumbles(id, Features)
      <4>1. RuleRaises(id, Features)
        BY <3>1, <3>3 DEF RuleRaises, Stumbles
      <4> QED BY <4>1 DEF Raises
    <3> QED BY <3>2, <3>3
  <2> QED BY <2>3, <2>4
<1> QED BY <1>1, <1>2 DEF Raises

(***************************************************************************)
(* The streams                                                             *)
(***************************************************************************)
GeometryJob == job.consumer \in {"geometry", "automatic"}

\* Where a stream stands: what it has collected is what an audit of the features
\* it has read reports.
Streamed ==
    /\ Served
    /\ phase = "rule raised" => Raises(Features) \/ Masked
    /\ GeometryJob =>
           /\ phase \in {"profile", "memory", "inspect", "stream"}
           /\ exit = None => collected = AuditedUpTo(offset)
           /\ exit = "ok" /\ (phase = "memory" => Unfiltered) => collected = AuditOf(Features)
    /\ job.consumer = "rules" =>
           /\ phase \in {"inspect", "stream", "rule raised"}
           /\ exit = None => Ruled(collected, offset) /\ (chunks => offset > 0)
           /\ exit = "ok" => ~Raises(Features) /\ (IsInjective(job.rules) => collected = Execute(Features, 0))

\* What only the job decides.
LEMMA JobDecides ==
    ASSUME job' = job
    PROVE  /\ Features' = Features /\ AuditOf(Features)' = AuditOf(Features) /\ Unfiltered' = Unfiltered
           /\ Masked' = Masked /\ GeometryJob' = GeometryJob
           /\ Raises(Features)' = Raises(Features) /\ Execute(Features, 0)' = Execute(Features, 0)
           /\ Served' <=> job \in Jobs /\ offset' \in 0..Len(Features)
           /\ Ruled(collected, offset)' <=> Ruled(collected', offset')
           /\ AuditedUpTo(offset)' = AuditedUpTo(offset')
<1>1. Features' = Features
  BY DEF Features
<1>2. AuditOf(Features)' = AuditOf(Features) /\ Unfiltered' = Unfiltered
  BY <1>1 DEF AuditOf, IssueTypes, Unfiltered
<1>3. Masked' = Masked /\ GeometryJob' = GeometryJob
  BY <1>1 DEF Masked, GeometryJob
<1>4. Raises(Features)' = Raises(Features)
  BY <1>1 DEF Raises, RuleRaises
<1>5. Execute(Features, 0)' = Execute(Features, 0)
  BY <1>1 DEF Execute
<1>6. Served' <=> job \in Jobs /\ offset' \in 0..Len(Features)
  BY <1>1 DEF Served
<1>7. Ruled(collected, offset)' <=> Ruled(collected', offset')
  BY <1>1 DEF Ruled, Begin, PlacesUpTo, FoundBy
<1>8. AuditedUpTo(offset)' = AuditedUpTo(offset')
  BY <1>1 DEF AuditedUpTo, IssueTypes, Begin, FindingsUpTo, FindingOf, Kept
<1> QED BY <1>1, <1>2, <1>3, <1>4, <1>5, <1>6, <1>7, <1>8

LEMMA StreamedInit ==
    ASSUME job \in Jobs, StreamIdle, exit = None
    PROVE  Streamed
<1>1. Served /\ offset = 0 /\ chunks = FALSE
  BY JobSound DEF Served, StreamIdle
<1>2. phase # "rule raised"
  BY DEF StreamIdle
<1>3. exit # "ok"
  BY NoneAssumption
<1>4. ASSUME GeometryJob
      PROVE  phase \in {"profile", "memory", "inspect", "stream"} /\ collected = AuditedUpTo(0)
  <2>1. phase \in {"profile", "inspect"} /\ collected = NothingFound
    BY <1>4 DEF GeometryJob, StreamIdle, Empty
  <2> QED BY <2>1, FirstAudited
<1>5. ASSUME job.consumer = "rules"
      PROVE  phase = "inspect" /\ Ruled(collected, 0)
  <2>1. phase = "inspect" /\ collected = <<>>
    BY <1>5 DEF StreamIdle, Empty
  <2> QED BY <2>1, NothingRuled
<1> QED BY <1>1, <1>2, <1>3, <1>4, <1>5 DEF Streamed

LEMMA StreamedUnchanged ==
    ASSUME Streamed, UNCHANGED <<job, offset, chunks, collected>>,
           phase' = phase \/ (exit = None /\ phase' \in {"inspect", "memory", "stream"}),
           job.consumer = "rules" => phase' \in {"inspect", "stream", "rule raised"},
           exit' = exit \/ exit' \in {"error", "killed"}
    PROVE  Streamed'
<1>1. /\ Features' = Features /\ AuditOf(Features)' = AuditOf(Features) /\ Unfiltered' = Unfiltered
      /\ Masked' = Masked /\ GeometryJob' = GeometryJob
      /\ Raises(Features)' = Raises(Features) /\ Execute(Features, 0)' = Execute(Features, 0)
      /\ Served' <=> job \in Jobs /\ offset' \in 0..Len(Features)
      /\ Ruled(collected, offset)' <=> Ruled(collected', offset')
      /\ AuditedUpTo(offset)' = AuditedUpTo(offset')
  BY JobDecides
<1>2. Served' /\ (Ruled(collected, offset)' <=> Ruled(collected, offset)) /\ AuditedUpTo(offset)' = AuditedUpTo(offset)
  BY <1>1 DEF Streamed, Served
<1>3. exit' = None => exit = None
  BY NoneAssumption
<1>4. exit' = "ok" => exit = "ok" /\ phase' = phase
  BY NoneAssumption
<1>5. phase' = "rule raised" => Raises(Features) \/ Masked
  BY DEF Streamed
<1>6. ASSUME GeometryJob
      PROVE  /\ phase' \in {"profile", "memory", "inspect", "stream"}
             /\ exit' = None => collected' = AuditedUpTo(offset)
             /\ exit' = "ok" /\ (phase' = "memory" => Unfiltered) => collected' = AuditOf(Features)
  BY <1>3, <1>4, <1>6 DEF Streamed
<1>7. ASSUME job.consumer = "rules"
      PROVE  /\ phase' \in {"inspect", "stream", "rule raised"}
             /\ exit' = None => Ruled(collected, offset) /\ (chunks' => offset' > 0)
             /\ exit' = "ok" => ~Raises(Features) /\ (IsInjective(job.rules) => collected' = Execute(Features, 0))
  BY <1>3, <1>4, <1>7 DEF Streamed
<1> QED BY <1>1, <1>2, <1>5, <1>6, <1>7 DEF Streamed

\* A chunk more, of a geometry audit or of the rules.
LEMMA AuditChunkKeeps ==
    ASSUME Streamed, AuditChunk
    PROVE  Streamed'
<1>1. /\ Running /\ phase = "stream" /\ job.consumer # "rules"
      /\ job' = job /\ phase' = phase /\ exit' = exit
  BY DEF AuditChunk, In, fileVars
<1>2. PICK n \in 1..ChunkSize :
         Chunk(n) /\ collected' = Merged(collected, ChunkResult(SubSeq(Rest, 1, n), offset))
  BY DEF AuditChunk
<1> DEFINE batch == SubSeq(Rest, 1, n)
<1>3. /\ job \in Jobs /\ offset \in 0..Len(Features) /\ offset + n <= Len(Features) /\ offset' = offset + n
      /\ ChunkAt(batch, offset, n) /\ n \in Nat /\ Len(Features) \in Nat
  <2>1. Served
    BY DEF Streamed
  <2>2. /\ offset + n <= Len(Features) /\ offset' = offset + n
        /\ Len(batch) = n /\ DOMAIN batch = 1..n /\ \A k \in 1..n : batch[k] = Features[offset + k]
    BY <1>2, <2>1, NextChunk
  <2>3. n \in Nat
    BY LimitAssumption
  <2> HIDE DEF batch
  <2> QED BY <2>1, <2>2, <2>3, JobSound DEF Served, ChunkAt
<1> HIDE DEF batch
<1>4. GeometryJob => collected' = AuditedUpTo(offset')
  <2> SUFFICES ASSUME GeometryJob PROVE collected' = AuditedUpTo(offset')
    OBVIOUS
  <2>1. collected = AuditedUpTo(offset)
    BY <1>1 DEF Streamed, Running
  <2>2. Merged(AuditedUpTo(offset), ChunkResult(batch, offset)) = AuditedUpTo(offset + n)
    BY <1>3, ChunkAudit
  <2>3. collected' = AuditedUpTo(offset + n)
    BY <1>2, <2>1, <2>2 DEF batch
  <2> QED BY <1>3, <2>3
<1>5. /\ Features' = Features /\ GeometryJob' = GeometryJob
      /\ Served' <=> job \in Jobs /\ offset' \in 0..Len(Features)
      /\ AuditedUpTo(offset)' = AuditedUpTo(offset')
  BY <1>1, JobDecides
<1>6. Served'
  BY <1>3, <1>5
<1>7. exit' = None /\ exit' # "ok" /\ phase' = "stream" /\ job'.consumer # "rules"
  BY <1>1, NoneAssumption DEF Running
<1> QED BY <1>4, <1>5, <1>6, <1>7 DEF Streamed

LEMMA RuleChunkKeeps ==
    ASSUME Streamed, RuleChunk
    PROVE  Streamed'
<1>1. Running /\ phase = "stream" /\ job.consumer = "rules" /\ job' = job
  BY DEF RuleChunk, In
<1>2. PICK n \in 1..ChunkSize :
         /\ Chunk(n)
         /\ IF Raises(SubSeq(Rest, 1, n))
            THEN phase' = "rule raised" /\ Leave("error") /\ UNCHANGED collected
            ELSE /\ collected' = collected \o Execute(SubSeq(Rest, 1, n), offset)
                 /\ UNCHANGED <<phase, fileVars>>
  BY DEF RuleChunk
<1> DEFINE batch == SubSeq(Rest, 1, n)
<1>3. /\ job \in Jobs /\ offset \in 0..Len(Features) /\ offset + n <= Len(Features)
      /\ offset' = offset + n /\ chunks' = TRUE
      /\ ChunkAt(batch, offset, n) /\ n \in Nat /\ n > 0 /\ Len(Features) \in Nat
  <2>1. Served
    BY DEF Streamed
  <2>2. /\ offset + n <= Len(Features) /\ offset' = offset + n /\ chunks' = TRUE
        /\ Len(batch) = n /\ DOMAIN batch = 1..n /\ \A k \in 1..n : batch[k] = Features[offset + k]
    BY <1>2, <2>1, NextChunk
  <2>3. n \in Nat /\ n > 0
    BY LimitAssumption
  <2> HIDE DEF batch
  <2> QED BY <2>1, <2>2, <2>3, JobSound DEF Served, ChunkAt
<1> HIDE DEF batch
<1>4. /\ Features' = Features /\ Masked' = Masked /\ GeometryJob' = GeometryJob
      /\ Raises(Features)' = Raises(Features)
      /\ Served' <=> job \in Jobs /\ offset' \in 0..Len(Features)
      /\ Ruled(collected, offset)' <=> Ruled(collected', offset')
  BY <1>1, JobDecides
<1>5. Served' /\ ~GeometryJob' /\ job'.consumer = "rules"
  BY <1>1, <1>3, <1>4 DEF GeometryJob
<1>6. CASE Raises(batch)
  <2>1. phase' = "rule raised" /\ exit' = "error"
    BY <1>2, <1>6 DEF batch, Leave
  <2>2. Raises(Features) \/ Masked
    BY <1>3, <1>6, RaisedExplained
  <2>3. exit' # None /\ exit' # "ok"
    BY <2>1, NoneAssumption
  <2> QED BY <1>4, <1>5, <2>1, <2>2, <2>3 DEF Streamed
<1>7. CASE ~Raises(batch)
  <2>1. collected' = collected \o Execute(batch, offset) /\ phase' = "stream" /\ exit' = exit
    BY <1>1, <1>2, <1>7 DEF batch, fileVars
  <2>2. Ruled(collected, offset)
    BY <1>1 DEF Streamed, Running
  <2>3. Ruled(collected \o Execute(batch, offset), offset + n)
    BY <1>3, <1>7, <2>2, RulesMore
  <2>4. Ruled(collected', offset')
    BY <1>3, <2>1, <2>3
  <2>5. exit' # "ok"
    BY <1>1, <2>1, NoneAssumption DEF Running
  <2>6. offset' > 0
    BY <1>3
  <2> QED BY <1>4, <1>5, <2>1, <2>4, <2>5, <2>6 DEF Streamed
<1> QED BY <1>6, <1>7

\* The end of the dataset.
LEMMA FinishKeeps ==
    ASSUME Streamed, Finish, chunks
    PROVE  Streamed'
<1>1. /\ Running /\ phase = "stream" /\ Rest = <<>> /\ exit' = "ok"
      /\ collected' = IF job.consumer = "rules" THEN Finished(collected) ELSE collected
      /\ job' = job /\ phase' = phase /\ offset' = offset
  BY DEF Finish, In, End
<1>2. Served /\ job \in Jobs /\ offset \in 0..Len(Features) /\ Len(Features) \in Nat
  BY JobSound DEF Streamed, Served
<1>3. offset = Len(Features)
  <2> DEFINE f == Features
             S == ToSet(Features)
  <2>1. f \in Seq(S) /\ Len(f) \in Nat /\ offset \in 0..Len(f)
    BY <1>2, JobSound
  <2>2. SubSeq(f, offset + 1, Len(f)) = <<>>
    BY <1>1 DEF Rest
  <2> HIDE DEF f, S
  <2>3. Len(SubSeq(f, offset + 1, Len(f))) = Len(f) - offset
    BY <2>1
  <2> DEFINE r == SubSeq(f, offset + 1, Len(f))
  <2>4. r = <<>> /\ Len(r) = Len(f) - offset
    BY <2>2, <2>3
  <2> HIDE DEF r
  <2>5. Len(r) = 0
    BY <2>4
  <2>6. offset = Len(f)
    BY <2>1, <2>4, <2>5
  <2> QED BY <2>6 DEF f
<1>4. /\ Features' = Features /\ AuditOf(Features)' = AuditOf(Features) /\ Unfiltered' = Unfiltered
      /\ Masked' = Masked /\ GeometryJob' = GeometryJob
      /\ Raises(Features)' = Raises(Features) /\ Execute(Features, 0)' = Execute(Features, 0)
      /\ Served' <=> job \in Jobs /\ offset' \in 0..Len(Features)
  BY <1>1, JobDecides
<1>5. Served' /\ exit' # None /\ phase' = "stream"
  BY <1>1, <1>2, <1>4, NoneAssumption
<1>6. ASSUME GeometryJob PROVE collected' = AuditOf(Features)
  <2>1. collected = AuditedUpTo(offset) /\ job.consumer # "rules"
    BY <1>1, <1>6 DEF Streamed, Running, GeometryJob
  <2> QED BY <1>1, <1>2, <1>3, <2>1, WholeAudit
<1>7. ASSUME job.consumer = "rules"
      PROVE  ~Raises(Features) /\ (IsInjective(job.rules) => collected' = Execute(Features, 0))
  <2>1. Ruled(collected, offset) /\ offset > 0
    BY <1>1, <1>7 DEF Streamed, Running
  <2>2. Ruled(collected, Len(Features)) /\ Len(Features) > 0
    BY <1>3, <2>1
  <2>3. ~Raises(Features) /\ (IsInjective(job.rules) => Finished(collected) = Execute(Features, 0))
    BY <1>2, <2>2, RulesFinished
  <2> QED BY <1>1, <1>7, <2>3
<1> QED BY <1>1, <1>4, <1>5, <1>6, <1>7 DEF Streamed

LEMMA InMemoryKeeps ==
    ASSUME Streamed, phase = "memory", collected' = AuditOf(job.rows), exit' = "ok",
           UNCHANGED <<job, phase, offset, chunks>>
    PROVE  Streamed'
<1>1. /\ Features' = Features /\ AuditOf(Features)' = AuditOf(Features) /\ Unfiltered' = Unfiltered /\ GeometryJob' = GeometryJob
      /\ Served' <=> job \in Jobs /\ offset' \in 0..Len(Features)
  BY JobDecides
<1>2. Served' /\ exit' # None /\ job.consumer # "rules"
  BY <1>1, NoneAssumption DEF Streamed, Served
<1>3. Unfiltered => collected' = AuditOf(Features)
  BY DEF Unfiltered
<1> QED BY <1>1, <1>2, <1>3 DEF Streamed

LEMMA OthersKeep ==
    ASSUME Streamed, ~GeometryJob, job.consumer # "rules", job' = job, offset' \in 0..Len(Features),
           phase' # "rule raised"
    PROVE  Streamed'
<1>1. /\ GeometryJob' = GeometryJob
      /\ Served' <=> job \in Jobs /\ offset' \in 0..Len(Features)
  BY JobDecides
<1> QED BY <1>1 DEF Streamed, Served

LEMMA WriterSteps ==
    ASSUME Streamed,
           OpenOutput \/ WriteChunk \/ SkipChunk \/ WriterFails \/ CloseWriter \/ NothingToWrite
             \/ PublishParquet \/ ReturnResult \/ WriterKilled
    PROVE  Streamed'
<1> DEFINE away == {"open", "copy", "replace", "stat"}
<1>0. Served /\ Len(Features) \in Nat
  BY JobSound DEF Streamed, Served
<1>1. /\ phase \in away /\ phase' \in away /\ job' = job
      /\ offset' = offset \/ \E n \in 1..ChunkSize : Chunk(n)
  <2>1. CASE OpenOutput
    BY <2>1 DEF OpenOutput, In
  <2>2. CASE WriteChunk
    BY <2>2 DEF WriteChunk, In
  <2>3. CASE SkipChunk
    BY <2>3 DEF SkipChunk, In
  <2>4. CASE WriterFails \/ NothingToWrite \/ ReturnResult \/ WriterKilled
    BY <2>4 DEF WriterFails, NothingToWrite, ReturnResult, WriterKilled, In, streamVars
  <2>5. CASE CloseWriter
    BY <2>5 DEF CloseWriter, In
  <2>6. CASE PublishParquet
    BY <2>6 DEF PublishParquet, In
  <2> QED BY <2>1, <2>2, <2>3, <2>4, <2>5, <2>6
<1>2. offset' \in 0..Len(Features)
  <2>1. CASE offset' = offset
    BY <1>0, <2>1 DEF Served
  <2>2. CASE \E n \in 1..ChunkSize : Chunk(n)
    <3>1. PICK n \in 1..ChunkSize : Chunk(n)
      BY <2>2
    <3>2. offset + n <= Len(Features) /\ offset' = offset + n
      BY <1>0, <3>1, NextChunk
    <3>3. offset \in Nat /\ n \in Nat
      BY <1>0, LimitAssumption DEF Served
    <3> QED BY <1>0, <3>2, <3>3
  <2> QED BY <1>1, <2>1, <2>2
<1>3. ~GeometryJob /\ job.consumer # "rules" /\ phase' # "rule raised"
  BY <1>1 DEF Streamed
<1> QED BY <1>1, <1>2, <1>3, OthersKeep

LEMMA StreamedStep ==
    ASSUME Streamed, StreamNext
    PROVE  Streamed'
<1>1. CASE Profile
  <2>1. /\ phase = "profile" /\ phase' \in {"inspect", "memory"} /\ exit' = exit /\ exit = None
        /\ UNCHANGED <<job, offset, chunks, collected>>
    BY <1>1 DEF Profile, In, Running, fileVars
  <2>2. job.consumer # "rules"
    BY <2>1 DEF Streamed
  <2> QED BY <2>1, <2>2, StreamedUnchanged
<1>2. CASE AuditInMemory
  <2>1. CASE \E k \in DOMAIN job.rows : Unparsable(job.rows[k])
    <3>1. exit' = "error" /\ UNCHANGED <<job, phase, offset, chunks, collected>>
      BY <1>2, <2>1 DEF AuditInMemory, Leave, streamVars
    <3>2. job.consumer = "rules" => phase' \in {"inspect", "stream", "rule raised"}
      BY <3>1 DEF Streamed
    <3> QED BY <3>1, <3>2, StreamedUnchanged
  <2>2. CASE ~\E k \in DOMAIN job.rows : Unparsable(job.rows[k])
    <3>1. phase = "memory" /\ collected' = AuditOf(job.rows) /\ exit' = "ok" /\ UNCHANGED <<job, phase, offset, chunks>>
      BY <1>2, <2>2 DEF AuditInMemory, In, End
    <3> QED BY <3>1, InMemoryKeeps
  <2> QED BY <2>1, <2>2
<1>3. CASE Inspect
  <2>1. /\ phase = "inspect" /\ exit = None /\ UNCHANGED <<job, offset, chunks, collected>>
        /\ \/ exit' = "error" /\ phase' = phase
           \/ phase' = "stream" /\ exit' = exit
    BY <1>3 DEF Inspect, In, Running, Leave, fileVars
  <2> QED BY <2>1, StreamedUnchanged
<1>4. CASE ReadFails
  <2>1. exit' = "error" /\ UNCHANGED <<job, phase, offset, chunks, collected>>
    BY <1>4 DEF ReadFails, Leave, streamVars
  <2>2. job.consumer = "rules" => phase' \in {"inspect", "stream", "rule raised"}
    BY <2>1 DEF Streamed
  <2> QED BY <2>1, <2>2, StreamedUnchanged
<1>5. CASE AuditChunk
  BY <1>5, AuditChunkKeeps
<1>6. CASE RuleChunk
  BY <1>6, RuleChunkKeeps
<1>7. CASE Finish
  <2>1. CASE chunks
    BY <1>7, <2>1, FinishKeeps
  <2>2. CASE ~chunks
    <3>1. phase = "stream" /\ exit' = "error" /\ UNCHANGED <<job, phase, offset, chunks, collected>>
      BY <1>7, <2>2 DEF Finish, In, Leave
    <3> QED BY <3>1, StreamedUnchanged
  <2> QED BY <2>1, <2>2
<1>8. CASE OpenOutput \/ WriteChunk \/ SkipChunk \/ WriterFails \/ CloseWriter \/ NothingToWrite
             \/ PublishParquet \/ ReturnResult \/ WriterKilled
  BY <1>8, WriterSteps
<1> QED BY <1>1, <1>2, <1>3, <1>4, <1>5, <1>6, <1>7, <1>8 DEF StreamNext

\* However a dataset is cut into chunks, and whichever engine is chosen, an audit
\* that ends reports what one loop over the dataset reports, and the rules answer
\* what they answer of the dataset as one chunk.
THEOREM ChunksAlwaysAgree == Spec => [](program = "stream" => ChunksAgree)
<1>1. Init => (program = "stream" => Streamed)
  BY StreamedInit DEF Init, FileInit
<1>2. (program = "stream" => Streamed) /\ [Next]_pipeVars => (program = "stream" => Streamed)'
  <2> SUFFICES ASSUME program = "stream" => Streamed, [Next]_pipeVars, program' = "stream" PROVE Streamed'
    OBVIOUS
  <2>1. CASE Streaming
    BY <2>1, StreamedStep DEF Streaming
  <2>2. CASE Roads \/ Connecting \/ Analysing
    BY <2>2 DEF Roads, Connecting, Analysing
  <2>3. CASE UNCHANGED pipeVars
    <3>1. program = "stream" /\ UNCHANGED <<job, phase, offset, chunks, collected, exit>>
      BY <2>3 DEF pipeVars, streamVars, fileVars
    <3>2. job.consumer = "rules" => phase' \in {"inspect", "stream", "rule raised"}
      BY <3>1 DEF Streamed
    <3> QED BY <3>1, <3>2, StreamedUnchanged
  <2> QED BY <2>1, <2>2, <2>3 DEF Next
<1>3. (program = "stream" => Streamed) => (program = "stream" => ChunksAgree)
  BY DEF Streamed, ChunksAgree, GeometryJob
<1> QED BY <1>1, <1>2, <1>3, PTL DEF Spec
=============================================================================
