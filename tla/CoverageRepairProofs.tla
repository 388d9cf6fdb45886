------------------------ MODULE CoverageRepairProofs ------------------------
(***************************************************************************)
(* What one call of the repairer guarantees, for every plane, coverage and *)
(* configuration: it loses no coverage (FirstClaimKept), leaves no         *)
(* unexplained overlap (OverlapsExplained), reports what it did            *)
(* (ReportMatchesOutput) and closes the small gaps (GapsClosed).           *)
(* RepairInv, ReportInv and GapInv are inductive over Call, RepairStep and *)
(* Return; the modules of the repairer's clients cite the lemmas below for *)
(* the steps of their calls.                                               *)
(***************************************************************************)
EXTENDS CoverageRepair, SequenceTheorems, FiniteSetTheorems, WellFoundedInduction, TLAPS

FirstKept(i) ==
    \A f \in Claims(i) :
        (\A j \in 1..(i - 1) : f \notin Claims(j)) => f \in repaired[i].faces

\* While the overlap loop runs no feature has more than it claims, so what it
\* is to lose to earlier ones was claimed by them.
ClaimInv ==
    /\ phase = "intrinsic" => \A i \in Features :
           repaired[i] = IF i < at THEN AfterMending(originals[i], config) ELSE originals[i]
    /\ phase = "overlaps" => \A i \in Features : repaired[i].faces \subseteq Claims(i)
    /\ phase \notin {"idle", "intrinsic"} => \A i \in Features : FirstKept(i)

\* The features the loop has placed are disjoint; fills add overlap only in the
\* holes found, and the last loop only where it puts an original back.
DisjointInv ==
    /\ phase = "overlaps" =>
           \A i, j \in Features : i # j /\ i < at /\ j < at => Overlaps(i, j) = {}
    /\ phase \in {"gaps", "filling", "safety", "done"} /\ config.resolve =>
           \A i, j \in Features : i # j =>
               failed[i] \/ failed[j] \/ Overlaps(i, j) \subseteq UNION holes

Running == phase \notin {"idle", "done"}

CallInv ==
    /\ phase # "idle" => config \in RepairConfigs
    /\ Running => originals # <<>>
    /\ phase \in {"intrinsic", "overlaps", "gaps"} => holes = {}

RepairInv == RepairTypeOK /\ CallInv /\ ClaimInv /\ DisjointInv

-----------------------------------------------------------------------------

\* A part of a set of places lies in it.
LEMMA PartsInside ==
    ASSUME NEW S \in SUBSET Places, NEW P \in Parts[S]
    PROVE  P \subseteq S
BY DEF Parts

\* A ring encloses faces only.
LEMMA HolesAreFaces ==
    ASSUME NEW S \in SUBSET Faces
    PROVE  HolesIn[S] \subseteq SUBSET Faces
<1>1. ASSUME NEW H \in HolesIn[S] PROVE H \subseteq Faces
  <2>1. PICK P \in Parts[S] : H \in Parts[Places \ P]
    BY <1>1 DEF HolesIn
  <2>2. H \subseteq Places
    BY <2>1, PartsInside
  <2>3. Outside \notin H
    BY <1>1 DEF HolesIn
  <2>. QED
    BY <2>2, <2>3 DEF Places
<1>. QED
  BY <1>1

\* Mending keeps a geometry a geometry and adds no face to it.
LEMMA MendingShrinks ==
    ASSUME NEW g \in Geometries, NEW cfg \in RepairConfigs
    PROVE  /\ AfterMending(g, cfg) \in Geometries
           /\ AfterMending(g, cfg).faces \subseteq g.faces
<1>. DEFINE m == Mended(g, cfg)
<1>1. m \in Geometries /\ m.faces = g.faces
  BY DEF Mended, Geometries, Kinds
<1>2. Solid(m) \subseteq m.faces
  BY <1>1, PartsInside DEF Solid, Geometries, Places
<1>3. Intrinsic(g, cfg) \in Geometries /\ Intrinsic(g, cfg).faces \subseteq m.faces
  <2>. HIDE DEF m
  <2>1. CASE DropsSlivers(m, cfg)
    <3>1. Intrinsic(g, cfg) = [m EXCEPT !.faces = Solid(m)]
      BY <2>1 DEF Intrinsic, m
    <3>. QED
      BY <3>1, <1>1, <1>2 DEF Geometries
  <2>2. CASE ~DropsSlivers(m, cfg)
    BY <2>2, <1>1 DEF Intrinsic, m
  <2>. QED
    BY <2>1, <2>2
<1>. QED
  BY <1>1, <1>3 DEF AfterMending

\* A geometry that is not polygonal covers no face.
LEMMA NonPolygonalIsBare ==
    ASSUME NEW g \in Geometries, ~IsPolygonal(g)
    PROVE  g.faces = {}
BY DEF Geometries, IsPolygonal, IsEmpty

-----------------------------------------------------------------------------

LEMMA InitInv == RepairInit => RepairInv
<1>. SUFFICES ASSUME RepairInit PROVE RepairInv
  OBVIOUS
<1>1. RepairTypeOK
  BY DEF RepairInit, RepairTypeOK, Features
<1>2. CallInv /\ ClaimInv /\ DisjointInv
  BY DEF RepairInit, CallInv, ClaimInv, DisjointInv, Running
<1>. QED
  BY <1>1, <1>2 DEF RepairInv

LEMMA ReturnInv == Return => RepairInv'
<1>. SUFFICES ASSUME Return PROVE RepairInv'
  OBVIOUS
<1>1. RepairTypeOK'
  BY DEF Return, RepairTypeOK, Features
<1>2. CallInv' /\ ClaimInv' /\ DisjointInv'
  BY DEF Return, CallInv, ClaimInv, DisjointInv, Running
<1>. QED
  BY <1>1, <1>2 DEF RepairInv

LEMMA CallKeepsInv ==
    ASSUME NEW coverage \in Seq(Geometries), NEW cfg \in RepairConfigs, Call(coverage, cfg)
    PROVE  RepairInv'
<1>1. RepairTypeOK'
  BY DEF Call, RepairTypeOK, Features
<1>2. CallInv'
  BY DEF Call, CallInv, Running
<1>3. ClaimInv'
  <2>1. CASE coverage = <<>>
    BY <2>1 DEF Call, ClaimInv, Features
  <2>2. CASE coverage # <<>>
    BY <2>2 DEF Call, ClaimInv, Features
  <2>. QED
    BY <2>1, <2>2
<1>4. DisjointInv'
  BY DEF Call, DisjointInv, Features
<1>. QED
  BY <1>1, <1>2, <1>3, <1>4 DEF RepairInv

-----------------------------------------------------------------------------

\* Types for the step lemmas: the bodies of the loops read a feature there is.
LEMMA TypesHelp ==
    ASSUME RepairInv, Running
    PROVE  /\ config \in RepairConfigs
           /\ Len(originals) \in Nat \ {0}
           /\ at \in Features
           /\ originals \in [Features -> Geometries]
           /\ \A i \in Features : AfterMending(originals[i], config) \in Geometries
           /\ \A i \in Features : Claims(i) \subseteq originals[i].faces
<1>1. config \in RepairConfigs /\ Len(originals) \in Nat \ {0} /\ originals \in [Features -> Geometries]
  BY EmptySeq DEF RepairInv, RepairTypeOK, CallInv, Running, Features
<1>2. at \in Features
  BY <1>1 DEF RepairInv, RepairTypeOK, Features
<1>3. \A i \in Features : /\ AfterMending(originals[i], config) \in Geometries
                          /\ Claims(i) \subseteq originals[i].faces
  BY <1>1, MendingShrinks DEF Claims
<1>. QED
  BY <1>1, <1>2, <1>3

LEMMA RepairFeatureInv == RepairInv /\ RepairFeature => RepairInv'
<1>. SUFFICES ASSUME RepairInv, RepairFeature PROVE RepairInv'
  OBVIOUS
<1>. Running
  BY DEF RepairFeature, Running
<1>. USE TypesHelp
<1>1. /\ originals' = originals /\ config' = config /\ Features' = Features
      /\ holes' = holes /\ pending' = pending
      /\ phase = "intrinsic" /\ phase' \in {"intrinsic", "overlaps", "gaps", "safety"}
      /\ at' \in Features
      /\ phase' = "intrinsic" => at' = at + 1
      /\ phase' # "intrinsic" => at = Len(originals) /\ at' = 1
  BY DEF RepairFeature, Features, Advance, AfterIntrinsic, AfterOverlaps, RepairInv, RepairTypeOK
<1>2. repaired' = [repaired EXCEPT ![at] = AfterMending(originals[at], config)]
  BY DEF RepairFeature
<1>3. RepairTypeOK'
  <2>1. repaired' \in [Features -> Geometries]
    BY <1>2 DEF RepairInv, RepairTypeOK
  <2>2. actions' \in [Features -> SUBSET Issues]
    BY DEF RepairFeature, RepairInv, RepairTypeOK, IntrinsicActions
  <2>3. failed' \in [Features -> BOOLEAN]
    <3>1. MendingFails(originals[at], config) \in BOOLEAN
      BY DEF MendingFails, MendRaises, SafetyFailure, OverBudget
    <3>. QED
      BY <3>1 DEF RepairFeature, RepairInv, RepairTypeOK
  <2>. QED
    BY <1>1, <2>1, <2>2, <2>3 DEF RepairInv, RepairTypeOK, Features
<1>4. CallInv'
  BY <1>1 DEF RepairInv, CallInv, Running
<1>5. \A i \in Features : repaired'[i] =
          IF i <= at THEN AfterMending(originals[i], config) ELSE originals[i]
  <2>1. \A i \in Features : repaired[i] =
            IF i < at THEN AfterMending(originals[i], config) ELSE originals[i]
    BY <1>1 DEF RepairInv, ClaimInv
  <2>2. repaired \in [Features -> Geometries]
    BY DEF RepairInv, RepairTypeOK
  <2>3. \A i \in Features : i # at => repaired'[i] = repaired[i]
    BY <1>2, <2>2
  <2>4. repaired'[at] = AfterMending(originals[at], config)
    BY <1>2, <2>2
  <2>5. \A i \in Features : i \in Int /\ at \in Int
    BY DEF Features
  <2>. QED
    BY <2>1, <2>3, <2>4, <2>5
<1>6. ClaimInv'
  <2>1. CASE phase' = "intrinsic"
    BY <2>1, <1>1, <1>5 DEF ClaimInv, Features
  <2>2. CASE phase' # "intrinsic"
    <3>1. \A i \in Features : repaired'[i] = AfterMending(originals[i], config)
      BY <2>2, <1>1, <1>5 DEF Features
    <3>. QED
      BY <2>2, <3>1, <1>1 DEF ClaimInv, FirstKept, Claims
  <2>. QED
    BY <2>1, <2>2
<1>7. DisjointInv'
  <2>1. CASE phase' = "intrinsic"
    BY <2>1 DEF DisjointInv
  <2>2. CASE phase' = "overlaps"
    BY <2>2, <1>1 DEF DisjointInv, Features
  <2>3. CASE phase' \in {"gaps", "safety"}
    <3>1. config.resolve = FALSE
      BY <2>3, <1>1 DEF RepairFeature, Advance, AfterIntrinsic, RepairConfigs
    <3>. QED
      BY <2>3, <3>1, <1>1 DEF DisjointInv
  <2>. QED
    BY <1>1, <2>1, <2>2, <2>3
<1>. QED
  BY <1>3, <1>4, <1>6, <1>7 DEF RepairInv

LEMMA EraseOverlapInv == RepairInv /\ EraseOverlap => RepairInv'
<1>. SUFFICES ASSUME RepairInv, EraseOverlap PROVE RepairInv'
  OBVIOUS
<1>. Running
  BY DEF EraseOverlap, Running
<1>. USE TypesHelp
<1>1. /\ originals' = originals /\ config' = config /\ Features' = Features
      /\ holes' = holes /\ pending' = pending /\ failed' = failed
      /\ phase = "overlaps" /\ phase' \in {"overlaps", "gaps", "safety"}
      /\ at' \in Features
      /\ phase' = "overlaps" => at' = at + 1
      /\ phase' # "overlaps" => at = Len(originals) /\ at' = 1
  BY DEF EraseOverlap, Features, Advance, AfterOverlaps, RepairInv, RepairTypeOK
<1>2. Erased(at) \subseteq repaired[at].faces /\ Erased(at) \in SUBSET Faces
  BY DEF Erased, RepairInv, RepairTypeOK, Geometries
<1>3. /\ repaired' \in [Features -> Geometries]
      /\ actions' \in [Features -> SUBSET Issues]
      /\ \A i \in Features : i # at => repaired'[i] = repaired[i]
      /\ repaired'[at].faces = Erased(at) \/ (repaired'[at].faces = {} /\ repaired[at].faces = {})
  <2>1. CASE IsPolygonal(repaired[at]) /\ Erased(at) # repaired[at].faces
    <3>1. [faces |-> Erased(at), kind |-> "polygon"] \in Geometries
      BY <1>2 DEF Geometries, Kinds
    <3>2. repaired' = [repaired EXCEPT ![at] = [faces |-> Erased(at), kind |-> "polygon"]]
      BY <2>1 DEF EraseOverlap
    <3>3. actions' = [actions EXCEPT ![at] = actions[at] \cup {"overlap"}]
      BY <2>1 DEF EraseOverlap
    <3>4. repaired \in [Features -> Geometries] /\ actions \in [Features -> SUBSET Issues]
      BY DEF RepairInv, RepairTypeOK
    <3>5. actions' \in [Features -> SUBSET Issues]
      BY <3>3, <3>4 DEF Issues
    <3>. QED
      BY <3>1, <3>2, <3>4, <3>5
  <2>2. CASE ~IsPolygonal(repaired[at])
    BY <2>2, NonPolygonalIsBare DEF EraseOverlap, RepairInv, RepairTypeOK
  <2>3. CASE IsPolygonal(repaired[at]) /\ Erased(at) = repaired[at].faces
    BY <2>3 DEF EraseOverlap, RepairInv, RepairTypeOK
  <2>. QED
    BY <2>1, <2>2, <2>3
<1>4. RepairTypeOK'
  BY <1>1, <1>3 DEF RepairInv, RepairTypeOK, Features
<1>5. CallInv'
  BY <1>1 DEF RepairInv, CallInv, Running
<1>6. ClaimInv'
  <2>1. \A i \in Features : repaired'[i].faces \subseteq Claims(i)
    BY <1>1, <1>2, <1>3 DEF RepairInv, ClaimInv
  <2>2. ASSUME NEW f \in Claims(at), \A j \in 1..(at - 1) : f \notin Claims(j)
        PROVE  f \in repaired'[at].faces
    <3>1. f \in repaired[at].faces
      BY <2>2, <1>1 DEF RepairInv, ClaimInv, FirstKept
    <3>2. \A k \in 1..(at - 1) : k \in Features /\ repaired[k].faces \subseteq Claims(k)
      BY <1>1 DEF RepairInv, ClaimInv, Features
    <3>3. f \notin Covered(PlacedIn(at - 1))
      BY <2>2, <3>2 DEF Covered, PlacedIn
    <3>. QED
      BY <3>1, <3>3, <1>3 DEF Erased
  <2>3. \A i \in Features : FirstKept(i)'
    <3>1. \A i \in Features : Claims(i)' = Claims(i)
      BY <1>1 DEF Claims
    <3>2. ASSUME NEW i \in Features PROVE FirstKept(i)'
      <4>1. CASE i # at
        BY <4>1, <3>1, <1>1, <1>3 DEF RepairInv, ClaimInv, FirstKept, Features
      <4>2. CASE i = at
        BY <4>2, <3>1, <2>2, <1>1 DEF FirstKept, Features
      <4>. QED
        BY <4>1, <4>2
    <3>. QED
      BY <3>2, <1>1
  <2>. QED
    BY <1>1, <2>1, <2>3 DEF ClaimInv, Claims
<1>7. DisjointInv'
  <2>1. ASSUME NEW i \in Features, NEW j \in Features, i < j, j <= at
        PROVE  repaired'[i].faces \cap repaired'[j].faces = {}
    <3>1. CASE j < at
      BY <2>1, <3>1, <1>1, <1>3 DEF RepairInv, DisjointInv, Overlaps, Features
    <3>2. CASE j = at
      <4>1. i \in 1..(at - 1) /\ repaired'[i] = repaired[i]
        BY <2>1, <3>2, <1>3 DEF Features
      <4>2. CASE IsPolygonal(repaired[i])
        <5>1. repaired[i].faces \subseteq Covered(PlacedIn(at - 1))
          BY <4>1, <4>2 DEF Covered, PlacedIn
        <5>. QED
          BY <5>1, <4>1, <3>2, <1>3 DEF Erased
      <4>3. CASE ~IsPolygonal(repaired[i])
        BY <4>1, <4>3, NonPolygonalIsBare DEF RepairInv, RepairTypeOK
      <4>. QED
        BY <4>2, <4>3
    <3>. QED
      BY <2>1, <3>1, <3>2 DEF Features
  <2>2. ASSUME NEW i \in Features, NEW j \in Features, i # j, i <= at, j <= at
        PROVE  repaired'[i].faces \cap repaired'[j].faces = {}
    BY <2>1, <2>2 DEF Features
  <2>3. CASE phase' = "overlaps"
    BY <2>2, <2>3, <1>1 DEF DisjointInv, Overlaps, Features
  <2>4. CASE phase' # "overlaps"
    BY <2>2, <2>4, <1>1 DEF DisjointInv, Overlaps, Features
  <2>. QED
    BY <2>3, <2>4
<1>. QED
  BY <1>4, <1>5, <1>6, <1>7 DEF RepairInv

LEMMA FindHolesInv == RepairInv /\ FindHoles => RepairInv'
<1>. SUFFICES ASSUME RepairInv, FindHoles PROVE RepairInv'
  OBVIOUS
<1>. Running
  BY DEF FindHoles, Running
<1>. USE TypesHelp
<1>1. /\ phase = "gaps" /\ phase' \in {"safety", "filling"}
      /\ originals' = originals /\ config' = config /\ Features' = Features /\ at' = at
      /\ repaired' = repaired /\ actions' = actions /\ failed' = failed
      /\ pending' = holes'
  BY DEF FindHoles, Features
<1>2. Covered(PlacedIn(Len(repaired))) \subseteq Faces
  <2>1. ASSUME NEW n \in Nat, n = Len(originals)
        PROVE  Covered(PlacedIn(n)) \subseteq Faces
    BY <2>1 DEF Covered, PlacedIn, RepairInv, RepairTypeOK, Geometries, Features
  <2>2. Len(repaired) = Len(originals)
    BY DEF RepairInv, RepairTypeOK, Features
  <2>. QED
    BY <2>1, <2>2
<1>3. holes' \subseteq SUBSET Faces
  BY <1>2, HolesAreFaces DEF FindHoles, SmallHoles
<1>4. RepairTypeOK'
  BY <1>1, <1>3 DEF RepairInv, RepairTypeOK
<1>5. CallInv' /\ ClaimInv'
  BY <1>1 DEF RepairInv, CallInv, ClaimInv, Running, FirstKept, Claims
<1>6. DisjointInv'
  <2>1. holes = {}
    BY <1>1 DEF RepairInv, CallInv
  <2>. QED
    BY <2>1, <1>1 DEF RepairInv, DisjointInv, Overlaps
<1>. QED
  BY <1>4, <1>5, <1>6 DEF RepairInv

LEMMA FillHoleInv == RepairInv /\ FillHole => RepairInv'
<1>. SUFFICES ASSUME RepairInv, FillHole PROVE RepairInv'
  OBVIOUS
<1>. Running
  BY DEF FillHole, Running
<1>. USE TypesHelp
<1>1. /\ phase = "filling" /\ phase' \in {"safety", "filling"}
      /\ originals' = originals /\ config' = config /\ Features' = Features /\ at' = at
      /\ holes' = holes /\ failed' = failed
  BY DEF FillHole, Features
<1>2. PICK hole \in pending :
        /\ \/ /\ repaired' = [repaired EXCEPT ![Min(Widest(hole))] =
                   [faces |-> repaired[Min(Widest(hole))].faces \cup hole, kind |-> "polygon"]]
              /\ actions' = [actions EXCEPT ![Min(Widest(hole))] =
                   actions[Min(Widest(hole))] \cup {"gap"}]
           \/ UNCHANGED <<repaired, actions>>
        /\ pending' = pending \ {hole}
  BY DEF FillHole
<1>3. hole \in holes /\ hole \subseteq Faces
  BY DEF RepairInv, RepairTypeOK
<1>4. /\ repaired' \in [Features -> Geometries]
      /\ actions' \in [Features -> SUBSET Issues]
      /\ \A i \in Features : /\ repaired[i].faces \subseteq repaired'[i].faces
                             /\ repaired'[i].faces \subseteq repaired[i].faces \cup hole
  <2>. DEFINE target == Min(Widest(hole))
  <2>1. repaired \in [Features -> Geometries] /\ actions \in [Features -> SUBSET Issues]
    BY DEF RepairInv, RepairTypeOK
  <2>2. CASE /\ repaired' = [repaired EXCEPT ![target] =
                   [faces |-> repaired[target].faces \cup hole, kind |-> "polygon"]]
             /\ actions' = [actions EXCEPT ![target] = actions[target] \cup {"gap"}]
    <3>. HIDE DEF target
    <3>1. ASSUME target \in Features
          PROVE  [faces |-> repaired[target].faces \cup hole, kind |-> "polygon"] \in Geometries
      BY <3>1, <2>1, <1>3 DEF Geometries, Kinds
    <3>2. repaired' \in [Features -> Geometries]
      BY <2>1, <2>2, <3>1
    <3>3. actions' \in [Features -> SUBSET Issues]
      BY <2>1, <2>2 DEF Issues
    <3>4. ASSUME NEW i \in Features
          PROVE  repaired'[i] = IF i = target
                     THEN [faces |-> repaired[target].faces \cup hole, kind |-> "polygon"]
                     ELSE repaired[i]
      BY <2>1, <2>2
    <3>. QED
      BY <3>2, <3>3, <3>4
  <2>3. CASE UNCHANGED <<repaired, actions>>
    BY <2>1, <2>3
  <2>. QED
    BY <1>2, <2>2, <2>3
<1>5. RepairTypeOK'
  BY <1>1, <1>2, <1>4 DEF RepairInv, RepairTypeOK
<1>6. CallInv'
  BY <1>1 DEF RepairInv, CallInv, Running
<1>7. ClaimInv'
  BY <1>1, <1>4 DEF RepairInv, ClaimInv, FirstKept, Claims
<1>8. DisjointInv'
  BY <1>1, <1>3, <1>4 DEF RepairInv, DisjointInv, Overlaps
<1>. QED
  BY <1>5, <1>6, <1>7, <1>8 DEF RepairInv

LEMMA RollBackInv == RepairInv /\ RollBack => RepairInv'
<1>. SUFFICES ASSUME RepairInv, RollBack PROVE RepairInv'
  OBVIOUS
<1>. Running
  BY DEF RollBack, Running
<1>. USE TypesHelp
<1>1. /\ phase' = "safety" /\ at' = 1 /\ Features' = Features
      /\ originals' = originals /\ config' = config /\ holes' = holes /\ pending' = pending
      /\ repaired' = originals
      /\ actions' = [i \in Features |-> {}] /\ failed' = [i \in Features |-> TRUE]
  BY DEF RollBack, Features
<1>2. RepairTypeOK'
  BY <1>1 DEF RepairInv, RepairTypeOK, Features
<1>3. CallInv'
  BY <1>1 DEF RepairInv, CallInv, Running
<1>4. ClaimInv'
  BY <1>1 DEF ClaimInv, FirstKept, Claims
<1>5. DisjointInv'
  BY <1>1 DEF DisjointInv
<1>. QED
  BY <1>2, <1>3, <1>4, <1>5 DEF RepairInv

LEMMA CheckSafetyInv == RepairInv /\ CheckSafety => RepairInv'
<1>. SUFFICES ASSUME RepairInv, CheckSafety PROVE RepairInv'
  OBVIOUS
<1>. Running
  BY DEF CheckSafety, Running
<1>. USE TypesHelp
<1>1. /\ phase = "safety" /\ phase' \in {"safety", "done"} /\ Features' = Features
      /\ originals' = originals /\ config' = config /\ holes' = holes /\ pending' = pending
      /\ actions' = actions
      /\ at' \in Features
  BY DEF CheckSafety, Features, Advance
<1>2. Rejected(at) \in BOOLEAN /\ (failed[at] => Rejected(at))
  BY DEF Rejected, SafetyFailure, OverBudget, RepairInv, RepairTypeOK
<1>3. /\ failed' \in [Features -> BOOLEAN]
      /\ \A i \in Features : failed[i] => failed'[i]
      /\ failed'[at] = Rejected(at)
  BY <1>2 DEF CheckSafety, RepairInv, RepairTypeOK
<1>4. /\ repaired' \in [Features -> Geometries]
      /\ \A i \in Features : i # at => repaired'[i] = repaired[i]
      /\ repaired'[at] = IF Rejected(at) THEN originals[at] ELSE repaired[at]
  BY DEF CheckSafety, RepairInv, RepairTypeOK
<1>5. RepairTypeOK'
  BY <1>1, <1>3, <1>4 DEF RepairInv, RepairTypeOK, Features
<1>6. CallInv'
  BY <1>1 DEF RepairInv, CallInv, Running
<1>7. ClaimInv'
  <2>1. \A i \in Features : Claims(i)' = Claims(i)
    BY <1>1 DEF Claims
  <2>2. ASSUME NEW i \in Features PROVE FirstKept(i)'
    BY <2>1, <1>1, <1>4 DEF RepairInv, ClaimInv, FirstKept, Features
  <2>. QED
    BY <2>2, <1>1 DEF ClaimInv
<1>8. DisjointInv'
  BY <1>1, <1>2, <1>3, <1>4 DEF RepairInv, DisjointInv, Overlaps
<1>. QED
  BY <1>5, <1>6, <1>7, <1>8 DEF RepairInv

-----------------------------------------------------------------------------

\* A step of a call, or a step of the client that leaves the call alone, keeps
\* what the call guarantees.
THEOREM RepairStepInv == RepairInv /\ [RepairStep]_repairVars => RepairInv'
<1>1. RepairInv /\ RepairStep => RepairInv'
  BY RepairFeatureInv, EraseOverlapInv, FindHolesInv, FillHoleInv, RollBackInv, CheckSafetyInv
  DEF RepairStep
<1>2. RepairInv /\ UNCHANGED repairVars => RepairInv'
  <2>. SUFFICES ASSUME RepairInv, UNCHANGED repairVars PROVE RepairInv'
    OBVIOUS
  <2>1. RepairTypeOK' /\ CallInv'
    BY DEF repairVars, RepairInv, RepairTypeOK, CallInv, Running, Features
  <2>2. ClaimInv'
    BY DEF repairVars, RepairInv, ClaimInv, FirstKept, Claims, Features
  <2>3. DisjointInv'
    BY DEF repairVars, RepairInv, DisjointInv, Overlaps, Features
  <2>. QED
    BY <2>1, <2>2, <2>3 DEF RepairInv
<1>. QED
  BY <1>1, <1>2

\* A finished call has lost no coverage and left no unexplained overlap.
THEOREM RepairInvImplies == RepairInv => FirstClaimKept /\ OverlapsExplained
<1>. SUFFICES ASSUME RepairInv, phase = "done" PROVE FirstClaimKept /\ OverlapsExplained
  BY DEF FirstClaimKept, OverlapsExplained
<1>1. FirstClaimKept
  BY DEF RepairInv, ClaimInv, FirstKept, FirstClaimKept
<1>2. OverlapsExplained
  BY DEF RepairInv, DisjointInv, OverlapsExplained
<1>. QED
  BY <1>1, <1>2

-----------------------------------------------------------------------------
(***************************************************************************)
(* The report.  A feature without an action has its original geometry, all *)
(* through the call; and what the last loop has checked is either valid or *)
(* put back.                                                               *)
(***************************************************************************)
Checked == IF phase = "done" THEN Features ELSE IF phase = "safety" THEN 1..(at - 1) ELSE {}

ReportInv ==
    /\ phase \in {"gaps", "filling"} => at = 1
    /\ \A i \in Features : actions[i] = {} => repaired[i] = originals[i]
    /\ \A i \in Checked : IF failed[i] THEN repaired[i] = originals[i] ELSE IsValid(repaired[i])

\* A feature is changed by its own mending only where an action says so.
LEMMA MendingIsReported ==
    ASSUME NEW g \in Geometries, NEW cfg \in RepairConfigs,
           MendRaises(g, cfg) \/ IntrinsicActions(g, cfg) = {}
    PROVE  AfterMending(g, cfg) = g
<1>1. CASE MendRaises(g, cfg)
  BY <1>1 DEF AfterMending, MendingFails
<1>2. CASE IntrinsicActions(g, cfg) = {}
  <2>1. "duplicate_vertex" \in Issues /\ "self_intersection" \in Issues /\ "sliver_polygon" \in Issues
    BY DEF Issues
  <2>2. /\ g.kind # "repeated"
        /\ ~(cfg.mend /\ g.kind \in {"selftouch", "collapsed"})
        /\ ~DropsSlivers(Mended(g, cfg), cfg)
    BY <1>2, <2>1 DEF IntrinsicActions
  <2>3. Mended(g, cfg) = g
    BY <2>2 DEF Mended
  <2>4. Intrinsic(g, cfg) = g
    BY <2>2, <2>3 DEF Intrinsic
  <2>. QED
    BY <2>4 DEF AfterMending
<1>. QED
  BY <1>1, <1>2

LEMMA ReportInit == RepairInit => ReportInv
  BY DEF RepairInit, ReportInv, Checked, Features

LEMMA ReportReturn == Return => ReportInv'
  BY DEF Return, ReportInv, Checked, Features

LEMMA ReportCall ==
    ASSUME NEW coverage \in Seq(Geometries), NEW cfg \in RepairConfigs, Call(coverage, cfg)
    PROVE  ReportInv'
<1>1. CASE coverage = <<>>
  BY <1>1 DEF Call, ReportInv, Checked, Features
<1>2. CASE coverage # <<>>
  BY <1>2 DEF Call, ReportInv, Checked, Features
<1>. QED
  BY <1>1, <1>2

\* A step of the loops before the last one: it changes the geometry of a
\* feature together with its actions.
LEMMA ReportKept ==
    ASSUME ReportInv, originals' = originals,
           phase' # "done", phase' \in {"gaps", "filling", "safety"} => at' = 1,
           \A i \in Features : \/ repaired'[i] = repaired[i] /\ actions'[i] = actions[i]
                               \/ actions'[i] # {}
                               \/ repaired'[i] = originals[i]
    PROVE  ReportInv'
<1>1. Checked' = {}
  BY DEF Checked
<1>2. Features' = Features
  BY DEF Features
<1>. QED
  BY <1>1, <1>2 DEF ReportInv

LEMMA RepairFeatureReports == RepairInv /\ ReportInv /\ RepairFeature => ReportInv'
<1>. SUFFICES ASSUME RepairInv, ReportInv, RepairFeature PROVE ReportInv'
  OBVIOUS
<1>1. Running /\ at \in Features /\ originals[at] \in Geometries /\ config \in RepairConfigs
  BY TypesHelp DEF RepairFeature, Running
<1>2. originals' = originals /\ phase' # "done"
      /\ (phase' \in {"gaps", "filling", "safety"} => at' = 1)
  BY <1>1 DEF RepairFeature, Advance, AfterIntrinsic, AfterOverlaps, Features
<1>3. /\ repaired' = [repaired EXCEPT ![at] = AfterMending(originals[at], config)]
      /\ actions' = [actions EXCEPT ![at] =
            IF MendRaises(originals[at], config) THEN {} ELSE IntrinsicActions(originals[at], config)]
      /\ repaired \in [Features -> Geometries] /\ actions \in [Features -> SUBSET Issues]
  BY DEF RepairFeature, RepairInv, RepairTypeOK
<1>4. actions'[at] = {} => repaired'[at] = originals[at]
  BY <1>1, <1>3, MendingIsReported
<1>5. \A i \in Features : i # at => repaired'[i] = repaired[i] /\ actions'[i] = actions[i]
  BY <1>3
<1>. QED
  BY <1>2, <1>4, <1>5, ReportKept

LEMMA EraseOverlapReports == RepairInv /\ ReportInv /\ EraseOverlap => ReportInv'
<1>. SUFFICES ASSUME RepairInv, ReportInv, EraseOverlap PROVE ReportInv'
  OBVIOUS
<1>1. Running /\ at \in Features
  BY TypesHelp DEF EraseOverlap, Running
<1>2. originals' = originals /\ phase' # "done"
      /\ (phase' \in {"gaps", "filling", "safety"} => at' = 1)
  BY <1>1 DEF EraseOverlap, Advance, AfterOverlaps, Features
<1>3. \/ /\ repaired' = [repaired EXCEPT ![at] = [faces |-> Erased(at), kind |-> "polygon"]]
         /\ actions' = [actions EXCEPT ![at] = actions[at] \cup {"overlap"}]
      \/ UNCHANGED <<repaired, actions>>
  BY DEF EraseOverlap
<1>4. repaired \in [Features -> Geometries] /\ actions \in [Features -> SUBSET Issues]
  BY DEF RepairInv, RepairTypeOK
<1>5. \A i \in Features : \/ repaired'[i] = repaired[i] /\ actions'[i] = actions[i]
                          \/ actions'[i] # {}
  BY <1>1, <1>3, <1>4
<1>. QED
  BY <1>2, <1>5, ReportKept

LEMMA FindHolesReports == RepairInv /\ ReportInv /\ FindHoles => ReportInv'
<1>. SUFFICES ASSUME RepairInv, ReportInv, FindHoles PROVE ReportInv'
  OBVIOUS
<1>1. originals' = originals /\ phase' # "done" /\ at' = 1
  BY DEF FindHoles, ReportInv
<1>. QED
  BY <1>1, ReportKept DEF FindHoles

LEMMA FillHoleReports == RepairInv /\ ReportInv /\ FillHole => ReportInv'
<1>. SUFFICES ASSUME RepairInv, ReportInv, FillHole PROVE ReportInv'
  OBVIOUS
<1>1. originals' = originals /\ phase' # "done" /\ at' = 1
  BY DEF FillHole, ReportInv
<1>2. PICK target : \/ /\ repaired' = [repaired EXCEPT ![target] =
                                [faces |-> repaired'[target].faces, kind |-> "polygon"]]
                       /\ actions' = [actions EXCEPT ![target] = actions[target] \cup {"gap"}]
                    \/ UNCHANGED <<repaired, actions>>
  BY DEF FillHole
<1>3. repaired \in [Features -> Geometries] /\ actions \in [Features -> SUBSET Issues]
  BY DEF RepairInv, RepairTypeOK
<1>4. \A i \in Features : \/ repaired'[i] = repaired[i] /\ actions'[i] = actions[i]
                          \/ actions'[i] # {}
  BY <1>2, <1>3
<1>. QED
  BY <1>1, <1>4, ReportKept

LEMMA RollBackReports == RepairInv /\ ReportInv /\ RollBack => ReportInv'
<1>. SUFFICES ASSUME RepairInv, ReportInv, RollBack PROVE ReportInv'
  OBVIOUS
<1>1. originals' = originals /\ phase' # "done" /\ at' = 1 /\ repaired' = originals
  BY DEF RollBack
<1>. QED
  BY <1>1, ReportKept

LEMMA CheckSafetyReports == RepairInv /\ ReportInv /\ CheckSafety => ReportInv'
<1>. SUFFICES ASSUME RepairInv, ReportInv, CheckSafety PROVE ReportInv'
  OBVIOUS
<1>1. Running /\ at \in Features /\ Len(originals) \in Nat
  BY TypesHelp DEF CheckSafety, Running
<1>2. /\ originals' = originals /\ actions' = actions /\ Features' = Features
      /\ phase = "safety"
      /\ \/ phase' = "safety" /\ at' = at + 1
         \/ phase' = "done" /\ at = Len(originals)
  BY <1>1 DEF CheckSafety, Advance, Features
<1>3. /\ \A i \in Features : i # at => repaired'[i] = repaired[i] /\ failed'[i] = failed[i]
      /\ failed'[at] = Rejected(at)
      /\ repaired'[at] = IF Rejected(at) THEN originals[at] ELSE repaired[at]
  BY <1>1 DEF CheckSafety, RepairInv, RepairTypeOK
<1>4. ~Rejected(at) => IsValid(repaired[at])
  BY DEF Rejected, SafetyFailure
<1>5. Checked' \subseteq Checked \cup {at} /\ Checked \subseteq Features
  BY <1>1, <1>2 DEF Checked, Features
<1>6. \A i \in Checked' : IF failed'[i] THEN repaired'[i] = originals[i] ELSE IsValid(repaired'[i])
  <2>1. ASSUME NEW i \in Checked', i # at
        PROVE  IF failed'[i] THEN repaired'[i] = originals[i] ELSE IsValid(repaired'[i])
    BY <2>1, <1>3, <1>5 DEF ReportInv
  <2>2. IF failed'[at] THEN repaired'[at] = originals[at] ELSE IsValid(repaired'[at])
    BY <1>3, <1>4
  <2>. QED
    BY <2>1, <2>2
<1>7. \A i \in Features : actions[i] = {} => repaired'[i] = originals[i]
  BY <1>3 DEF ReportInv
<1>. QED
  BY <1>2, <1>6, <1>7 DEF ReportInv, IsValid

\* Every step keeps the report true: a call's, or a client's that leaves the call alone.
THEOREM ReportStepInv == RepairInv /\ ReportInv /\ [RepairStep]_repairVars => ReportInv'
<1>1. RepairInv /\ ReportInv /\ RepairStep => ReportInv'
  BY RepairFeatureReports, EraseOverlapReports, FindHolesReports, FillHoleReports,
     RollBackReports, CheckSafetyReports DEF RepairStep
<1>2. ReportInv /\ UNCHANGED repairVars => ReportInv'
  BY DEF repairVars, ReportInv, Checked, Features, IsValid
<1>. QED
  BY <1>1, <1>2

\* The report of a finished call tells the truth about its output.
THEOREM ReportInvImplies == RepairInv /\ ReportInv => ReportMatchesOutput
<1>. SUFFICES ASSUME RepairInv, ReportInv, phase = "done", NEW i \in Features
              PROVE  /\ ReportedAfter(i) = repaired[i]
                     /\ Status(i) = "failed" => repaired[i] = originals[i]
                     /\ repaired[i] # originals[i] => ReportedActions(i) # {}
  BY DEF ReportMatchesOutput
<1>1. /\ actions[i] = {} => repaired[i] = originals[i]
      /\ IF failed[i] THEN repaired[i] = originals[i] ELSE IsValid(repaired[i])
  BY DEF ReportInv, Checked
<1>. QED
  BY <1>1 DEF ReportedAfter, Status, ReportedActions
-----------------------------------------------------------------------------
(***************************************************************************)
(* The plane.  Two places touch when they share a border of some length.   *)
(***************************************************************************)
Touch(x, y) == Border[x, y] > 0

\* Touching is symmetric, and places that do not touch have no border.
LEMMA TouchBothWays ==
  /\ \A x, y \in Places : Touch(x, y) <=> Touch(y, x)
  /\ \A x, y \in Places : Border[x, y] = 0 <=> ~Touch(x, y)
<1>1. ASSUME NEW x \in Places, NEW y \in Places
      PROVE  (Touch(x, y) <=> Touch(y, x)) /\ (Border[x, y] = 0 <=> ~Touch(x, y))
  <2>. DEFINE length == Border[x, y]
  <2>1. length \in Nat /\ length = Border[y, x]
    <3>1. <<x, y>> \in Places \X Places
      OBVIOUS
    <3>2. Border[<<x, y>>] \in Nat
      BY <3>1, PlaneAssumption, Zenon
    <3>3. length = Border[<<x, y>>]
      BY Zenon
    <3>4. length = Border[y, x]
      BY PlaneAssumption, Zenon
    <3>. QED
      BY <3>2, <3>3, <3>4, Zenon
  <2>2. (Touch(x, y) <=> length > 0) /\ (Touch(y, x) <=> length > 0)
    BY <2>1, Zenon DEF Touch
  <2>3. \A n \in Nat : n = 0 <=> ~(n > 0)
    OBVIOUS
  <2>. QED
    BY <2>1, <2>2, <2>3, Zenon
<1>. QED
  BY <1>1, Zenon

\* A linked set cannot be cut without cutting a border.
LEMMA LinkedCut ==
  ASSUME NEW S
  PROVE  Linked(S) <=> \A T \in (SUBSET S) \ {{}, S} : \E x \in T, y \in S \ T : Touch(x, y)
BY Zenon DEF Linked, Touch

\* A part is linked, and touches nothing else of the set.
LEMMA PartsAre ==
  ASSUME NEW S \in SUBSET Places, NEW P
  PROVE  P \in Parts[S] <=> /\ P \subseteq S /\ P # {} /\ Linked(P)
                            /\ \A x \in P, y \in S \ P : ~Touch(x, y)
<1>1. P \in Parts[S] <=> /\ P \subseteq S /\ P # {} /\ Linked(P)
                         /\ \A x \in P, y \in S \ P : Border[x, y] = 0
  BY Zenon DEF Parts
<1>2. ASSUME P \subseteq S
      PROVE  \A x \in P, y \in S \ P : Border[x, y] = 0 <=> ~Touch(x, y)
  BY <1>2, TouchBothWays, Zenon
<1>. QED
  BY <1>1, <1>2, Zenon

\* A linked set that meets a part lies in it.
LEMMA LinkedWithin ==
  ASSUME NEW S \in SUBSET Places, NEW P \in Parts[S],
         NEW L \in SUBSET S, Linked(L), L \cap P # {}
  PROVE  L \subseteq P
<1>. SUFFICES ASSUME ~(L \subseteq P) PROVE FALSE
  OBVIOUS
<1>1. L \cap P \in (SUBSET L) \ {{}, L}
  OBVIOUS
<1>2. PICK x \in L \cap P, y \in L \ (L \cap P) : Touch(x, y)
  BY <1>1, LinkedCut
<1>. QED
  BY <1>2, PartsAre

\* Two parts that meet are one.
LEMMA PartsApart ==
  ASSUME NEW S \in SUBSET Places, NEW P \in Parts[S], NEW Q \in Parts[S], P \cap Q # {}
  PROVE  P = Q
<1>1. Linked(P) /\ Linked(Q) /\ P \subseteq S /\ Q \subseteq S
  BY PartsAre
<1>2. P \subseteq Q
  BY <1>1, LinkedWithin
<1>3. Q \cap P # {}
  OBVIOUS
<1>4. Q \subseteq P
  BY <1>1, <1>3, LinkedWithin
<1>. QED
  BY <1>2, <1>4

\* A linked set stays linked with a place that touches it.
LEMMA LinkedGrows ==
  ASSUME NEW M \in SUBSET Places, Linked(M), NEW x \in M, NEW y \in Places, Touch(x, y)
  PROVE  Linked(M \cup {y})
<1>. SUFFICES ASSUME NEW T \in (SUBSET (M \cup {y})) \ {{}, M \cup {y}}
              PROVE  \E u \in T, v \in (M \cup {y}) \ T : Touch(u, v)
  BY LinkedCut
<1>1. CASE T \cap M \notin {{}, M}
  <2>1. PICK u \in T \cap M, v \in M \ (T \cap M) : Touch(u, v)
    BY <1>1, LinkedCut
  <2>. QED
    BY <2>1
<1>2. CASE T \cap M = {}
  <2>1. y \in T /\ x \notin T
    BY <1>2
  <2>. QED
    BY <2>1, TouchBothWays
<1>3. CASE T \cap M = M
  <2>1. x \in T /\ y \notin T
    BY <1>3
  <2>. QED
    BY <2>1
<1>. QED
  BY <1>1, <1>2, <1>3

\* A linked set has a part around it.
LEMMA PartAround ==
  ASSUME NEW S \in SUBSET Places, NEW L \in SUBSET S, L # {}, Linked(L)
  PROVE  \E P \in Parts[S] : L \subseteq P
<1>. DEFINE Around == {M \in SUBSET S : Linked(M) /\ L \subseteq M}
            P == UNION Around
<1>1. L \subseteq P /\ P \subseteq S
  OBVIOUS
<1>2. Linked(P)
  <2>. SUFFICES ASSUME NEW T \in (SUBSET P) \ {{}, P}
                PROVE  \E x \in T, y \in P \ T : Touch(x, y)
    BY LinkedCut
  <2>1. PICK a \in T, b \in P \ T : TRUE
    OBVIOUS
  <2>2. PICK A \in Around : a \in A
    BY <2>1
  <2>3. PICK B \in Around : b \in B
    BY <2>1
  <2>4. PICK z \in L : TRUE
    OBVIOUS
  <2>5. \E M \in Around : M \cap T \notin {{}, M}
    BY <2>1, <2>2, <2>3, <2>4
  <2>6. PICK M \in Around : M \cap T \notin {{}, M}
    BY <2>5
  <2>7. PICK x \in M \cap T, y \in M \ (M \cap T) : Touch(x, y)
    BY <2>6, LinkedCut
  <2>. QED
    BY <2>6, <2>7
<1>3. ASSUME NEW x \in P, NEW y \in S \ P, Touch(x, y) PROVE FALSE
  <2>1. PICK M \in Around : x \in M
    OBVIOUS
  <2>2. Linked(M \cup {y})
    BY <2>1, <1>3, LinkedGrows
  <2>3. M \cup {y} \in Around
    BY <2>1, <2>2
  <2>. QED
    BY <2>3
<1>. HIDE DEF P
<1>. QED
  BY <1>1, <1>2, <1>3, PartsAre

-----------------------------------------------------------------------------
(***************************************************************************)
(* Holes.  P is a part of a covered set, H what one of its rings encloses. *)
(***************************************************************************)
Encloses(P, H) == H \in Parts[Places \ P] /\ Outside \notin H

\* The holes of a set are what the rings of its parts enclose.
LEMMA HolesAre ==
  ASSUME NEW S \in SUBSET Faces, NEW H
  PROVE  H \in HolesIn[S] <=> \E P \in Parts[S] : Encloses(P, H)
BY Zenon DEF HolesIn, Encloses

\* A hole touches its own ring, and nothing else.
LEMMA RingAround ==
  ASSUME NEW P \in SUBSET Places, P # {}, NEW H, Encloses(P, H)
  PROVE  /\ H \subseteq Places /\ H # {} /\ H \cap P = {} /\ Linked(H)
         /\ \A x \in H, y \in Places \ H : Touch(x, y) => y \in P
         /\ \E x \in H, y \in P : Touch(x, y)
<1>1. H \subseteq Places \ P /\ H # {} /\ Linked(H)
      /\ \A x \in H, y \in (Places \ P) \ H : ~Touch(x, y)
  BY PartsAre DEF Encloses
<1>2. \A x \in H, y \in Places \ H : Touch(x, y) => y \in P
  BY <1>1
<1>3. H \in (SUBSET Places) \ {{}, Places}
  BY <1>1
<1>4. PICK x \in H, y \in Places \ H : Touch(x, y)
  BY <1>3, ConnectedAssumption, LinkedCut
<1>. QED
  BY <1>1, <1>2, <1>4

\* Two holes of one coverage are apart, or one of them lies in the other with its ring.
LEMMA HolesNest ==
  ASSUME NEW U \in SUBSET Places, NEW P \in Parts[U], NEW Q \in Parts[U],
         NEW G, Encloses(P, G), NEW H, Encloses(Q, H), G \cap H # {}
  PROVE  G = H \/ (G \cup P) \subseteq H \/ (H \cup Q) \subseteq G
<1>1. /\ P \subseteq Places /\ P # {} /\ Linked(P)
      /\ Q \subseteq Places /\ Q # {} /\ Linked(Q)
  BY PartsAre
<1>2. /\ G \subseteq Places /\ G # {} /\ G \cap P = {} /\ Linked(G)
      /\ \A x \in G, y \in Places \ G : Touch(x, y) => y \in P
  BY <1>1, RingAround
<1>3. /\ H \subseteq Places /\ H # {} /\ H \cap Q = {} /\ Linked(H)
      /\ \A x \in H, y \in Places \ H : Touch(x, y) => y \in Q
  BY <1>1, RingAround
<1>4. Places \ P \in SUBSET Places /\ Places \ Q \in SUBSET Places
  OBVIOUS
<1>5. G \in Parts[Places \ P] /\ H \in Parts[Places \ Q] /\ Outside \notin G /\ Outside \notin H
  BY DEF Encloses
<1>6. CASE P = Q
  BY <1>4, <1>5, <1>6, PartsApart
<1>7. CASE P # Q
  <2>1. P \cap Q = {}
    BY <1>7, PartsApart
  <2>2. P \cap H # {} => P \subseteq H
    BY <1>1, <1>4, <1>5, <2>1, LinkedWithin
  <2>3. Q \cap G # {} => Q \subseteq G
    BY <1>1, <1>4, <1>5, <2>1, LinkedWithin
  <2>4. Q \cap G = {} => G \subseteq H
    BY <1>2, <1>4, <1>5, LinkedWithin
  <2>5. P \cap H = {} => H \subseteq G
    BY <1>3, <1>4, <1>5, LinkedWithin
  <2>6. ASSUME P \subseteq H, Q \subseteq G PROVE FALSE
    <3>1. G \cup H \in (SUBSET Places) \ {{}, Places}
      BY <1>2, <1>3, <1>5 DEF Places
    <3>2. PICK x \in G \cup H, y \in Places \ (G \cup H) : Touch(x, y)
      BY <3>1, ConnectedAssumption, LinkedCut
    <3>. QED
      BY <3>2, <1>2, <1>3, <2>6
  <2>. QED
    BY <2>2, <2>3, <2>4, <2>5, <2>6
<1>. QED
  BY <1>6, <1>7

\* Every set of numbers has a least one.
LEMMA LeastNumber ==
  ASSUME NEW S \in SUBSET Nat, S # {}
  PROVE  \E x \in S : \A y \in S : x <= y
<1>1. PICK x \in S : \A y \in S : ~(<<y, x>> \in OpToRel(<, Nat))
  BY WFMin, NatLessThanWellFounded
<1>2. \A y \in S : ~(y < x)
  BY <1>1 DEF OpToRel
<1>. QED
  BY <1>2

\* Among sets of faces there is one that no other contains.
LEMMA LargestSet ==
  ASSUME NEW F \in SUBSET SUBSET Faces, F # {}
  PROVE  \E G \in F : \A H \in F : G \subseteq H => H = G
<1>. DEFINE rest(G) == Cardinality(Faces \ G)
            rests == {rest(G) : G \in F}
<1>0. IsFiniteSet(Faces)
  BY PlaneAssumption, Zenon
<1>1. \A G \in F : IsFiniteSet(Faces \ G) /\ rest(G) \in Nat
  BY <1>0, FS_Subset, FS_CardinalityType
<1>2. rests \in SUBSET Nat /\ rests # {}
  BY <1>1
<1>3. PICK r \in rests : \A q \in rests : r <= q
  <2>. HIDE DEF rests
  <2>. QED
    BY <1>2, LeastNumber
<1>4. PICK G \in F : r = rest(G)
  BY <1>3
<1>5. ASSUME NEW H \in F, G \subseteq H, H # G PROVE FALSE
  <2>1. Faces \ H \subseteq Faces \ G /\ Faces \ H # Faces \ G
    BY <1>5
  <2>2. rest(H) < rest(G)
    <3>1. rest(H) <= rest(G) /\ (rest(H) = rest(G) => Faces \ H = Faces \ G)
      BY <1>1, <2>1, FS_Subset
    <3>. QED
      BY <1>1, <2>1, <3>1
  <2>3. rest(G) <= rest(H)
    BY <1>3, <1>4
  <2>. QED
    BY <1>1, <2>2, <2>3
<1>. QED
  BY <1>5

-----------------------------------------------------------------------------
(***************************************************************************)
(* Filling holes opens none: what a ring encloses after some holes of U    *)
(* are filled was enclosed before, and has a place that is not covered.    *)
(***************************************************************************)
Filled(U, F) == U \cup UNION F

\* A hole that is filled is in one part with its ring.
LEMMA FilledMeets ==
  ASSUME NEW U \in SUBSET Faces, NEW F \in SUBSET HolesIn[U], NEW P \in Parts[Filled(U, F)],
         NEW Q \in Parts[U], NEW G \in F, Encloses(Q, G)
  PROVE  /\ Filled(U, F) \in SUBSET Places /\ Q \subseteq Filled(U, F) /\ G \subseteq Filled(U, F)
         /\ Q \cap P # {} => Q \subseteq P
         /\ G \cap P # {} => G \subseteq P
         /\ Q \subseteq P <=> G \subseteq P
<1>. DEFINE W == Filled(U, F)
<1>1. W \in SUBSET Places /\ U \subseteq W /\ G \subseteq W /\ U \in SUBSET Places
  BY HolesAreFaces DEF Filled, Places
<1>. HIDE DEF W
<1>2. Q \subseteq U /\ Q # {} /\ Linked(Q) /\ Q \subseteq Places
  BY <1>1, PartsAre
<1>3. G # {} /\ Linked(G) /\ \E x \in G, y \in Q : Touch(x, y)
  BY <1>2, RingAround
<1>4. P \in Parts[W]
  BY DEF W
<1>5. \A x \in P, y \in W \ P : ~Touch(x, y)
  BY <1>1, <1>4, PartsAre
<1>6. Q \cap P # {} => Q \subseteq P
  BY <1>1, <1>2, <1>4, LinkedWithin
<1>7. G \cap P # {} => G \subseteq P
  BY <1>1, <1>3, <1>4, LinkedWithin
<1>8. PICK x \in G, y \in Q : Touch(x, y)
  BY <1>3
<1>9. x \in W /\ y \in W /\ Touch(y, x)
  BY <1>1, <1>2, <1>8, TouchBothWays
<1>10. Q \subseteq P <=> G \subseteq P
  BY <1>5, <1>6, <1>7, <1>8, <1>9
<1>. QED
  BY <1>1, <1>2, <1>6, <1>7, <1>10 DEF W

\* Every part of the filled set holds a part of U that lies in no filled hole.
LEMMA OuterPart ==
  ASSUME NEW U \in SUBSET Faces, NEW F \in SUBSET HolesIn[U], NEW P \in Parts[Filled(U, F)]
  PROVE  \E Q \in Parts[U] : Q \subseteq P /\ \A G \in F : ~(Q \subseteq G)
<1>. DEFINE W == Filled(U, F)
            inside == {G \in F : G \subseteq P}
<1>1. \A G \in F : G \subseteq Faces /\ \E Q \in Parts[U] : Encloses(Q, G)
  BY HolesAre, HolesAreFaces
<1>2. W \in SUBSET Places /\ U \subseteq W /\ U \in SUBSET Places
  BY <1>1 DEF Filled, Places
<1>3. P \subseteq W /\ P # {}
  BY <1>2, PartsAre
<1>4. CASE inside = {}
  <2>1. PICK p \in P : TRUE
    BY <1>3
  <2>2. p \in U
    <3>1. SUFFICES ASSUME NEW G \in F, p \in G PROVE FALSE
      BY <1>3, <2>1 DEF Filled
    <3>2. PICK Q \in Parts[U] : Encloses(Q, G)
      BY <1>1
    <3>3. G \subseteq P
      BY <3>1, <3>2, FilledMeets
    <3>. QED
      BY <1>4, <3>3
  <2>3. Linked({p}) /\ {p} # {} /\ {p} \in SUBSET U
    BY <2>2, LinkedCut
  <2>4. PICK Q \in Parts[U] : {p} \subseteq Q
    BY <1>2, <2>3, PartAround
  <2>5. Linked(Q) /\ Q # {} /\ Q \subseteq U
    BY <1>2, PartsAre
  <2>6. Q \subseteq P
    <3>1. Q \in SUBSET W /\ Q \cap P # {}
      BY <1>2, <2>4, <2>5
    <3>. QED
      BY <1>2, <2>5, <3>1, LinkedWithin
  <2>7. ASSUME NEW G \in F, Q \subseteq G PROVE FALSE
    <3>1. PICK R \in Parts[U] : Encloses(R, G)
      BY <1>1
    <3>2. G \cap P # {}
      BY <2>5, <2>6, <2>7
    <3>3. G \subseteq P
      BY <3>1, <3>2, FilledMeets
    <3>. QED
      BY <1>4, <3>3
  <2>. QED
    BY <2>6, <2>7
<1>5. CASE inside # {}
  <2>1. inside \in SUBSET SUBSET Faces
    BY <1>1
  <2>2. PICK G \in inside : \A H \in inside : G \subseteq H => H = G
    <3>. HIDE DEF inside
    <3>. QED
      BY <1>5, <2>1, LargestSet
  <2>3. PICK Q \in Parts[U] : Encloses(Q, G)
    BY <1>1
  <2>4. Q \subseteq P
    BY <2>3, FilledMeets
  <2>5. Q # {} /\ Q \subseteq U /\ Q \subseteq Places
    BY <1>2, PartsAre
  <2>6. G \cap Q = {}
    BY <2>3, <2>5, RingAround
  <2>7. ASSUME NEW H \in F, Q \subseteq H PROVE FALSE
    <3>1. PICK R \in Parts[U] : Encloses(R, H)
      BY <1>1
    <3>2. H \subseteq P
      <4>1. H \cap P # {}
        BY <2>4, <2>5, <2>7
      <4>. QED
        BY <3>1, <4>1, FilledMeets
    <3>3. R # {} /\ R \subseteq U /\ R \subseteq Places
      BY <1>2, PartsAre
    <3>4. PICK x \in G, y \in Q : Touch(x, y)
      BY <2>3, <2>5, RingAround
    <3>5. x \in Places /\ y \in Places /\ Touch(y, x)
      BY <1>1, <2>5, <3>4, TouchBothWays DEF Places
    <3>6. x \notin U
      BY <1>2, <2>6, <3>4, <3>5, PartsAre
    <3>7. \A u \in H, v \in Places \ H : Touch(u, v) => v \in R
      BY <3>1, <3>3, RingAround
    <3>8. x \in H
      BY <2>7, <3>3, <3>4, <3>5, <3>6, <3>7
    <3>9. G \cap H # {}
      BY <3>4, <3>8
    <3>10. G = H \/ (G \cup Q) \subseteq H \/ (H \cup R) \subseteq G
      BY <1>2, <2>3, <3>1, <3>9, HolesNest
    <3>11. ~(Q \subseteq G)
      BY <2>5, <2>6
    <3>. QED
      BY <2>2, <2>7, <3>2, <3>10, <3>11
  <2>. QED
    BY <2>4, <2>7
<1>. QED
  BY <1>4, <1>5

\* A part of the filled set is such a part of U with its filled holes.
LEMMA PartOfFilled ==
  ASSUME NEW U \in SUBSET Faces, NEW F \in SUBSET HolesIn[U], NEW P \in Parts[Filled(U, F)],
         NEW Q \in Parts[U], Q \subseteq P, \A G \in F : ~(Q \subseteq G)
  PROVE  P = Q \cup UNION {G \in F : Encloses(Q, G)}
<1>. DEFINE W == Filled(U, F)
            own == {G \in F : Encloses(Q, G)}
            T == Q \cup UNION own
<1>1. \A G \in F : G \subseteq Faces /\ \E R \in Parts[U] : Encloses(R, G)
  BY HolesAre, HolesAreFaces
<1>2. W \in SUBSET Places /\ U \subseteq W /\ U \in SUBSET Places
  BY <1>1 DEF Filled, Places
<1>3. P \subseteq W /\ Linked(P)
  BY <1>2, PartsAre
<1>4. Q # {} /\ Q \subseteq U /\ Linked(Q) /\ \A x \in Q, y \in U \ Q : ~Touch(x, y)
  BY <1>2, PartsAre
<1>5. T \subseteq P
  BY FilledMeets
<1>6. ASSUME NEW x \in T, NEW y \in P \ T, Touch(x, y) PROVE FALSE
  <2>1. x \in Places /\ y \in Places /\ Touch(y, x)
    BY <1>2, <1>3, <1>5, <1>6, TouchBothWays
  <2>2. CASE x \in Q
    <3>1. y \notin U
      BY <1>4, <1>6, <2>2
    <3>2. PICK G \in F : y \in G
      BY <1>3, <3>1 DEF Filled
    <3>3. PICK R \in Parts[U] : Encloses(R, G)
      BY <1>1
    <3>4. R # Q
      BY <3>2, <3>3
    <3>5. R \subseteq U /\ R # {}
      BY <1>2, PartsAre
    <3>6. R \cap Q = {}
      BY <1>2, <3>4, PartsApart
    <3>7. x \in G
      <4>1. \A u \in G, v \in Places \ G : Touch(u, v) => v \in R
        BY <1>2, <3>3, <3>5, RingAround
      <4>. QED
        BY <2>1, <2>2, <3>2, <3>6, <4>1
    <3>8. Q \subseteq G
      <4>1. Places \ R \in SUBSET Places /\ Q \in SUBSET (Places \ R) /\ G \in Parts[Places \ R]
        BY <1>2, <1>4, <3>3, <3>6 DEF Encloses
      <4>2. Q \cap G # {}
        BY <2>2, <3>7
      <4>. QED
        BY <1>4, <4>1, <4>2, LinkedWithin
    <3>. QED
      BY <3>8
  <2>3. CASE x \notin Q
    <3>1. PICK G \in own : x \in G
      BY <2>3
    <3>2. \A u \in G, v \in Places \ G : Touch(u, v) => v \in Q
      BY <1>2, <1>4, <3>1, RingAround
    <3>. QED
      BY <1>6, <2>1, <3>1, <3>2
  <2>. QED
    BY <2>2, <2>3
<1>7. P = T
  <2>. HIDE DEF T
  <2>1. SUFFICES ASSUME P # T PROVE FALSE
    OBVIOUS
  <2>2. T \in (SUBSET P) \ {{}, P}
    BY <1>4, <1>5, <2>1 DEF T
  <2>. QED
    BY <1>3, <1>6, <2>2, LinkedCut
<1>. QED
  BY <1>7

\* A hole of the filled set is a hole of U that has not been filled.
LEMMA FillingOpensNone ==
  ASSUME NEW U \in SUBSET Faces, NEW F \in SUBSET HolesIn[U], NEW H \in HolesIn[Filled(U, F)]
  PROVE  H \in HolesIn[U] /\ ~(H \subseteq Filled(U, F))
<1>. DEFINE W == Filled(U, F)
<1>1. F \subseteq SUBSET Faces
  BY HolesAreFaces
<1>2. W \in SUBSET Faces /\ W \in SUBSET Places /\ U \in SUBSET Places
  BY <1>1 DEF Filled, Places
<1>3. PICK P \in Parts[W] : Encloses(P, H)
  <2>. HIDE DEF W
  <2>. QED
    BY <1>2, HolesAre DEF W
<1>4. PICK Q \in Parts[U] : Q \subseteq P /\ \A G \in F : ~(Q \subseteq G)
  BY OuterPart
<1>5. P = Q \cup UNION {G \in F : Encloses(Q, G)}
  BY <1>4, PartOfFilled
<1>6. P \subseteq W /\ P # {} /\ P \subseteq Places /\ \A x \in P, y \in W \ P : ~Touch(x, y)
  BY <1>2, PartsAre
<1>7. /\ H \subseteq Places /\ H # {} /\ H \cap P = {} /\ Linked(H)
      /\ \A x \in H, y \in Places \ H : Touch(x, y) => y \in P
      /\ \E x \in H, y \in P : Touch(x, y)
  BY <1>3, <1>6, RingAround
<1>8. PICK C \in Parts[Places \ Q] : H \subseteq C
  <2>1. Places \ Q \in SUBSET Places /\ H \in SUBSET (Places \ Q)
    BY <1>4, <1>7
  <2>. QED
    BY <1>7, <2>1, PartAround
<1>9. Linked(C) /\ C \subseteq Places /\ C \cap Q = {}
  BY PartsAre
<1>10. C = H
  <2>1. SUFFICES ASSUME C # H PROVE FALSE
    OBVIOUS
  <2>2. H \in (SUBSET C) \ {{}, C}
    BY <1>7, <1>8, <2>1
  <2>3. PICK x \in H, z \in C \ H : Touch(x, z)
    BY <1>9, <2>2, LinkedCut
  <2>4. z \in P /\ z \notin Q
    BY <1>7, <1>9, <2>3
  <2>5. PICK G \in F : Encloses(Q, G) /\ z \in G
    BY <1>5, <2>4
  <2>6. G \in Parts[Places \ Q] /\ Places \ Q \in SUBSET Places /\ C \cap G # {}
    BY <2>3, <2>5 DEF Encloses
  <2>7. C = G
    BY <2>6, PartsApart
  <2>. QED
    BY <1>5, <1>7, <1>8, <2>5, <2>7
<1>11. H \in HolesIn[U]
  <2>1. Encloses(Q, H)
    BY <1>3, <1>10 DEF Encloses
  <2>. QED
    BY <2>1, HolesAre
<1>12. ASSUME H \subseteq W PROVE FALSE
  <2>1. PICK x \in H, y \in P : Touch(x, y)
    BY <1>7
  <2>2. Touch(y, x)
    BY <1>6, <1>7, <2>1, TouchBothWays
  <2>. QED
    BY <1>6, <1>7, <1>12, <2>1, <2>2
<1>. QED
  BY <1>11, <1>12

\* Once all small holes are filled there is no small hole.
LEMMA AllFilled ==
  ASSUME NEW U \in SUBSET Faces, NEW t
  PROVE  SmallHoles(Filled(U, SmallHoles(U, t)), t) = {}
<1>. DEFINE F == SmallHoles(U, t)
<1>1. F \in SUBSET HolesIn[U]
  BY DEF SmallHoles
<1>2. ASSUME NEW H \in SmallHoles(Filled(U, F), t) PROVE FALSE
  <2>1. H \in HolesIn[Filled(U, F)] /\ (H \in HolesIn[U] => H \in F)
    BY <1>2, Zenon DEF SmallHoles
  <2>. HIDE DEF F
  <2>2. H \in HolesIn[U] /\ ~(H \subseteq Filled(U, F))
    BY <1>1, <2>1, FillingOpensNone
  <2>. QED
    BY <2>1, <2>2 DEF Filled
<1>. QED
  BY <1>2

-----------------------------------------------------------------------------
(***************************************************************************)
(* Lengths of rings.  A set of borders is measured one border at a time;   *)
(* that this gives a number is proved by least counterexample.             *)
(***************************************************************************)
Pairs == Places \X Places
First(E) == CHOOSE e \in E : TRUE
Measures(g, S) == g = [E \in S |-> IF E = {} THEN 0 ELSE Border[First(E)] + g[E \ {First(E)}]]
UpTo(n) == {E \in SUBSET Pairs : Cardinality(E) <= n}

\* There are finitely many borders, and a set of them without its first is smaller.
LEMMA PairsFinite ==
  /\ IsFiniteSet(Pairs) /\ Cardinality(Pairs) \in Nat
  /\ \A E \in SUBSET Pairs : /\ IsFiniteSet(E) /\ Cardinality(E) \in 0..Cardinality(Pairs)
                             /\ Cardinality(E) = 0 <=> E = {}
                             /\ E # {} => /\ First(E) \in E
                                          /\ E \ {First(E)} \in SUBSET Pairs
                                          /\ Cardinality(E \ {First(E)}) = Cardinality(E) - 1
<1>1. IsFiniteSet(Faces)
  BY PlaneAssumption, Zenon
<1>2. IsFiniteSet(Places)
  BY <1>1, FS_AddElement DEF Places
<1>3. IsFiniteSet(Pairs)
  BY <1>2, FS_Product DEF Pairs
<1>4. ASSUME NEW E \in SUBSET Pairs, E # {} PROVE First(E) \in E
  BY <1>4 DEF First
<1>. QED
  BY <1>3, <1>4, FS_Subset, FS_CardinalityType, FS_EmptySet, FS_RemoveElement

\* The recursion has a solution on sets of any size, by the least size that had none.
LEMMA Measured == \A n \in Nat : \E g : Measures(g, UpTo(n))
<1>. DEFINE worse == {n \in Nat : ~\E g : Measures(g, UpTo(n))}
<1>1. SUFFICES ASSUME worse # {} PROVE FALSE
  OBVIOUS
<1>2. PICK n \in worse : \A m \in worse : n <= m
  <2>. HIDE DEF worse
  <2>1. worse \in SUBSET Nat
    BY DEF worse
  <2>. QED
    BY <1>1, <2>1, LeastNumber
<1>3. \A E \in UpTo(n) : E # {} => E \ {First(E)} \in UpTo(n - 1) /\ n - 1 \in Nat
  BY PairsFinite DEF UpTo
<1>4. PICK h : n - 1 \in Nat => Measures(h, UpTo(n - 1))
  <2>1. n - 1 \in Nat => n - 1 \notin worse
    BY <1>2
  <2>. QED
    BY <2>1
<1>. DEFINE g == [E \in UpTo(n) |-> IF E = {} THEN 0 ELSE Border[First(E)] + h[E \ {First(E)}]]
<1>5. ASSUME NEW E \in UpTo(n), E # {}
      PROVE  g[E \ {First(E)}] = h[E \ {First(E)}]
  <2>. DEFINE R == E \ {First(E)}
  <2>1. R \in UpTo(n - 1) /\ n - 1 \in Nat
    BY <1>3, <1>5
  <2>2. R \in UpTo(n)
    <3>1. R \in SUBSET Pairs /\ Cardinality(R) <= n - 1
      BY <2>1, Zenon DEF UpTo
    <3>2. Cardinality(R) \in 0..Cardinality(Pairs) /\ Cardinality(Pairs) \in Nat
      BY <3>1, PairsFinite, Zenon
    <3>. HIDE DEF R
    <3>3. n \in Nat
      BY <1>2, Zenon
    <3>4. Cardinality(R) <= n
      BY <3>1, <3>2, <3>3
    <3>. QED
      BY <3>1, <3>4, Zenon DEF UpTo
  <2>. HIDE DEF R
  <2>3. h[R] = IF R = {} THEN 0 ELSE Border[First(R)] + h[R \ {First(R)}]
    BY <1>4, <2>1 DEF Measures
  <2>4. g[R] = IF R = {} THEN 0 ELSE Border[First(R)] + h[R \ {First(R)}]
    BY <2>2
  <2>. HIDE DEF g
  <2>. QED
    BY <2>3, <2>4 DEF R
<1>6. g = [E \in UpTo(n) |-> IF E = {} THEN 0 ELSE Border[First(E)] + g[E \ {First(E)}]]
  <2>1. ASSUME NEW E \in UpTo(n)
        PROVE  (IF E = {} THEN 0 ELSE Border[First(E)] + h[E \ {First(E)}])
                 = (IF E = {} THEN 0 ELSE Border[First(E)] + g[E \ {First(E)}])
    <3>. HIDE DEF g
    <3>. QED
      BY <1>5
  <2>2. g = [E \in UpTo(n) |-> g[E]]
    OBVIOUS
  <2>3. \A E \in UpTo(n) : g[E] = IF E = {} THEN 0 ELSE Border[First(E)] + h[E \ {First(E)}]
    OBVIOUS
  <2>. HIDE DEF g
  <2>. QED
    BY <2>1, <2>2, <2>3
<1>7. \E f : Measures(f, UpTo(n))
  <2>. HIDE DEF g
  <2>1. Measures(g, UpTo(n))
    BY <1>6, Zenon DEF Measures
  <2>. QED
    BY <2>1
<1>. QED
  BY <1>2, <1>7

\* The length of a set of borders is that of one of them and of the rest.
LEMMA LengthStep ==
  ASSUME NEW E \in SUBSET Pairs
  PROVE  Length[E] = IF E = {} THEN 0 ELSE Border[First(E)] + Length[E \ {First(E)}]
<1>1. UpTo(Cardinality(Pairs)) = SUBSET Pairs
  <2>1. \A F \in SUBSET Pairs : Cardinality(F) <= Cardinality(Pairs)
    <3>. SUFFICES ASSUME NEW F \in SUBSET Pairs PROVE Cardinality(F) <= Cardinality(Pairs)
      OBVIOUS
    <3>1. Cardinality(F) \in 0..Cardinality(Pairs) /\ Cardinality(Pairs) \in Nat
      BY PairsFinite, Zenon
    <3>. QED
      BY <3>1
  <2>. QED
    BY <2>1, Zenon DEF UpTo
<1>2. \E g : Measures(g, SUBSET Pairs)
  <2>1. Cardinality(Pairs) \in Nat
    BY PairsFinite, Zenon
  <2>. QED
    BY <1>1, <2>1, Measured, Zenon
<1>3. Length = CHOOSE g : Measures(g, SUBSET Pairs)
  BY Zenon DEF Length, Measures, Pairs, First
<1>4. Measures(Length, SUBSET Pairs)
  BY <1>2, <1>3, Zenon
<1>5. Length = [F \in SUBSET Pairs |-> IF F = {} THEN 0 ELSE Border[First(F)] + Length[F \ {First(F)}]]
  BY <1>4, Zenon DEF Measures
<1>. QED
  BY <1>5, Zenon

\* It is a number, and positive if some of the borders have a length.
LEMMA LengthsCount ==
  ASSUME NEW E \in SUBSET Pairs
  PROVE  Length[E] \in Nat /\ (Length[E] > 0 <=> \E e \in E : Border[e] > 0)
<1>. DEFINE right(F) == Length[F] \in Nat /\ (Length[F] > 0 <=> \E e \in F : Border[e] > 0)
            worse == {Cardinality(F) : F \in {G \in SUBSET Pairs : ~right(G)}}
<1>1. SUFFICES ASSUME worse # {} PROVE FALSE
  OBVIOUS
<1>2. PICK n \in worse : \A m \in worse : n <= m
  <2>1. \A G \in SUBSET Pairs : Cardinality(G) \in Nat
    BY PairsFinite, FS_CardinalityType, Zenon
  <2>2. worse \in SUBSET Nat
    BY <2>1, Zenon
  <2>. HIDE DEF worse
  <2>. QED
    BY <1>1, <2>2, LeastNumber
<1>3. PICK F \in SUBSET Pairs : ~right(F) /\ n = Cardinality(F)
  BY <1>2
<1>4. Length[F] = IF F = {} THEN 0 ELSE Border[First(F)] + Length[F \ {First(F)}]
  BY LengthStep
<1>5. F # {}
  <2>1. ASSUME F = {} PROVE right(F)
    <3>1. Length[F] = 0
      BY <1>4, <2>1
    <3>. QED
      BY <2>1, <3>1
  <2>. QED
    BY <1>3, <2>1
<1>. DEFINE R == F \ {First(F)}
<1>6. R \in SUBSET Pairs /\ Cardinality(R) < n /\ First(F) \in F
  BY <1>3, <1>5, PairsFinite
<1>7. right(R)
  <2>1. Cardinality(R) \in Nat /\ n \in Nat
    BY <1>3, <1>6, PairsFinite, FS_CardinalityType, Zenon
  <2>2. ~(n <= Cardinality(R))
    <3>. HIDE DEF R, worse
    <3>. QED
      BY <1>6, <2>1
  <2>3. Cardinality(R) \notin worse
    BY <1>2, <2>2, Zenon
  <2>. QED
    BY <1>6, <2>3, Zenon
<1>8. Border[First(F)] \in Nat
  BY <1>6, PlaneAssumption, Zenon DEF Pairs
<1>9. Length[F] = Border[First(F)] + Length[R]
  BY <1>4, <1>5
<1>10. F = R \cup {First(F)}
  BY <1>6
<1>11. (\E e \in F : Border[e] > 0) <=> Border[First(F)] > 0 \/ \E e \in R : Border[e] > 0
  BY <1>10
<1>12. Length[F] \in Nat /\ (Length[F] > 0 <=> Border[First(F)] > 0 \/ Length[R] > 0)
  BY <1>7, <1>8, <1>9
<1>. QED
  BY <1>3, <1>7, <1>11, <1>12

-----------------------------------------------------------------------------
(***************************************************************************)
(* The gaps of a call.  While holes are filled, the features cover what    *)
(* they covered when the holes were found and the holes that were visited; *)
(* after that no small hole is left unless a feature is put back.          *)
(***************************************************************************)
Ground == Covered(PlacedIn(Len(repaired)))
Accepted == \A i \in Features : ~failed[i]

GapInv ==
    /\ phase = "filling" =>
           /\ holes \subseteq SUBSET Faces
           /\ \E U \in SUBSET Faces : /\ holes = SmallHoles(U, config.gap)
                                      /\ Ground = Filled(U, holes \ pending)
    /\ phase \in {"safety", "done"} /\ config.fill /\ Accepted =>
           SmallHoles(Ground, config.gap) = {}

\* The ground is what the polygons among the features cover.
LEMMA GroundIs ==
  ASSUME RepairTypeOK
  PROVE  /\ PlacedIn(Len(repaired)) = {k \in Features : IsPolygonal(repaired[k])}
         /\ Len(repaired) = Len(originals)
         /\ Ground \in SUBSET Faces
         /\ \A x : x \in Ground <=> \E k \in PlacedIn(Len(repaired)) : x \in repaired[k].faces
<1>1. repaired \in [1..Len(originals) -> Geometries] /\ Len(originals) \in Nat
  BY DEF RepairTypeOK, Features
<1>2. Len(repaired) = Len(originals)
  BY <1>1
<1>3. PlacedIn(Len(repaired)) = {k \in Features : IsPolygonal(repaired[k])}
  BY <1>2 DEF PlacedIn, Features
<1>4. \A x : x \in Ground <=> \E k \in PlacedIn(Len(repaired)) : x \in repaired[k].faces
  BY Zenon DEF Ground, Covered
<1>5. \A k \in PlacedIn(Len(repaired)) : repaired[k].faces \subseteq Faces
  BY <1>1, <1>3 DEF Features, Geometries
<1>. QED
  BY <1>2, <1>3, <1>4, <1>5

\* The ring of a hole counts for a geometry that has one side of it.
LEMMA SharedCounts ==
  ASSUME NEW hole \in SUBSET Faces, NEW g
  PROVE  /\ Shared(hole, g) \in Nat
         /\ \A x \in hole, y \in Places \ hole :
                Touch(x, y) /\ (x \in g.faces) # (y \in g.faces) => Shared(hole, g) > 0
<1>1. Ring(hole, g) \in SUBSET Pairs
  BY DEF Ring, Pairs, Places
<1>2. Shared(hole, g) \in Nat /\ (Shared(hole, g) > 0 <=> \E e \in Ring(hole, g) : Border[e] > 0)
  BY <1>1, LengthsCount, Zenon DEF Shared
<1>3. ASSUME NEW x \in hole, NEW y \in Places \ hole,
             Touch(x, y), (x \in g.faces) # (y \in g.faces)
      PROVE  Shared(hole, g) > 0
  <2>1. <<x, y>> \in Ring(hole, g)
    BY <1>3 DEF Ring
  <2>2. Border[<<x, y>>] > 0
    BY <1>3, Zenon DEF Touch
  <2>. QED
    BY <1>2, <2>1, <2>2, Zenon
<1>. QED
  BY <1>2, <1>3

\* Finitely many numbers have a largest one.
LEMMA LargestOf ==
  ASSUME NEW n \in Nat, NEW S \in SUBSET (1..n), S # {},
         NEW v, \A k \in S : v[k] \in Nat
  PROVE  \E k \in S : \A j \in S : v[j] <= v[k]
<1>. DEFINE worse == {m \in Nat : \E T \in SUBSET S : /\ T # {} /\ T \subseteq 1..m
                                                     /\ ~\E k \in T : \A j \in T : v[j] <= v[k]}
<1>1. SUFFICES ASSUME n \in worse PROVE FALSE
  BY Zenon
<1>2. PICK m \in worse : \A l \in worse : m <= l
  <2>1. worse \in SUBSET Nat /\ worse # {}
    BY <1>1
  <2>. HIDE DEF worse
  <2>. QED
    BY <2>1, LeastNumber
<1>3. m \in Nat
  BY <1>2
<1>4. PICK T \in SUBSET S : T # {} /\ T \subseteq 1..m /\ ~\E k \in T : \A j \in T : v[j] <= v[k]
  BY <1>2
<1>5. T \ {m} # {}
  <2>1. SUFFICES ASSUME T \subseteq {m} PROVE FALSE
    OBVIOUS
  <2>2. T = {m} /\ v[m] \in Nat
    BY <1>4, <2>1
  <2>. QED
    BY <1>4, <2>2
<1>6. m \in T
  <2>1. SUFFICES ASSUME m \notin T PROVE FALSE
    OBVIOUS
  <2>2. m - 1 \in Nat /\ T \subseteq 1..(m - 1)
    <3>1. T # {} /\ T \subseteq 1..m
      BY <1>4
    <3>2. \A t \in T : t \in 1..m /\ t # m
      BY <2>1, <3>1
    <3>3. \A t \in T : t \in 1..(m - 1)
      BY <1>3, <3>2
    <3>4. PICK t \in T : t \in 1..m
      BY <3>1
    <3>. HIDE DEF worse
    <3>. QED
      BY <1>3, <3>3, <3>4
  <2>3. m - 1 \in worse
    BY <1>4, <2>2
  <2>4. ~(m <= m - 1)
    BY <1>3
  <2>. HIDE DEF worse
  <2>. QED
    BY <1>2, <2>3, <2>4
<1>7. m - 1 \in Nat /\ T \ {m} \subseteq 1..(m - 1)
  BY <1>3, <1>4, <1>6
<1>8. m - 1 \notin worse
  <2>1. ~(m <= m - 1)
    BY <1>3
  <2>. HIDE DEF worse
  <2>. QED
    BY <1>2, <2>1
<1>9. PICK k \in T \ {m} : \A j \in T \ {m} : v[j] <= v[k]
  BY <1>5, <1>7, <1>8
<1>10. \A j \in T : v[j] \in Nat
  BY <1>4
<1>. HIDE DEF worse
<1>11. CASE v[m] <= v[k]
  BY <1>4, <1>9, <1>11
<1>12. CASE ~(v[m] <= v[k])
  <2>1. \A j \in T : v[j] <= v[m]
    BY <1>6, <1>9, <1>10, <1>12
  <2>. QED
    BY <1>4, <1>6, <2>1
<1>. QED
  BY <1>11, <1>12

\* A hole that some feature borders has a target among the features.
LEMMA WidestThere ==
  ASSUME RepairTypeOK, NEW hole \in SUBSET Faces,
         NEW k \in PlacedIn(Len(repaired)), Shared(hole, repaired[k]) > 0
  PROVE  Widest(hole) # {}
<1>. DEFINE v == [j \in Features |-> Shared(hole, repaired[j])]
<1>1. PlacedIn(Len(repaired)) \in SUBSET (1..Len(originals)) /\ Len(originals) \in Nat
  BY GroundIs DEF Features, RepairTypeOK
<1>2. \A j \in PlacedIn(Len(repaired)) : v[j] = Shared(hole, repaired[j]) /\ v[j] \in Nat
  BY <1>1, SharedCounts DEF Features
<1>. HIDE DEF v
<1>3. PICK j \in PlacedIn(Len(repaired)) : \A i \in PlacedIn(Len(repaired)) : v[i] <= v[j]
  BY <1>1, <1>2, LargestOf
<1>4. v[k] > 0 /\ v[k] <= v[j]
  BY <1>2, <1>3
<1>5. v[j] > 0
  BY <1>2, <1>4
<1>6. j \in Widest(hole)
  BY <1>2, <1>3, <1>5 DEF Widest
<1>. QED
  BY <1>6

\* The first of the widest neighbours is one of them.
LEMMA TargetThere ==
  ASSUME RepairTypeOK, NEW hole, Widest(hole) # {}
  PROVE  Min(Widest(hole)) \in Widest(hole)
<1>1. Widest(hole) \in SUBSET Nat
  BY GroundIs DEF Widest, Features, RepairTypeOK
<1>2. \E x \in Widest(hole) : \A y \in Widest(hole) : x <= y
  BY <1>1, LeastNumber
<1>. QED
  BY <1>2 DEF Min

\* A hole without a target is covered already: the hole it lies in was filled.
LEMMA NoTargetMeansCovered ==
  ASSUME RepairTypeOK, NEW U \in SUBSET Faces, NEW F \in SUBSET HolesIn[U], Ground = Filled(U, F),
         NEW hole \in HolesIn[U], Widest(hole) = {}
  PROVE  hole \subseteq Ground
<1>1. hole \in SUBSET Faces /\ \A H \in F : H \subseteq Faces
  BY HolesAreFaces
<1>2. PICK P \in Parts[U] : Encloses(P, hole)
  BY HolesAre
<1>3. U \in SUBSET Places /\ P \subseteq U /\ P # {} /\ P \subseteq Places
      /\ \A x \in P, y \in U \ P : ~Touch(x, y)
  BY PartsAre DEF Places
<1>4. /\ hole \cap P = {} /\ Linked(hole)
      /\ \A x \in hole, y \in Places \ hole : Touch(x, y) => y \in P
  BY <1>2, <1>3, RingAround
<1>5. PICK x \in hole, y \in P : Touch(x, y)
  BY <1>2, <1>3, RingAround
<1>6. x \in Places /\ y \in Places \ hole /\ Touch(y, x)
  BY <1>1, <1>3, <1>4, <1>5, TouchBothWays DEF Places
<1>7. x \notin U
  BY <1>3, <1>4, <1>5, <1>6
<1>8. PICK k \in PlacedIn(Len(repaired)) : y \in repaired[k].faces
  <2>1. y \in Ground
    BY <1>3, <1>5 DEF Filled
  <2>. QED
    BY <2>1, GroundIs
<1>9. x \in repaired[k].faces
  <2>1. SUFFICES ASSUME x \notin repaired[k].faces PROVE FALSE
    OBVIOUS
  <2>2. Shared(hole, repaired[k]) > 0
    BY <1>1, <1>5, <1>6, <1>8, <2>1, SharedCounts
  <2>. QED
    BY <1>1, <2>2, WidestThere
<1>10. PICK H \in F : x \in H
  <2>1. x \in Ground
    BY <1>8, <1>9, GroundIs
  <2>. QED
    BY <1>7, <2>1 DEF Filled
<1>11. PICK R \in Parts[U] : Encloses(R, H)
  BY HolesAre
<1>12. R \subseteq U /\ R # {} /\ R \subseteq Places
  BY <1>3, PartsAre
<1>13. hole \cap H # {}
  BY <1>5, <1>10
<1>14. hole = H \/ (hole \cup P) \subseteq H \/ (H \cup R) \subseteq hole
  BY <1>2, <1>3, <1>11, <1>13, HolesNest
<1>15. CASE (H \cup R) \subseteq hole
  <2>1. CASE y \in H
    BY <1>6, <1>15, <2>1
  <2>2. CASE y \notin H
    <3>1. y \in R
      BY <1>6, <1>10, <1>11, <1>12, <1>5, <2>2, RingAround
    <3>. QED
      BY <1>6, <1>15, <3>1
  <2>. QED
    BY <2>1, <2>2
<1>. QED
  BY <1>10, <1>14, <1>15 DEF Filled

-----------------------------------------------------------------------------

\* Outside a call there is nothing to say of gaps.
LEMMA GapInit == RepairInit => GapInv
  BY DEF RepairInit, GapInv

LEMMA GapReturn == Return => GapInv'
  BY DEF Return, GapInv

\* An empty coverage has no holes, and so an empty call leaves none.
LEMMA NoHoles == ASSUME NEW t PROVE SmallHoles({}, t) = {}
<1>1. Parts[{}] = {}
  BY PartsAre
<1>2. HolesIn[{}] = {}
  BY <1>1, HolesAre
<1>. QED
  BY <1>2 DEF SmallHoles

LEMMA GapCall ==
  ASSUME NEW coverage \in Seq(Geometries), NEW cfg \in RepairConfigs, Call(coverage, cfg)
  PROVE  GapInv'
<1>1. CASE coverage # <<>>
  BY <1>1 DEF Call, GapInv
<1>2. CASE coverage = <<>>
  <2>1. phase' = "done" /\ repaired' = <<>>
    BY <1>2 DEF Call
  <2>2. Ground' = {}
    BY <2>1 DEF Ground, Covered, PlacedIn
  <2>. QED
    BY <2>1, <2>2, NoHoles DEF GapInv
<1>. QED
  BY <1>1, <1>2

\* Finding the holes, and filling one.
LEMMA FindHolesGaps == RepairInv /\ FindHoles => GapInv'
<1>. SUFFICES ASSUME RepairInv, FindHoles PROVE GapInv'
  OBVIOUS
<1>1. RepairTypeOK
  BY DEF RepairInv
<1>2. /\ holes' = SmallHoles(Ground, config.gap) /\ pending' = holes' /\ Ground' = Ground
      /\ config' = config /\ phase' = IF holes' = {} THEN "safety" ELSE "filling"
  BY DEF FindHoles, Ground, Covered, PlacedIn
<1>3. Ground \in SUBSET Faces
  BY <1>1, GroundIs
<1>4. holes' \subseteq SUBSET Faces
  BY <1>2, <1>3, HolesAreFaces DEF SmallHoles
<1>5. Ground = Filled(Ground, holes' \ pending')
  BY <1>2 DEF Filled
<1>. QED
  BY <1>2, <1>3, <1>4, <1>5 DEF GapInv

LEMMA FillHoleGaps == RepairInv /\ GapInv /\ FillHole => GapInv'
<1>. SUFFICES ASSUME RepairInv, GapInv, FillHole PROVE GapInv'
  OBVIOUS
<1>1. RepairTypeOK /\ phase = "filling"
  BY DEF RepairInv, FillHole
<1>2. PICK U \in SUBSET Faces : holes = SmallHoles(U, config.gap) /\ Ground = Filled(U, holes \ pending)
  BY <1>1 DEF GapInv
<1>3. holes \subseteq HolesIn[U] /\ holes \subseteq SUBSET Faces /\ pending \subseteq holes
  <2>1. holes \subseteq HolesIn[U]
    BY <1>2 DEF SmallHoles
  <2>. QED
    BY <1>1, <2>1, HolesAreFaces DEF RepairTypeOK
<1>4. /\ config' = config /\ holes' = holes
      /\ phase' = IF pending' = {} THEN "safety" ELSE "filling"
  BY <1>1 DEF FillHole
<1>5. PICK hole \in pending :
        /\ IF Widest(hole) # {}
           THEN repaired' = [repaired EXCEPT ![Min(Widest(hole))] =
                                [faces |-> repaired[Min(Widest(hole))].faces \cup hole, kind |-> "polygon"]]
           ELSE repaired' = repaired
        /\ pending' = pending \ {hole}
  BY DEF FillHole
<1>6. Ground' = Ground \cup hole
  <2>1. CASE Widest(hole) = {}
    <3>1. Ground' = Ground
      BY <1>5, <2>1 DEF Ground, Covered, PlacedIn
    <3>2. hole \subseteq Ground
      <4>1. holes \ pending \in SUBSET HolesIn[U] /\ hole \in HolesIn[U]
        BY <1>3, <1>5
      <4>. QED
        BY <1>1, <1>2, <2>1, <4>1, NoTargetMeansCovered
    <3>. QED
      BY <3>1, <3>2
  <2>2. CASE Widest(hole) # {}
    <3>. DEFINE target == Min(Widest(hole))
    <3>1. target \in PlacedIn(Len(repaired))
      BY <1>1, <2>2, TargetThere DEF Widest
    <3>2. repaired' = [repaired EXCEPT ![target] =
                          [faces |-> repaired[target].faces \cup hole, kind |-> "polygon"]]
      BY <1>5, <2>2
    <3>. HIDE DEF target
    <3>3. PlacedIn(Len(repaired)) = {k \in Features : IsPolygonal(repaired[k])} /\ Len(repaired) = Len(originals)
      BY <1>1, GroundIs
    <3>4. target \in Features /\ IsPolygonal(repaired[target])
      BY <3>1, <3>3
    <3>5. repaired \in [Features -> Geometries]
      BY <1>1 DEF RepairTypeOK
    <3>6. repaired'[target] = [faces |-> repaired[target].faces \cup hole, kind |-> "polygon"]
          /\ \A k \in Features : k # target => repaired'[k] = repaired[k]
      BY <3>2, <3>4, <3>5
    <3>7. hole # {}
      <4>1. hole \in HolesIn[U]
        BY <1>3, <1>5
      <4>2. PICK P \in Parts[U] : Encloses(P, hole)
        BY <4>1, HolesAre
      <4>. QED
        BY <4>2, PartsAre DEF Encloses
    <3>8. IsPolygonal(repaired'[target])
      BY <3>6, <3>7 DEF IsPolygonal, IsEmpty
    <3>9. RepairTypeOK' /\ Features' = Features
      BY <1>1, FillHoleInv DEF RepairInv, FillHole, Features
    <3>10. PlacedIn(Len(repaired))' = {k \in Features : IsPolygonal(repaired'[k])}
           /\ \A x : x \in Ground' <=> \E k \in PlacedIn(Len(repaired))' : x \in repaired'[k].faces
      <4>1. repaired' \in [1..Len(originals) -> Geometries] /\ Len(originals) \in Nat
        BY <1>1, <3>9 DEF RepairTypeOK, Features, FillHole
      <4>2. Len(repaired') = Len(originals)
        BY <4>1
      <4>3. PlacedIn(Len(repaired))' = {k \in Features : IsPolygonal(repaired'[k])}
        BY <4>2 DEF PlacedIn, Features
      <4>4. Ground' = UNION {repaired'[k].faces : k \in PlacedIn(Len(repaired))'}
        BY DEF Ground, Covered
      <4>. QED
        BY <4>3, <4>4
    <3>11. PlacedIn(Len(repaired))' = PlacedIn(Len(repaired))
      BY <3>3, <3>4, <3>6, <3>8, <3>10
    <3>12. \A x : x \in Ground <=> \E k \in PlacedIn(Len(repaired)) : x \in repaired[k].faces
      BY <1>1, GroundIs
    <3>13. ASSUME NEW x PROVE x \in Ground' <=> x \in Ground \cup hole
      BY <3>1, <3>3, <3>6, <3>10, <3>11, <3>12
    <3>. QED
      BY <3>13
  <2>. QED
    BY <2>1, <2>2
<1>7. Ground' = Filled(U, holes' \ pending')
  BY <1>2, <1>3, <1>4, <1>5, <1>6 DEF Filled
<1>8. CASE pending' = {}
  <2>1. Ground' = Filled(U, holes)
    BY <1>4, <1>7, <1>8
  <2>2. SmallHoles(Ground', config.gap) = {}
    BY <1>2, <2>1, AllFilled
  <2>. QED
    BY <1>4, <1>8, <2>2 DEF GapInv
<1>9. CASE pending' # {}
  BY <1>2, <1>3, <1>4, <1>7, <1>9 DEF GapInv
<1>. QED
  BY <1>8, <1>9

\* The other loops: what was put back is known to have failed.
LEMMA OtherStepsGaps ==
  ASSUME RepairInv, GapInv, RepairFeature \/ EraseOverlap \/ RollBack
  PROVE  GapInv'
<1>1. CASE RepairFeature \/ EraseOverlap
  <2>1. config' = config /\ (phase' = phase \/ phase' \in {"overlaps", AfterOverlaps})
        /\ phase \in {"intrinsic", "overlaps"}
    BY <1>1 DEF RepairFeature, EraseOverlap, Advance, AfterIntrinsic
  <2>. QED
    BY <2>1 DEF AfterOverlaps, GapInv
<1>2. CASE RollBack
  <2>1. Features # {}
    BY <1>2, TypesHelp DEF RollBack, Running
  <2>2. phase' = "safety" /\ Features' = Features /\ \A i \in Features : failed'[i]
    BY <1>2 DEF RollBack, Features
  <2>3. ~Accepted'
    BY <2>1, <2>2 DEF Accepted
  <2>. QED
    BY <2>2, <2>3 DEF GapInv
<1>. QED
  BY <1>1, <1>2

\* The last loop puts back only what it reports as failed.
LEMMA CheckSafetyGaps == RepairInv /\ GapInv /\ CheckSafety => GapInv'
<1>. SUFFICES ASSUME RepairInv, GapInv, CheckSafety PROVE GapInv'
  OBVIOUS
<1>1. RepairTypeOK /\ phase = "safety" /\ phase' \in {"safety", "done"} /\ config' = config
      /\ Features' = Features /\ at \in Features
  BY TypesHelp DEF RepairInv, CheckSafety, Advance, Features, Running
<1>2. repaired' = [repaired EXCEPT ![at] = IF Rejected(at) THEN originals[at] ELSE repaired[at]]
      /\ failed' = [failed EXCEPT ![at] = Rejected(at)]
  BY DEF CheckSafety
<1>3. repaired \in [Features -> Geometries] /\ failed \in [Features -> BOOLEAN]
  BY <1>1 DEF RepairTypeOK
<1>4. ASSUME Accepted' PROVE Accepted /\ repaired' = repaired
  <2>1. \A i \in Features : ~failed'[i]
    BY <1>1, <1>4 DEF Accepted
  <2>2. ~Rejected(at)
    BY <1>1, <1>2, <1>3, <2>1
  <2>3. ~failed[at]
    BY <2>2 DEF Rejected
  <2>. QED
    BY <1>1, <1>2, <1>3, <2>1, <2>2, <2>3 DEF Accepted
<1>5. repaired' = repaired => Ground' = Ground
  BY DEF Ground, Covered, PlacedIn
<1>. QED
  BY <1>1, <1>4, <1>5 DEF GapInv

\* A step of a call, or of the client around it, keeps what is known of gaps.
THEOREM GapStepInv == RepairInv /\ GapInv /\ [RepairStep]_repairVars => GapInv'
<1>1. ASSUME RepairInv, GapInv, RepairStep PROVE GapInv'
  BY <1>1, FindHolesGaps, FillHoleGaps, OtherStepsGaps, CheckSafetyGaps DEF RepairStep
<1>2. ASSUME GapInv, UNCHANGED repairVars PROVE GapInv'
  BY <1>2 DEF GapInv, Ground, Covered, PlacedIn, Accepted, Features, repairVars
<1>. QED
  BY <1>1, <1>2

\* A finished call has left no enclosed gap below the threshold.
THEOREM GapInvImplies == GapInv => GapsClosed
  BY Zenon DEF GapInv, GapsClosed, Ground, Accepted
=============================================================================
