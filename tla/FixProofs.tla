------------------------------ MODULE FixProofs ------------------------------
(***************************************************************************)
(* What geoqc fix guarantees for every plane, every source and every layer:*)
(* the output is what it was or complete (OutputWhole), and the features   *)
(* written have lost nothing but slivers (OnlySafeChanges).  FixInv adds   *)
(* what holds in between: how many layers are in the temporary file, and   *)
(* that the first call, under SafeFixConfig, only mends.  Of the second    *)
(* call these two need nothing but its length, since nothing it makes is   *)
(* written.  The flags (OverlapsFlagged) are what it finds: FlagsInv       *)
(* follows it feature by feature.                                          *)
(***************************************************************************)
EXTENDS FixCommand, CoverageRepairProofs

Stages == {"start", "read", "safe", "review", "log", "exit"}

WrittenLayers ==
    [features : Seq(Geometries), reasons : Seq(SUBSET {"overlap", "gap", "repair_failed"}),
     badLines : Nat]

\* A feature with its issues mended, or as it was.
OnlyMended(now, was) == now.faces = was.faces \/ now.faces = Solid(was)

AllMended(now, was) ==
    /\ now \in Seq(Geometries)
    /\ Len(now) = Len(was)
    /\ \A k \in 1..Len(was) : OnlyMended(now[k], was[k])

FixTypeOK ==
    /\ source \in Seq(Layers)
    /\ stage \in Stages
    /\ layer \in Nat \ {0}
    /\ written \in Seq(WrittenLayers)
    /\ before \in {"absent", "old"}
    /\ originals \in Seq(Geometries)

\* The first call of a layer, and what is kept of it during the second.
LayerInv ==
    /\ stage \in {"safe", "review"} => layer \in 1..Len(source)
    /\ stage = "safe" =>
           /\ phase \in {"intrinsic", "safety", "done"}
           /\ config = SafeFixConfig
           /\ originals = source[layer].features
           /\ AllMended(repaired, originals)
    /\ stage = "review" => AllMended(safe.after, source[layer].features)

WrittenInv ==
    /\ stage \in {"start", "read", "safe", "review"} => Len(written) = layer - 1
    /\ stage = "log" => Len(written) = Len(source)
    /\ \A n \in 1..Len(written) :
           /\ n <= Len(source)
           /\ AllMended(written[n].features, source[n].features)
           /\ written[n].badLines = source[n].badLines

OutputInv ==
    /\ stage # "exit" => output = before /\ exit = None
    /\ stage = "exit" =>
           \/ exit = 0 /\ output = "new" /\ ~temporary /\ Len(written) = Len(source)
           \/ exit \in {1, 2} /\ output = before /\ ~temporary
           \/ exit = 137 /\ output = before

FixInv == FixTypeOK /\ LayerInv /\ WrittenInv /\ OutputInv

-----------------------------------------------------------------------------

LEMMA SafeConfigTyped == SafeFixConfig \in RepairConfigs
BY DEF SafeFixConfig, RepairConfigs

\* The first loop of the repairer only mends.
LEMMA MendingMends ==
    ASSUME NEW g \in Geometries
    PROVE  /\ AfterMending(g, SafeFixConfig) \in Geometries
           /\ OnlyMended(AfterMending(g, SafeFixConfig), g)
<1>. DEFINE m == Mended(g, SafeFixConfig)
<1>1. m \in Geometries /\ m.faces = g.faces
  BY DEF Mended, Geometries, Kinds
<1>2. Solid(m) = Solid(g)
  BY <1>1 DEF Solid
<1>3. Intrinsic(g, SafeFixConfig).faces \in {g.faces, Solid(g)}
  <2>1. Intrinsic(g, SafeFixConfig) =
            IF DropsSlivers(m, SafeFixConfig) THEN [m EXCEPT !.faces = Solid(m)] ELSE m
    BY DEF Intrinsic
  <2>. HIDE DEF m
  <2>. QED
    BY <2>1, <1>1, <1>2 DEF Geometries
<1>4. OnlyMended(AfterMending(g, SafeFixConfig), g)
  BY <1>3 DEF AfterMending, OnlyMended
<1>. QED
  BY <1>4, SafeConfigTyped, MendingShrinks

LEMMA SourceTyped ==
    ASSUME FixTypeOK, NEW n \in 1..Len(source)
    PROVE  source[n].features \in Seq(Geometries) /\ source[n].badLines \in Nat
<1>1. source[n] \in Layers
  BY DEF FixTypeOK
<1>. QED
  BY <1>1 DEF Layers

LEMMA FixInit == Init => FixInv
<1>. SUFFICES ASSUME Init PROVE FixInv
  OBVIOUS
<1>1. FixTypeOK
  BY SourceAssumption DEF Init, RepairInit, FixTypeOK, Stages
<1>2. LayerInv /\ WrittenInv /\ OutputInv
  BY DEF Init, LayerInv, WrittenInv, OutputInv
<1>. QED
  BY <1>1, <1>2 DEF FixInv

\* What the actions that end the command without an output have in common.
LEMMA Ends ==
    ASSUME FixInv, stage # "exit", stage' = "exit", exit' \in {1, 2, 137},
           exit' \in {1, 2} => ~temporary',
           written' \in {written, <<>>}, originals' \in {originals, <<>>},
           UNCHANGED <<source, layer, before, output>>
    PROVE  FixInv'
<1>1. FixTypeOK'
  <2>1. written' \in Seq(WrittenLayers) /\ originals' \in Seq(Geometries)
    <3>1. <<>> \in Seq(WrittenLayers) /\ <<>> \in Seq(Geometries)
      OBVIOUS
    <3>2. written \in Seq(WrittenLayers) /\ originals \in Seq(Geometries)
      BY DEF FixInv, FixTypeOK
    <3>. QED
      BY <3>1, <3>2
  <2>. QED
    BY <2>1 DEF FixInv, FixTypeOK, Stages
<1>2. LayerInv'
  BY DEF LayerInv
<1>3. WrittenInv'
  <2>1. CASE written' = <<>>
    BY <2>1 DEF WrittenInv
  <2>2. CASE written' = written
    BY <2>2 DEF FixInv, WrittenInv, AllMended, OnlyMended
  <2>. QED
    BY <2>1, <2>2
<1>4. OutputInv'
  BY DEF FixInv, OutputInv
<1>. QED
  BY <1>1, <1>2, <1>3, <1>4 DEF FixInv

LEMMA FailEnds ==
    ASSUME FixInv, stage # "exit", Fail, originals' \in {originals, <<>>},
           UNCHANGED <<source, layer, before, output>>
    PROVE  FixInv'
BY Ends DEF Fail

LEMMA StartKeeps == FixInv /\ Start => FixInv'
<1>. SUFFICES ASSUME FixInv, Start PROVE FixInv'
  OBVIOUS
<1>1. FixTypeOK'
  BY DEF FixInv, FixTypeOK, Stages, Start, repairVars
<1>2. LayerInv' /\ OutputInv'
  BY DEF FixInv, LayerInv, OutputInv, Start
<1>3. WrittenInv'
  BY DEF FixInv, WrittenInv, AllMended, OnlyMended, Start
<1>. QED
  BY <1>1, <1>2, <1>3 DEF FixInv

LEMMA ReadLayerKeeps == FixInv /\ ReadLayer => FixInv'
<1>. SUFFICES ASSUME FixInv, ReadLayer PROVE FixInv'
  OBVIOUS
<1>. DEFINE features == source[layer].features
<1>1. layer \in 1..Len(source) /\ features \in Seq(Geometries)
  BY SourceTyped DEF FixInv, FixTypeOK, ReadLayer
<1>2. /\ originals' = features /\ repaired' = features /\ config' = SafeFixConfig
      /\ phase' \in {"intrinsic", "done"}
      /\ stage = "read" /\ stage' = "safe"
      /\ UNCHANGED <<source, layer, temporary, written, output, before, exit>>
  BY DEF ReadLayer, Call
<1>3. FixTypeOK'
  BY <1>1, <1>2 DEF FixInv, FixTypeOK, Stages
<1>4. AllMended(features, features)
  BY <1>1 DEF AllMended, OnlyMended
<1>5. LayerInv'
  BY <1>1, <1>2, <1>4 DEF LayerInv, AllMended, OnlyMended
<1>6. WrittenInv' /\ OutputInv'
  BY <1>2 DEF FixInv, WrittenInv, AllMended, OnlyMended, OutputInv
<1>. QED
  BY <1>3, <1>5, <1>6 DEF FixInv

LEMMA SafeReturnsKeeps == FixInv /\ SafeReturns => FixInv'
<1>. SUFFICES ASSUME FixInv, SafeReturns PROVE FixInv'
  OBVIOUS
<1>1. /\ AllMended(repaired, source[layer].features)
      /\ layer \in 1..Len(source)
  BY DEF FixInv, LayerInv, SafeReturns
<1>2. /\ safe'.after = repaired /\ originals' = repaired
      /\ stage = "safe" /\ stage' = "review"
      /\ UNCHANGED <<source, layer, temporary, written, output, before, exit>>
  BY DEF SafeReturns, Call
<1>3. FixTypeOK'
  BY <1>1, <1>2 DEF FixInv, FixTypeOK, Stages, AllMended
<1>4. LayerInv'
  BY <1>1, <1>2 DEF LayerInv, AllMended, OnlyMended
<1>5. WrittenInv' /\ OutputInv'
  BY <1>2 DEF FixInv, WrittenInv, AllMended, OnlyMended, OutputInv
<1>. QED
  BY <1>3, <1>4, <1>5 DEF FixInv

LEMMA WriteLayerKeeps == FixInv /\ WriteLayer => FixInv'
<1>. SUFFICES ASSUME FixInv, WriteLayer PROVE FixInv'
  OBVIOUS
<1>1. /\ layer \in 1..Len(source)
      /\ AllMended(safe.after, source[layer].features)
      /\ written \in Seq(WrittenLayers) /\ Len(written) = layer - 1
  BY DEF FixInv, FixTypeOK, LayerInv, WrittenInv, WriteLayer
<1>2. /\ written' = Append(written, Written) /\ layer' = layer + 1
      /\ stage' = IF layer < Len(source) THEN "read" ELSE "log"
      /\ originals' = <<>>
      /\ stage = "review"
      /\ UNCHANGED <<source, output, before, exit>>
  BY DEF WriteLayer, Return
<1>3. Written \in WrittenLayers
  <2>1. safe.after \in Seq(Geometries) /\ source[layer].badLines \in Nat
    BY <1>1, SourceTyped DEF FixInv, AllMended
  <2>2. \A k \in Features : Reasons(k) \in SUBSET {"overlap", "gap", "repair_failed"}
    BY DEF Reasons
  <2>3. [k \in Features |-> Reasons(k)] \in Seq(SUBSET {"overlap", "gap", "repair_failed"})
    BY <2>2 DEF Features, FixInv, FixTypeOK
  <2>. QED
    BY <2>1, <2>3 DEF Written, WrittenLayers
<1>4. /\ written' \in Seq(WrittenLayers) /\ Len(written') = layer
      /\ \A n \in 1..layer : written'[n] = IF n < layer THEN written[n] ELSE Written
  BY <1>1, <1>2, <1>3
<1>5. FixTypeOK'
  BY <1>1, <1>2, <1>4 DEF FixInv, FixTypeOK, Stages
<1>6. LayerInv'
  BY <1>2 DEF LayerInv
<1>7. WrittenInv'
  <2>1. Len(source) \in Nat /\ source' = source
    BY <1>2 DEF FixInv, FixTypeOK
  <2>2. stage' = "read" => Len(written') = layer' - 1
    BY <1>1, <1>2, <1>4
  <2>3. stage' = "log" => Len(written') = Len(source)
    BY <1>1, <1>2, <1>4, <2>1
  <2>4. ASSUME NEW n \in 1..layer
        PROVE  /\ n <= Len(source)
               /\ AllMended(written'[n].features, source[n].features)
               /\ written'[n].badLines = source[n].badLines
    <3>1. CASE n < layer
      <4>1. n \in 1..Len(written) /\ written'[n] = written[n]
        BY <1>1, <1>4, <3>1
      <4>. QED
        BY <4>1 DEF FixInv, WrittenInv
    <3>2. CASE n = layer
      BY <1>1, <1>4, <2>1, <3>2 DEF Written
    <3>. QED
      BY <3>1, <3>2, <1>1
  <2>5. stage' \in {"read", "log"}
    BY <1>2
  <2>6. \A n \in 1..Len(written') :
            /\ n <= Len(source')
            /\ AllMended(written'[n].features, source'[n].features)
            /\ written'[n].badLines = source'[n].badLines
    BY <1>4, <2>1, <2>4
  <2>. QED
    BY <2>1, <2>2, <2>3, <2>5, <2>6 DEF WrittenInv, AllMended, OnlyMended
<1>8. OutputInv'
  BY <1>2 DEF FixInv, OutputInv
<1>. QED
  BY <1>5, <1>6, <1>7, <1>8 DEF FixInv

LEMMA PublishKeeps == FixInv /\ Publish => FixInv'
<1>. SUFFICES ASSUME FixInv, Publish PROVE FixInv'
  OBVIOUS
<1>1. FixTypeOK'
  BY DEF FixInv, FixTypeOK, Stages, Publish, repairVars
<1>2. LayerInv'
  BY DEF LayerInv, Publish
<1>3. WrittenInv' /\ OutputInv'
  BY DEF FixInv, WrittenInv, AllMended, OnlyMended, OutputInv, Publish
<1>. QED
  BY <1>1, <1>2, <1>3 DEF FixInv

\* A step of the repairer.  Under SafeFixConfig no cross-feature step is taken.
LEMMA FixingKeeps == FixInv /\ Fixing => FixInv'
<1>. SUFFICES ASSUME FixInv, Fixing PROVE FixInv'
  OBVIOUS
<1>1. originals' = originals /\ config' = config
  BY DEF Fixing, RepairStep, RepairFeature, EraseOverlap, FindHoles, FillHole, RollBack, CheckSafety
<1>2. FixTypeOK' /\ WrittenInv' /\ OutputInv'
  BY <1>1 DEF FixInv, FixTypeOK, WrittenInv, AllMended, OnlyMended, OutputInv, Fixing, fixVars
<1>3. LayerInv'
  <2>1. CASE stage = "review"
    BY <2>1 DEF FixInv, LayerInv, AllMended, OnlyMended, Fixing, fixVars
  <2>2. CASE stage = "safe"
    <3>1. /\ phase \in {"intrinsic", "safety", "done"} /\ config = SafeFixConfig
          /\ AllMended(repaired, originals)
      BY <2>2 DEF FixInv, LayerInv
    <3>2. RepairFeature \/ CheckSafety
      BY <2>2, <3>1 DEF Fixing, RepairStep, EraseOverlap, FindHoles, FillHole, RollBack
    <3>3. phase' \in {"intrinsic", "safety", "done"}
      BY <3>1, <3>2 DEF RepairFeature, CheckSafety, Advance, AfterIntrinsic, AfterOverlaps, SafeFixConfig
    <3>4. PICK new : /\ repaired' = [repaired EXCEPT ![at] = new]
                     /\ at \in 1..Len(originals) =>
                            new \in Geometries /\ OnlyMended(new, originals[at])
      <4>1. CASE RepairFeature
        <5>1. repaired' = [repaired EXCEPT ![at] = AfterMending(originals[at], SafeFixConfig)]
          BY <4>1, <3>1 DEF RepairFeature
        <5>2. at \in 1..Len(originals) => originals[at] \in Geometries
          BY DEF FixInv, FixTypeOK
        <5>. QED
          BY <5>1, <5>2, MendingMends
      <4>2. CASE CheckSafety
        <5>1. repaired' = [repaired EXCEPT ![at] = IF Rejected(at) THEN originals[at] ELSE repaired[at]]
          BY <4>2 DEF CheckSafety
        <5>2. ASSUME at \in 1..Len(originals)
              PROVE  /\ originals[at] \in Geometries /\ OnlyMended(originals[at], originals[at])
                     /\ repaired[at] \in Geometries /\ OnlyMended(repaired[at], originals[at])
          BY <5>2, <3>1 DEF FixInv, FixTypeOK, AllMended, OnlyMended
        <5>. QED
          BY <5>1, <5>2
      <4>. QED
        BY <3>2, <4>1, <4>2
    <3>5. AllMended(repaired', originals)
      <4>1. repaired \in [1..Len(originals) -> Geometries] /\ Len(originals) \in Nat
        BY <3>1 DEF AllMended, FixInv, FixTypeOK
      <4>2. repaired' \in [1..Len(originals) -> Geometries]
        BY <4>1, <3>4
      <4>3. repaired' \in Seq(Geometries) /\ Len(repaired') = Len(originals)
        BY <4>1, <4>2
      <4>4. ASSUME NEW k \in 1..Len(originals) PROVE OnlyMended(repaired'[k], originals[k])
        <5>1. CASE k = at
          BY <5>1, <4>1, <3>4
        <5>2. CASE k # at
          <6>1. repaired'[k] = repaired[k]
            BY <5>2, <4>1, <3>4
          <6>. QED
            BY <6>1, <3>1 DEF AllMended
        <5>. QED
          BY <5>1, <5>2
      <4>. QED
        BY <4>3, <4>4 DEF AllMended
    <3>. QED
      BY <2>2, <3>1, <3>3, <3>5, <1>1 DEF FixInv, LayerInv, AllMended, OnlyMended, Fixing, fixVars
  <2>. QED
    BY <2>1, <2>2 DEF Fixing
<1>. QED
  BY <1>2, <1>3 DEF FixInv

LEMMA FixStep == FixInv /\ [Next]_vars => FixInv'
<1>. SUFFICES ASSUME FixInv, [Next]_vars PROVE FixInv'
  OBVIOUS
<1>1. CASE Refuse
  BY <1>1, FailEnds DEF Refuse, repairVars
<1>2. CASE LayerFails
  BY <1>2, FailEnds DEF LayerFails, repairVars
<1>3. CASE WriteFails
  BY <1>3, FailEnds DEF WriteFails, Return
<1>4. CASE PublishFails
  BY <1>4, FailEnds DEF PublishFails, repairVars
<1>5. CASE Killed
  BY <1>5, Ends DEF Killed, repairVars
<1>6. CASE UNCHANGED vars
  <2>1. FixTypeOK' /\ WrittenInv' /\ OutputInv'
    BY <1>6 DEF FixInv, FixTypeOK, WrittenInv, AllMended, OnlyMended, OutputInv, vars, fixVars, repairVars
  <2>2. LayerInv'
    BY <1>6 DEF FixInv, LayerInv, AllMended, OnlyMended, vars, fixVars, repairVars
  <2>. QED
    BY <2>1, <2>2 DEF FixInv
<1>. QED
  BY <1>1, <1>2, <1>3, <1>4, <1>5, <1>6, StartKeeps, ReadLayerKeeps, SafeReturnsKeeps,
     WriteLayerKeeps, PublishKeeps, FixingKeeps DEF Next

LEMMA FixInvariant == Spec => []FixInv
BY FixInit, FixStep, PTL DEF Spec

-----------------------------------------------------------------------------

\* Whatever fails and whenever, the output is what it was or has every layer and
\* every row of the source, and the exit code tells which.
THEOREM FixOutputWhole == Spec => []OutputWhole
<1>1. FixInv => OutputWhole
  <2>. SUFFICES ASSUME FixInv PROVE OutputWhole
    OBVIOUS
  <2>1. ASSUME output # before
        PROVE  /\ Len(written) = Len(source)
               /\ \A n \in DOMAIN source :
                      /\ Len(written[n].features) = Len(source[n].features)
                      /\ written[n].badLines = source[n].badLines
    <3>1. Len(written) = Len(source) /\ DOMAIN source = 1..Len(source)
      BY <2>1 DEF FixInv, FixTypeOK, OutputInv
    <3>. QED
      BY <3>1 DEF FixInv, WrittenInv, AllMended
  <2>2. /\ exit \in {1, 2} => output = before /\ ~temporary
        /\ exit = 0 => output # before /\ ~temporary
    BY SourceAssumption DEF FixInv, FixTypeOK, OutputInv
  <2>. QED
    BY <2>1, <2>2 DEF OutputWhole
<1>. QED
  BY <1>1, FixInvariant, PTL

\* No feature geoqc fix writes has gained a face, or lost any but its slivers.
THEOREM FixOnlySafeChanges == Spec => []OnlySafeChanges
<1>1. FixInv => OnlySafeChanges
  <2>. SUFFICES ASSUME FixInv, NEW n \in DOMAIN written, NEW k \in DOMAIN written[n].features
                PROVE  OnlyMended(written[n].features[k], source[n].features[k])
    BY DEF OnlySafeChanges, OnlyMended
  <2>1. n \in 1..Len(written)
    BY DEF FixInv, FixTypeOK
  <2>2. AllMended(written[n].features, source[n].features)
    BY <2>1 DEF FixInv, WrittenInv
  <2>. QED
    BY <2>2 DEF AllMended
<1>. QED
  BY <1>1, FixInvariant, PTL

-----------------------------------------------------------------------------
(***************************************************************************)
(* Partial overlaps are flagged.  The first call has dropped the slivers,  *)
(* so the second finds none to drop and erases from the very features that *)
(* are written: what a feature shares with earlier ones is still there     *)
(* when the loop reaches it, and what it has for itself is left.           *)
(***************************************************************************)

\* Without slivers, or of slivers only.
Settled(g) == Solid(g) \in {{}, g.faces}

\* The parts of a union of parts are these parts.
LEMMA PartsOfParts ==
    ASSUME NEW S \in SUBSET Places, NEW C \in SUBSET Parts[S]
    PROVE  Parts[UNION C] = C
<1>. DEFINE Q == UNION C
<1>1. \A P \in Parts[S] : /\ P \subseteq S /\ P # {} /\ Linked(P)
                          /\ \A x \in P, y \in S \ P : Border[x, y] = 0
  BY DEF Parts
<1>2. Q \subseteq S /\ Q \in SUBSET Places
  BY <1>1
<1>3. Parts[Q] = {P \in (SUBSET Q) \ {{}} : Linked(P) /\ \A x \in P, y \in Q \ P : Border[x, y] = 0}
  BY <1>2 DEF Parts
<1>4. C \subseteq Parts[Q]
  <2>. SUFFICES ASSUME NEW P \in C PROVE P \in Parts[Q]
    OBVIOUS
  <2>1. P \subseteq Q /\ P # {} /\ Linked(P)
    BY <1>1
  <2>2. \A x \in P, y \in Q \ P : Border[x, y] = 0
    BY <1>1, <1>2
  <2>. QED
    BY <1>3, <2>1, <2>2
<1>5. ASSUME NEW P \in Parts[Q] PROVE P \in C
  <2>1. P \subseteq Q /\ P # {} /\ Linked(P) /\ \A x \in P, y \in Q \ P : Border[x, y] = 0
    BY <1>3
  <2>2. PICK x \in P, R \in C : x \in R
    BY <2>1
  <2>3. R \subseteq Q /\ R # {} /\ Linked(R) /\ \A u \in R, v \in S \ R : Border[u, v] = 0
    BY <1>1
  <2>4. R \subseteq P
    <3>1. SUFFICES ASSUME ~(R \subseteq P) PROVE FALSE
      OBVIOUS
    <3>2. P \cap R \in (SUBSET R) \ {{}, R}
      BY <2>2, <3>1
    <3>3. PICK u \in P \cap R, v \in R \ (P \cap R) : Border[u, v] > 0
      BY <2>3, <3>2 DEF Linked
    <3>4. v \in Q \ P
      BY <2>3, <3>3
    <3>5. Border[u, v] = 0
      BY <2>1, <3>4
    <3>. DEFINE length == Border[u, v]
    <3>6. length > 0 /\ length = 0
      BY <3>3, <3>5
    <3>. HIDE DEF length
    <3>. QED
      BY <3>6
  <2>5. P \subseteq R
    <3>1. SUFFICES ASSUME ~(P \subseteq R) PROVE FALSE
      OBVIOUS
    <3>2. R \in (SUBSET P) \ {{}, P}
      BY <2>3, <2>4, <3>1
    <3>3. PICK u \in R, v \in P \ R : Border[u, v] > 0
      BY <2>1, <3>2 DEF Linked
    <3>4. v \in S \ R
      BY <1>2, <2>1, <3>3
    <3>5. Border[u, v] = 0
      BY <2>3, <3>4
    <3>. DEFINE length == Border[u, v]
    <3>6. length > 0 /\ length = 0
      BY <3>3, <3>5
    <3>. HIDE DEF length
    <3>. QED
      BY <3>6
  <2>6. P = R
    BY <2>4, <2>5
  <2>. QED
    BY <2>6
<1>. QED
  BY <1>4, <1>5

\* Slivers are dropped once and for all.
LEMMA SolidTwice ==
    ASSUME NEW g \in Geometries, NEW h, h.faces = Solid(g)
    PROVE  Solid(h) = h.faces
<1>. DEFINE C == Parts[g.faces] \ Slivers
<1>1. g.faces \in SUBSET Places
  BY DEF Geometries, Places
<1>2. Parts[UNION C] = C
  <2>1. C \in SUBSET Parts[g.faces]
    OBVIOUS
  <2>. HIDE DEF C
  <2>. QED
    BY <1>1, <2>1, PartsOfParts
<1>3. UNION (Parts[UNION C] \ Slivers) = UNION C
  BY <1>2
<1>. QED
  BY <1>3 DEF Solid

LEMMA BareIsSettled ==
    ASSUME NEW g, g.faces = {}
    PROVE  Settled(g)
<1>1. Parts[{}] = {}
  BY DEF Parts
<1>. QED
  BY <1>1 DEF Settled, Solid

Cautious(cfg) == cfg.mend /\ cfg.slivers /\ cfg.budget = None

LEMMA BothCautious == Cautious(SafeFixConfig) /\ Cautious(ReviewConfig)
BY DEF Cautious, SafeFixConfig, ReviewConfig

\* Mending a feature that covers something and that GEOS can read never fails.
LEMMA MendingSucceeds ==
    ASSUME NEW g \in Geometries, NEW cfg, Cautious(cfg), g.kind # "broken", g.faces # {}
    PROVE  /\ ~MendingFails(g, cfg)
           /\ AfterMending(g, cfg) = Intrinsic(g, cfg)
           /\ Intrinsic(g, cfg).kind = "polygon"
           /\ Intrinsic(g, cfg).faces = IF DropsSlivers(g, cfg) THEN Solid(g) ELSE g.faces
<1>. DEFINE m == Mended(g, cfg)
            r == Intrinsic(g, cfg)
<1>1. m = [g EXCEPT !.kind = "polygon"]
  <2>1. g.kind \in {"polygon", "repeated", "selftouch"}
    BY DEF Geometries, Kinds
  <2>2. g.kind = "polygon" => g = [g EXCEPT !.kind = "polygon"]
    BY DEF Geometries
  <2>. QED
    BY <2>1, <2>2 DEF Mended, Cautious
<1>2. m.kind = "polygon" /\ m.faces = g.faces /\ m \in Geometries
  BY <1>1 DEF Geometries, Kinds
<1>3. Solid(m) = Solid(g) /\ (DropsSlivers(m, cfg) <=> DropsSlivers(g, cfg))
  BY <1>2 DEF Solid, DropsSlivers
<1>4. r.kind = "polygon" /\ r.faces = IF DropsSlivers(g, cfg) THEN Solid(g) ELSE g.faces
  <2>1. r = IF DropsSlivers(m, cfg) THEN [m EXCEPT !.faces = Solid(m)] ELSE m
    BY DEF Intrinsic
  <2>. HIDE DEF m, r
  <2>2. CASE DropsSlivers(g, cfg)
    <3>1. r = [m EXCEPT !.faces = Solid(m)]
      BY <2>1, <2>2, <1>3
    <3>. QED
      BY <3>1, <2>2, <1>2, <1>3 DEF Geometries
  <2>3. CASE ~DropsSlivers(g, cfg)
    BY <2>1, <2>3, <1>2, <1>3
  <2>. QED
    BY <2>2, <2>3
<1>5. r.faces # {}
  BY <1>4 DEF DropsSlivers
<1>. HIDE DEF m, r
<1>6. ~SafetyFailure(g, r, cfg)
  BY <1>4, <1>5 DEF SafetyFailure, IsValid, IsEmpty, IsPolygonal, OverBudget, Cautious
<1>7. ~MendingFails(g, cfg)
  BY <1>6 DEF MendingFails, MendRaises, r
<1>. QED
  BY <1>4, <1>7 DEF AfterMending, r

\* What the first call leaves is settled, and the second leaves it alone.
LEMMA MendedIsSettled ==
    ASSUME NEW g \in Geometries, AfterMending(g, SafeFixConfig).kind # "broken"
    PROVE  Settled(AfterMending(g, SafeFixConfig))
<1>. DEFINE a == AfterMending(g, SafeFixConfig)
<1>1. CASE g.kind = "broken"
  BY <1>1 DEF AfterMending, MendingFails, MendRaises, SafeFixConfig
<1>2. CASE a.faces = {}
  BY <1>2, BareIsSettled
<1>3. CASE g.kind # "broken" /\ a.faces # {}
  <2>0. SafeFixConfig \in RepairConfigs
    BY SafeConfigTyped
  <2>1. g.faces # {}
    BY <1>3, <2>0, MendingShrinks
  <2>2. a.faces = IF DropsSlivers(g, SafeFixConfig) THEN Solid(g) ELSE g.faces
    BY <1>3, <2>1, MendingSucceeds, BothCautious
  <2>. HIDE DEF a
  <2>3. CASE DropsSlivers(g, SafeFixConfig)
    <3>1. a.faces = Solid(g)
      BY <2>2, <2>3
    <3>2. Solid(a) = a.faces
      BY <3>1, SolidTwice
    <3>. QED
      BY <3>2 DEF Settled, a
  <2>4. CASE ~DropsSlivers(g, SafeFixConfig)
    <3>1. Solid(a) = Solid(g) /\ a.faces = g.faces
      BY <2>2, <2>4 DEF Solid
    <3>. QED
      BY <2>4, <3>1 DEF DropsSlivers, Settled, SafeFixConfig, a
  <2>. QED
    BY <2>3, <2>4
<1>. QED
  BY <1>1, <1>2, <1>3

LEMMA SettledStays ==
    ASSUME NEW g \in Geometries, g.kind # "broken", Settled(g)
    PROVE  /\ AfterMending(g, ReviewConfig).faces = g.faces
           /\ AfterMending(g, ReviewConfig).kind # "broken"
           /\ MendingFails(g, ReviewConfig) => g.faces = {}
<1>1. CASE g.faces # {}
  <2>1. ~DropsSlivers(g, ReviewConfig)
    BY DEF DropsSlivers, Settled
  <2>. QED
    BY <1>1, <2>1, MendingSucceeds, BothCautious
<1>2. CASE g.faces = {}
  <2>1. ReviewConfig \in RepairConfigs
    BY DEF ReviewConfig, SafeFixConfig, RepairConfigs
  <2>2. AfterMending(g, ReviewConfig).faces = {}
    BY <1>2, <2>1, MendingShrinks
  <2>3. AfterMending(g, ReviewConfig).kind # "broken"
    BY DEF AfterMending, Intrinsic, Mended, Geometries
  <2>. QED
    BY <1>2, <2>2, <2>3
<1>. QED
  BY <1>1, <1>2

-----------------------------------------------------------------------------

\* The first call keeps an original only where it could not have mended it.
SafeInv ==
    stage = "safe" =>
        /\ \A k \in Features : failed[k] => MendingFails(originals[k], SafeFixConfig)
        /\ phase \in {"safety", "done"} =>
               \A k \in Features : repaired[k] = AfterMending(originals[k], SafeFixConfig)

Before(k) == UNION {originals[j].faces : j \in 1..(k - 1)}

\* A feature the review pass has to cut, and one it says it has cut.
Cut(k) == originals[k].faces \cap Before(k) # {} /\ ~(originals[k].faces \subseteq Before(k))
Shown(k) == "overlap" \in actions[k] /\ ~failed[k] /\ repaired[k].kind = "polygon" /\ repaired[k].faces # {}

\* What the features the overlap loop has placed cover together is what they
\* covered before; those it has not reached are as they were.
ErasureInv ==
    /\ \A k \in Features : repaired[k].faces \subseteq originals[k].faces
    /\ \A k \in Features : k >= at => repaired[k].faces = originals[k].faces
    /\ \A k \in Features : k < at => \A f \in originals[k].faces : \E j \in 1..k : f \in repaired[j].faces
    /\ \A k \in Features : k < at /\ Cut(k) => Shown(k)

CallReviewInv ==
    /\ \A k \in Features : repaired[k].kind # "broken"
    /\ phase \in {"intrinsic", "overlaps"} => \A k \in Features : failed[k] => originals[k].faces = {}
    /\ phase = "intrinsic" => \A k \in Features : repaired[k].faces = originals[k].faces
    /\ phase = "overlaps" => ErasureInv
    /\ phase \in {"gaps", "filling", "safety", "done"} => \A k \in Features : Cut(k) => Shown(k)

ReviewInv ==
    stage = "review" =>
        /\ config = ReviewConfig /\ originals = safe.after
        /\ \A k \in Features : originals[k].kind # "broken" => Settled(originals[k])
        /\ (\A k \in Features : originals[k].kind # "broken") => CallReviewInv

FlagsInv == SafeInv /\ ReviewInv /\ OverlapsFlagged

FullInv == RepairInv /\ FixInv /\ FlagsInv

-----------------------------------------------------------------------------

LEMMA ReviewConfigTyped == ReviewConfig \in RepairConfigs
BY DEF ReviewConfig, SafeFixConfig, RepairConfigs

\* The calls of the command are calls of the repairer.
LEMMA RepairHolds == RepairInv /\ FixInv /\ [Next]_vars => RepairInv'
<1>. SUFFICES ASSUME RepairInv, FixInv, [Next]_vars PROVE RepairInv'
  OBVIOUS
<1>1. ASSUME UNCHANGED repairVars PROVE RepairInv'
  BY <1>1, RepairStepInv
<1>2. CASE ReadLayer
  <2>1. source[layer].features \in Seq(Geometries)
    BY <1>2, SourceTyped DEF FixInv, FixTypeOK, ReadLayer
  <2>. QED
    BY <1>2, <2>1, CallKeepsInv, SafeConfigTyped DEF ReadLayer
<1>3. CASE SafeReturns
  <2>1. repaired \in Seq(Geometries)
    BY <1>3 DEF FixInv, LayerInv, AllMended, SafeReturns
  <2>. QED
    BY <1>3, <2>1, CallKeepsInv, ReviewConfigTyped DEF SafeReturns
<1>4. CASE WriteLayer \/ WriteFails
  BY <1>4, ReturnInv DEF WriteLayer, WriteFails
<1>5. CASE Fixing
  BY <1>5, RepairStepInv DEF Fixing
<1>6. CASE Start \/ Refuse \/ LayerFails \/ Publish \/ PublishFails \/ Killed \/ UNCHANGED vars
  BY <1>1, <1>6 DEF Start, Refuse, LayerFails, Publish, PublishFails, Killed, vars
<1>. QED
  BY <1>2, <1>3, <1>4, <1>5, <1>6 DEF Next

-----------------------------------------------------------------------------

\* A step of the first call.
LEMMA SafeStep ==
    ASSUME RepairInv, FixInv, SafeInv, stage = "safe", stage' = "safe", RepairStep
    PROVE  SafeInv'
<1>1. config = SafeFixConfig /\ phase \in {"intrinsic", "safety", "done"}
  BY DEF FixInv, LayerInv
<1>2. RepairFeature \/ CheckSafety
  BY <1>1 DEF RepairStep, EraseOverlap, FindHoles, FillHole, RollBack
<1>3. Running /\ phase \in {"intrinsic", "safety"}
  BY <1>1, <1>2 DEF RepairFeature, CheckSafety, Running
<1>. USE TypesHelp
<1>4. /\ repaired \in [Features -> Geometries] /\ failed \in [Features -> BOOLEAN]
      /\ originals' = originals /\ Features' = Features /\ Features = 1..Len(originals)
  BY <1>2 DEF RepairInv, RepairTypeOK, RepairFeature, CheckSafety, Features
<1>5. CASE RepairFeature
  <2>1. /\ failed' = [failed EXCEPT ![at] = MendingFails(originals[at], SafeFixConfig)]
        /\ repaired' = [repaired EXCEPT ![at] = AfterMending(originals[at], SafeFixConfig)]
        /\ phase = "intrinsic" /\ (phase' = "safety" => at = Len(originals))
    BY <1>1, <1>3, <1>5 DEF RepairFeature, Advance, Features
  <2>2. \A k \in Features : failed'[k] => MendingFails(originals[k], SafeFixConfig)
    BY <1>3, <1>4, <2>1 DEF SafeInv
  <2>3. \A k \in Features : k < at => repaired[k] = AfterMending(originals[k], SafeFixConfig)
    BY <1>1, <2>1 DEF RepairInv, ClaimInv
  <2>4. ASSUME phase' \in {"safety", "done"}, NEW k \in Features
        PROVE  repaired'[k] = AfterMending(originals[k], SafeFixConfig)
    <3>1. at = Len(originals)
      BY <1>5, <2>1, <2>4 DEF RepairFeature, Advance, AfterIntrinsic, AfterOverlaps
    <3>2. CASE k = at
      BY <1>3, <1>4, <2>1, <3>2
    <3>3. CASE k # at
      <4>1. k < at
        BY <1>3, <1>4, <3>1, <3>3
      <4>. QED
        BY <1>3, <1>4, <2>1, <2>3, <3>3, <4>1
    <3>. QED
      BY <3>2, <3>3
  <2>. QED
    BY <1>4, <2>2, <2>4 DEF SafeInv
<1>6. CASE CheckSafety
  <2>1. /\ failed' = [failed EXCEPT ![at] = Rejected(at)]
        /\ repaired' = [repaired EXCEPT ![at] = IF Rejected(at) THEN originals[at] ELSE repaired[at]]
        /\ \A k \in Features : repaired[k] = AfterMending(originals[k], SafeFixConfig)
        /\ \A k \in Features : failed[k] => MendingFails(originals[k], SafeFixConfig)
    BY <1>6 DEF CheckSafety, SafeInv
  <2>2. Rejected(at) => MendingFails(originals[at], SafeFixConfig)
    <3>1. SUFFICES ASSUME ~MendingFails(originals[at], SafeFixConfig) PROVE ~Rejected(at)
      OBVIOUS
    <3>2. repaired[at] = Intrinsic(originals[at], SafeFixConfig)
      BY <1>3, <2>1, <3>1 DEF AfterMending
    <3>3. ~SafetyFailure(originals[at], Intrinsic(originals[at], SafeFixConfig), SafeFixConfig)
      BY <3>1 DEF MendingFails
    <3>. QED
      BY <1>1, <1>3, <2>1, <3>1, <3>2, <3>3 DEF Rejected
  <2>3. \A k \in Features : failed'[k] => MendingFails(originals[k], SafeFixConfig)
    BY <1>3, <1>4, <2>1, <2>2
  <2>4. MendingFails(originals[at], SafeFixConfig) => AfterMending(originals[at], SafeFixConfig) = originals[at]
    BY DEF AfterMending
  <2>5. \A k \in Features : repaired'[k] = AfterMending(originals[k], SafeFixConfig)
    BY <1>3, <1>4, <2>1, <2>2, <2>4
  <2>. QED
    BY <1>4, <2>3, <2>5 DEF SafeInv
<1>. QED
  BY <1>2, <1>5, <1>6

\* What the second call is given.
LEMMA ReviewBegins ==
    ASSUME RepairInv, FixInv, SafeInv, SafeReturns
    PROVE  ReviewInv'
<1>1. /\ \A k \in Features : repaired[k] = AfterMending(originals[k], SafeFixConfig)
      /\ repaired \in [Features -> Geometries] /\ originals \in [Features -> Geometries]
      /\ repaired \in Seq(Geometries) /\ Features = 1..Len(repaired)
  BY DEF SafeInv, SafeReturns, RepairInv, RepairTypeOK, Features, FixInv, LayerInv, AllMended
<1>2. /\ config' = ReviewConfig /\ originals' = repaired /\ repaired' = repaired /\ safe'.after = repaired
      /\ Features' = Features
      /\ failed' = [k \in Features |-> FALSE]
      /\ phase' = IF repaired = <<>> THEN "done" ELSE "intrinsic"
  BY <1>1 DEF SafeReturns, Call, Features
<1>3. ASSUME NEW k \in Features, repaired[k].kind # "broken" PROVE Settled(repaired[k])
  BY <1>1, <1>3, MendedIsSettled
<1>4. CASE repaired = <<>>
  <2>1. Features = {}
    BY <1>1, <1>4
  <2>. QED
    BY <1>2, <2>1, <1>4 DEF ReviewInv, CallReviewInv
<1>5. CASE repaired # <<>>
  BY <1>2, <1>3, <1>5 DEF ReviewInv, CallReviewInv, Settled, Solid
<1>. QED
  BY <1>4, <1>5

-----------------------------------------------------------------------------
(* The second call, when GEOS can read every feature. *)

Reviewing ==
    /\ RepairInv /\ ReviewInv /\ CallReviewInv
    /\ config = ReviewConfig
    /\ \A k \in Features : originals[k].kind # "broken" /\ Settled(originals[k])

LEMMA ReviewTypes ==
    ASSUME Reviewing
    PROVE  /\ repaired \in [Features -> Geometries] /\ originals \in [Features -> Geometries]
           /\ actions \in [Features -> SUBSET Issues] /\ failed \in [Features -> BOOLEAN]
           /\ Features = 1..Len(originals) /\ Len(originals) \in Nat /\ Len(repaired) = Len(originals)
BY DEF Reviewing, RepairInv, RepairTypeOK, Features

\* The cross-feature steps raise nothing.
LEMMA NothingRaises ==
    ASSUME Reviewing
    PROVE  ~RollBack
<1>1. ASSUME NEW n \in 0..Len(originals) PROVE ~Breaks(PlacedIn(n))
  BY ReviewTypes DEF Reviewing, CallReviewInv, Breaks, PlacedIn
<1>2. ~Breaks(PlacedIn(Len(repaired)))
  BY <1>1, ReviewTypes
<1>3. ~OverlayRaises
  <2>1. at \in Nat /\ (at > Len(originals) => Len(originals) = 0 /\ at = 1)
    BY ReviewTypes DEF Reviewing, RepairInv, RepairTypeOK
  <2>2. CASE at <= Len(originals)
    BY <1>1, <2>1, <2>2 DEF OverlayRaises
  <2>3. CASE at > Len(originals)
    <3>1. PlacedIn(at - 1) = {}
      BY <2>1, <2>3 DEF PlacedIn
    <3>. QED
      BY <3>1 DEF OverlayRaises
  <2>. QED
    BY <2>1, <2>2, <2>3, ReviewTypes
<1>. QED
  BY <1>2, <1>3 DEF RollBack

LEMMA ReviewMends ==
    ASSUME Reviewing, RepairFeature
    PROVE  CallReviewInv'
<1>. DEFINE g == originals[at]
<1>1. Running /\ phase = "intrinsic"
  BY DEF RepairFeature, Running
<1>2. at \in Features /\ originals' = originals /\ Features' = Features
  BY <1>1, TypesHelp DEF Reviewing, RepairFeature, Features
<1>3. /\ repaired' = [repaired EXCEPT ![at] = AfterMending(g, ReviewConfig)]
      /\ failed' = [failed EXCEPT ![at] = MendingFails(g, ReviewConfig)]
      /\ phase' \in {"intrinsic", "overlaps"} /\ (phase' = "overlaps" => at' = 1)
  BY <1>2, ReviewTypes DEF Reviewing, RepairFeature, Advance, AfterIntrinsic, ReviewConfig, SafeFixConfig, Features
<1>4. /\ AfterMending(g, ReviewConfig).faces = g.faces
      /\ AfterMending(g, ReviewConfig).kind # "broken"
      /\ MendingFails(g, ReviewConfig) => g.faces = {}
  BY <1>2, SettledStays, ReviewTypes DEF Reviewing
<1>. HIDE DEF g
<1>5. \A k \in Features : repaired'[k].kind # "broken"
  BY <1>1, <1>2, <1>3, <1>4, ReviewTypes DEF Reviewing, CallReviewInv
<1>6. \A k \in Features : failed'[k] => originals[k].faces = {}
  BY <1>1, <1>2, <1>3, <1>4, ReviewTypes DEF Reviewing, CallReviewInv, g
<1>7. \A k \in Features : repaired'[k].faces = originals[k].faces
  BY <1>1, <1>2, <1>3, <1>4, ReviewTypes DEF Reviewing, CallReviewInv, g
<1>8. phase' = "overlaps" => ErasureInv'
  BY <1>2, <1>3, <1>7, ReviewTypes DEF ErasureInv
<1>. QED
  BY <1>2, <1>3, <1>5, <1>6, <1>7, <1>8 DEF CallReviewInv

LEMMA ReviewErases ==
    ASSUME Reviewing, EraseOverlap
    PROVE  CallReviewInv'
<1>. DEFINE placed == PlacedIn(at - 1)
<1>1. Running /\ phase = "overlaps" /\ ErasureInv
  BY DEF EraseOverlap, Running, Reviewing, CallReviewInv
<1>2. at \in Features /\ originals' = originals /\ Features' = Features /\ failed' = failed
      /\ at - 1 \in Nat
  BY <1>1, TypesHelp DEF Reviewing, EraseOverlap, Features
<1>3. /\ repaired[at].faces = originals[at].faces
      /\ \A k \in 1..(at - 1) : k \in Features /\ repaired[k].faces \subseteq originals[k].faces
      /\ \A k \in 1..(at - 1) : \A f \in originals[k].faces : \E j \in 1..k : f \in repaired[j].faces
  <2>1. at >= at /\ \A k \in 1..(at - 1) : k \in Features /\ k < at
    BY <1>2, ReviewTypes
  <2>. QED
    BY <1>1, <1>2, <2>1 DEF ErasureInv
<1>4. Covered(placed) = Before(at)
  <2>1. ASSUME NEW f \in Covered(placed) PROVE f \in Before(at)
    BY <1>3, <2>1 DEF Covered, PlacedIn, Before
  <2>2. ASSUME NEW f \in Before(at) PROVE f \in Covered(placed)
    <3>1. PICK k \in 1..(at - 1) : f \in originals[k].faces
      BY <2>2 DEF Before
    <3>2. PICK j \in 1..k : f \in repaired[j].faces
      BY <1>3, <3>1
    <3>3. j \in 1..(at - 1) /\ j \in Features
      BY <1>2, <1>3, <3>1, <3>2
    <3>4. IsPolygonal(repaired[j])
      <4>1. repaired[j] \in Geometries
        BY <3>3, ReviewTypes
      <4>. QED
        BY <3>2, <4>1, NonPolygonalIsBare
    <3>5. j \in placed
      BY <3>3, <3>4 DEF PlacedIn
    <3>. QED
      BY <3>2, <3>5 DEF Covered
  <2>. QED
    BY <2>1, <2>2
<1>5. Erased(at) = originals[at].faces \ Before(at)
  BY <1>3, <1>4 DEF Erased
<1>. HIDE DEF placed
<1>6. ASSUME NEW k \in Features, k = at, Cut(k) PROVE Shown(k)'
  <2>1. originals[at].faces # {} /\ Erased(at) # {} /\ Erased(at) # repaired[at].faces
    BY <1>3, <1>5, <1>6 DEF Cut
  <2>2. IsPolygonal(repaired[at])
    <3>1. repaired[at] \in Geometries
      BY <1>2, ReviewTypes
    <3>. QED
      BY <1>3, <2>1, <3>1, NonPolygonalIsBare
  <2>3. /\ repaired' = [repaired EXCEPT ![at] = [faces |-> Erased(at), kind |-> "polygon"]]
        /\ actions' = [actions EXCEPT ![at] = actions[at] \cup {"overlap"}]
    BY <2>1, <2>2 DEF EraseOverlap
  <2>4. ~failed[at]
    BY <1>1, <1>2, <2>1 DEF Reviewing, CallReviewInv
  <2>. QED
    BY <1>2, <1>6, <2>1, <2>3, <2>4, ReviewTypes DEF Shown
<1>7. /\ \A k \in Features : k # at => repaired'[k] = repaired[k] /\ actions'[k] = actions[k]
      /\ repaired'[at].faces = Erased(at)
      /\ repaired'[at].kind # "broken"
  <2>1. CASE IsPolygonal(repaired[at]) /\ Erased(at) # repaired[at].faces
    <3>1. /\ repaired' = [repaired EXCEPT ![at] = [faces |-> Erased(at), kind |-> "polygon"]]
          /\ actions' = [actions EXCEPT ![at] = actions[at] \cup {"overlap"}]
      BY <2>1 DEF EraseOverlap
    <3>. QED
      BY <1>2, <3>1, ReviewTypes
  <2>2. CASE ~(IsPolygonal(repaired[at]) /\ Erased(at) # repaired[at].faces)
    <3>1. repaired' = repaired /\ actions' = actions
      BY <2>2 DEF EraseOverlap
    <3>2. Erased(at) = repaired[at].faces
      <4>1. repaired[at] \in Geometries
        BY <1>2, ReviewTypes
      <4>2. ~IsPolygonal(repaired[at]) => repaired[at].faces = {}
        BY <4>1, NonPolygonalIsBare
      <4>. QED
        BY <1>3, <1>5, <2>2, <4>2
    <3>. QED
      BY <1>2, <3>1, <3>2 DEF Reviewing, CallReviewInv
  <2>. QED
    BY <2>1, <2>2
<1>8. \A k \in Features : repaired'[k].kind # "broken"
  BY <1>7 DEF Reviewing, CallReviewInv
<1>9. \A k \in Features : k <= at /\ Cut(k) => Shown(k)'
  <2>1. ASSUME NEW k \in Features, k < at, Cut(k) PROVE Shown(k)'
    <3>1. Shown(k) /\ k # at
      BY <1>1, <1>2, <2>1 DEF ErasureInv, Features
    <3>. QED
      BY <1>2, <1>7, <3>1 DEF Shown
  <2>2. \A k \in Features : k <= at => k < at \/ k = at
    BY <1>2 DEF Features
  <2>. QED
    BY <1>6, <2>1, <2>2
<1>10. \A k \in Features : k <= at => \A f \in originals[k].faces : \E j \in 1..k : f \in repaired'[j].faces
  <2>1. ASSUME NEW k \in Features, k < at, NEW f \in originals[k].faces
        PROVE  \E j \in 1..k : f \in repaired'[j].faces
    <3>1. PICK j \in 1..k : f \in repaired[j].faces
      BY <1>1, <2>1 DEF ErasureInv
    <3>2. j \in Features /\ j # at
      BY <1>2, <2>1, ReviewTypes
    <3>. QED
      BY <1>7, <3>1, <3>2
  <2>2. ASSUME NEW f \in originals[at].faces PROVE \E j \in 1..at : f \in repaired'[j].faces
    <3>1. CASE f \in Before(at)
      <4>1. PICK k \in 1..(at - 1) : f \in originals[k].faces
        BY <3>1 DEF Before
      <4>2. k \in Features /\ k < at
        BY <1>2, ReviewTypes
      <4>3. PICK j \in 1..k : f \in repaired'[j].faces
        BY <2>1, <4>1, <4>2
      <4>4. j \in 1..at
        BY <1>2, <4>2, ReviewTypes
      <4>. QED
        BY <4>3, <4>4
    <3>2. CASE f \notin Before(at)
      <4>1. f \in repaired'[at].faces
        BY <1>5, <1>7, <2>2, <3>2
      <4>2. at \in 1..at
        BY <1>2, ReviewTypes
      <4>. QED
        BY <4>1, <4>2
    <3>. QED
      BY <3>1, <3>2
  <2>3. \A k \in Features : k <= at => k < at \/ k = at
    BY <1>2 DEF Features
  <2>. QED
    BY <2>1, <2>2, <2>3
<1>11. \A k \in Features : repaired'[k].faces \subseteq originals[k].faces
  BY <1>1, <1>5, <1>7 DEF ErasureInv
<1>12. \A k \in Features : k > at => repaired'[k].faces = originals[k].faces
  BY <1>1, <1>2, <1>7, ReviewTypes DEF ErasureInv
<1>13. \A k \in Features : Cut(k)' <=> Cut(k)
  BY <1>2 DEF Cut, Before
<1>14. \A k \in Features : failed'[k] => originals[k].faces = {}
  BY <1>1, <1>2 DEF Reviewing, CallReviewInv
<1>15. CASE at < Len(originals)
  <2>1. phase' = "overlaps" /\ at' = at + 1
    BY <1>1, <1>15 DEF EraseOverlap, Advance
  <2>2. \A k \in Features : (k < at + 1 => k <= at) /\ (k >= at + 1 => k > at)
    BY <1>2, ReviewTypes
  <2>3. ErasureInv'
    BY <1>2, <1>9, <1>10, <1>11, <1>12, <1>13, <2>1, <2>2 DEF ErasureInv
  <2>. QED
    BY <1>2, <1>8, <1>14, <2>1, <2>3 DEF CallReviewInv
<1>16. CASE ~(at < Len(originals))
  <2>1. phase' = "gaps"
    BY <1>16 DEF EraseOverlap, Advance, AfterOverlaps, Reviewing, ReviewConfig, SafeFixConfig
  <2>2. \A k \in Features : k <= at
    BY <1>2, <1>16, ReviewTypes
  <2>. QED
    BY <1>2, <1>8, <1>9, <1>13, <2>1, <2>2 DEF CallReviewInv
<1>. QED
  BY <1>15, <1>16

\* A later step of the call, which changes no feature for the worse.
LEMMA ShownStays ==
    ASSUME Reviewing, originals' = originals,
           phase \in {"gaps", "filling", "safety"}, phase' \in {"gaps", "filling", "safety", "done"},
           \A k \in Features : \/ repaired'[k] = repaired[k]
                               \/ repaired'[k].kind = "polygon" /\ repaired[k].faces \subseteq repaired'[k].faces
                               \/ repaired'[k] = originals[k] /\ ~Shown(k),
           \A k \in Features : /\ actions[k] \subseteq actions'[k]
                               /\ failed'[k] => failed[k] \/ ~Shown(k)
    PROVE  CallReviewInv'
<1>1. Features' = Features
  BY DEF Features
<1>2. \A k \in Features : repaired'[k].kind # "broken"
  BY DEF Reviewing, CallReviewInv
<1>3. \A k \in Features : Cut(k)' => Shown(k)
  BY DEF Reviewing, CallReviewInv, Cut, Before
<1>4. \A k \in Features : Shown(k) => Shown(k)'
  BY DEF Shown
<1>. QED
  BY <1>1, <1>2, <1>3, <1>4 DEF CallReviewInv

LEMMA ReviewFindsHoles ==
    ASSUME Reviewing, FindHoles
    PROVE  CallReviewInv'
BY ShownStays DEF FindHoles

LEMMA ReviewFills ==
    ASSUME Reviewing, FillHole
    PROVE  CallReviewInv'
<1>1. originals' = originals /\ phase = "filling" /\ phase' \in {"filling", "safety"} /\ failed' = failed
  BY DEF FillHole
<1>2. PICK target, hole :
          \/ /\ repaired' = [repaired EXCEPT ![target] =
                                [faces |-> repaired[target].faces \cup hole, kind |-> "polygon"]]
             /\ actions' = [actions EXCEPT ![target] = actions[target] \cup {"gap"}]
          \/ UNCHANGED <<repaired, actions>>
  BY DEF FillHole
<1>3. \A k \in Features :
          /\ \/ repaired'[k] = repaired[k]
             \/ repaired'[k].kind = "polygon" /\ repaired[k].faces \subseteq repaired'[k].faces
          /\ actions[k] \subseteq actions'[k]
  BY <1>2, ReviewTypes
<1>. QED
  BY <1>1, <1>3, ShownStays

LEMMA ReviewChecks ==
    ASSUME Reviewing, CheckSafety
    PROVE  CallReviewInv'
<1>1. Running /\ phase = "safety"
  BY DEF CheckSafety, Running
<1>2. /\ at \in Features /\ originals' = originals /\ actions' = actions
      /\ phase' \in {"safety", "done"}
  BY <1>1, TypesHelp DEF Reviewing, CheckSafety, Advance
<1>3. /\ repaired' = [repaired EXCEPT ![at] = IF Rejected(at) THEN originals[at] ELSE repaired[at]]
      /\ failed' = [failed EXCEPT ![at] = Rejected(at)]
  BY DEF CheckSafety
<1>4. Shown(at) => ~Rejected(at)
  BY DEF Reviewing, Shown, Rejected, SafetyFailure, IsValid, IsEmpty, IsPolygonal, OverBudget,
         ReviewConfig, SafeFixConfig
<1>5. \A k \in Features : /\ repaired'[k] = repaired[k] \/ (repaired'[k] = originals[k] /\ ~Shown(k))
                          /\ failed'[k] => failed[k] \/ ~Shown(k)
  BY <1>2, <1>3, <1>4, ReviewTypes
<1>. QED
  BY <1>1, <1>2, <1>5, ShownStays

LEMMA ReviewStep ==
    ASSUME RepairInv, FixInv, ReviewInv, stage = "review", stage' = "review", safe' = safe, RepairStep
    PROVE  ReviewInv'
<1>1. originals' = originals /\ config' = config /\ Features' = Features
  BY DEF RepairStep, RepairFeature, EraseOverlap, FindHoles, FillHole, RollBack, CheckSafety, Features
<1>2. ASSUME \A k \in Features : originals[k].kind # "broken" PROVE CallReviewInv'
  <2>1. Reviewing
    BY <1>2 DEF ReviewInv, Reviewing
  <2>. QED
    BY <2>1, NothingRaises, ReviewMends, ReviewErases, ReviewFindsHoles, ReviewFills, ReviewChecks DEF RepairStep
<1>. QED
  BY <1>1, <1>2 DEF ReviewInv, Settled, Solid

-----------------------------------------------------------------------------

\* The layer that is written says of every feature the pass had to cut that it
\* overlaps.
LEMMA WrittenIsFlagged ==
    ASSUME RepairInv, FixInv, ReviewInv, OverlapsFlagged, WriteLayer
    PROVE  OverlapsFlagged'
<1>1. /\ written' = Append(written, Written) /\ written \in Seq(WrittenLayers)
      /\ stage = "review" /\ phase = "done"
  BY DEF FixInv, FixTypeOK, WriteLayer, Return
<1>2. /\ Written.features = originals /\ Written.reasons = [k \in Features |-> Reasons(k)]
      /\ originals \in [Features -> Geometries] /\ DOMAIN originals = Features
  BY <1>1 DEF Written, ReviewInv, RepairInv, RepairTypeOK, Features
<1>3. ASSUME \A k \in DOMAIN Written.features : Written.features[k].kind # "broken",
             NEW k \in DOMAIN Written.features,
             Written.features[k].faces \cap Earlier(Written, k) # {},
             ~(Written.features[k].faces \subseteq Earlier(Written, k))
      PROVE  "overlap" \in Written.reasons[k]
  <2>1. CallReviewInv /\ k \in Features
    BY <1>1, <1>2, <1>3 DEF ReviewInv
  <2>2. Cut(k)
    BY <1>2, <1>3 DEF Cut, Earlier, Before
  <2>3. Shown(k)
    BY <1>1, <2>1, <2>2 DEF CallReviewInv
  <2>4. "overlap" \in Reasons(k)
    BY <2>3 DEF Shown, Reasons, ReportedActions
  <2>. QED
    BY <1>2, <2>1, <2>4
<1>4. ASSUME NEW n \in DOMAIN written' PROVE written'[n] = Written \/ (n \in DOMAIN written /\ written'[n] = written[n])
  <2>. DEFINE s == written
              w == Written
              t == Append(s, w)
  <2>1. s \in Seq(WrittenLayers \cup {w}) /\ w \in WrittenLayers \cup {w}
    BY <1>1
  <2>. HIDE DEF s, w
  <2>2. t \in Seq(WrittenLayers \cup {w}) /\ Len(t) = Len(s) + 1 /\ Len(s) \in Nat
        /\ (\A i \in 1..Len(s) : t[i] = s[i]) /\ t[Len(s) + 1] = w
    BY <2>1, AppendProperties
  <2>3. DOMAIN t = 1..(Len(s) + 1) /\ DOMAIN s = 1..Len(s)
    BY <2>1, <2>2
  <2>4. t = written'
    BY <1>1 DEF s, w
  <2>. HIDE DEF t
  <2>5. n = Len(s) + 1 \/ n \in 1..Len(s)
    BY <1>4, <2>2, <2>3, <2>4
  <2>6. t[n] = w \/ (n \in DOMAIN s /\ t[n] = s[n])
    BY <2>2, <2>3, <2>5
  <2>. QED
    BY <2>4, <2>6 DEF s, w
<1>. HIDE DEF OverlapsFlagged
<1>5. ASSUME NEW n \in DOMAIN written', \A k \in DOMAIN written'[n].features : written'[n].features[k].kind # "broken",
             NEW k \in DOMAIN written'[n].features,
             written'[n].features[k].faces \cap Earlier(written'[n], k) # {},
             ~(written'[n].features[k].faces \subseteq Earlier(written'[n], k))
      PROVE  "overlap" \in written'[n].reasons[k]
  <2>1. CASE written'[n] = Written
    BY <1>3, <1>5, <2>1
  <2>2. CASE n \in DOMAIN written /\ written'[n] = written[n]
    BY <1>5, <2>2 DEF OverlapsFlagged, Earlier
  <2>. QED
    BY <1>4, <2>1, <2>2
<1>. QED
  BY <1>5 DEF OverlapsFlagged, Earlier

LEMMA FlagsInit == Init => FlagsInv
BY DEF Init, FlagsInv, SafeInv, ReviewInv, OverlapsFlagged

LEMMA FlagsStep == FullInv /\ [Next]_vars => FlagsInv'
<1>. SUFFICES ASSUME FullInv, [Next]_vars PROVE FlagsInv'
  OBVIOUS
<1>. USE DEF FullInv, FlagsInv
<1>1. ASSUME written' = written PROVE OverlapsFlagged'
  BY <1>1 DEF OverlapsFlagged, Earlier
<1>2. ASSUME written' = <<>> PROVE OverlapsFlagged'
  BY <1>2 DEF OverlapsFlagged
<1>3. ASSUME stage' \notin {"safe", "review"} PROVE SafeInv' /\ ReviewInv'
  BY <1>3 DEF SafeInv, ReviewInv
<1>4. CASE Start \/ Publish \/ Killed
  BY <1>1, <1>3, <1>4 DEF Start, Publish, Killed
<1>5. CASE Refuse \/ LayerFails \/ WriteFails \/ PublishFails
  BY <1>2, <1>3, <1>5 DEF Refuse, LayerFails, WriteFails, PublishFails, Fail
<1>6. CASE ReadLayer
  <2>1. SafeInv'
    <3>. DEFINE features == source[layer].features
    <3>1. features \in Seq(Geometries)
      BY <1>6, SourceTyped DEF FixInv, FixTypeOK, ReadLayer
    <3>2. /\ originals' = features /\ failed' = [k \in DOMAIN features |-> FALSE]
          /\ phase' = IF features = <<>> THEN "done" ELSE "intrinsic"
      BY <1>6 DEF ReadLayer, Call
    <3>. HIDE DEF features
    <3>3. Features' = DOMAIN features /\ (features = <<>> => Features' = {})
      BY <3>1, <3>2 DEF Features
    <3>. QED
      BY <3>2, <3>3 DEF SafeInv
  <2>2. stage' = "safe" /\ written' = written
    BY <1>6 DEF ReadLayer
  <2>. QED
    BY <1>1, <2>1, <2>2 DEF ReviewInv
<1>7. CASE SafeReturns
  <2>1. stage' = "review" /\ written' = written
    BY <1>7 DEF SafeReturns
  <2>. QED
    BY <1>1, <1>7, <2>1, ReviewBegins DEF SafeInv
<1>8. CASE WriteLayer
  <2>1. stage' \in {"read", "log"}
    BY <1>8 DEF WriteLayer
  <2>. QED
    BY <1>3, <1>8, <2>1, WrittenIsFlagged
<1>9. CASE Fixing
  <2>1. RepairStep /\ stage' = stage /\ safe' = safe /\ written' = written /\ stage \in {"safe", "review"}
    BY <1>9 DEF Fixing, fixVars
  <2>2. CASE stage = "safe"
    BY <1>1, <2>1, <2>2, SafeStep DEF ReviewInv
  <2>3. CASE stage = "review"
    BY <1>1, <2>1, <2>3, ReviewStep DEF SafeInv
  <2>. QED
    BY <2>1, <2>2, <2>3
<1>10. CASE UNCHANGED vars
  <2>1. UNCHANGED <<config, originals, repaired, actions, failed, phase, at, stage, safe, written>> /\ Features' = Features
    BY <1>10 DEF vars, repairVars, fixVars, Features
  <2>2. SafeInv'
    BY <2>1 DEF SafeInv
  <2>3. CallReviewInv => CallReviewInv'
    BY <2>1 DEF CallReviewInv, ErasureInv, Cut, Before, Shown
  <2>4. ReviewInv'
    BY <2>1, <2>3 DEF ReviewInv, Settled, Solid
  <2>. QED
    BY <1>1, <2>1, <2>2, <2>4
<1>. QED
  BY <1>4, <1>5, <1>6, <1>7, <1>8, <1>9, <1>10 DEF Next

\* A written feature that shares ground with earlier ones and has some of its own
\* is flagged for review, in every layer whose geometries GEOS can read
\* (_fix_layer, _REVIEW_CONFIG and the geoqc_review column).
THEOREM FixOverlapsFlagged == Spec => []OverlapsFlagged
<1>1. Init => FullInv
  BY InitInv, FixInit, FlagsInit DEF Init, FullInv
<1>2. FullInv /\ [Next]_vars => FullInv'
  BY RepairHolds, FixStep, FlagsStep DEF FullInv
<1>3. FullInv => OverlapsFlagged
  BY DEF FullInv, FlagsInv
<1>. QED
  BY <1>1, <1>2, <1>3, PTL DEF Spec
=============================================================================
