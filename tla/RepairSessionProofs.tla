------------------------ MODULE RepairSessionProofs -------------------------
(***************************************************************************)
(* The guarantees of a call hold for every call of a session, and undoing  *)
(* everything ends at the working set the session was opened with.         *)
(***************************************************************************)
EXTENDS RepairSession, CoverageRepairProofs

-----------------------------------------------------------------------------

\* The undo chain element by element: where it starts, and that each undo state
\* differs from the state that followed it.
Following(h, c, k) == IF k < Len(h) THEN h[k + 1] ELSE c

Chain(h, c, first) ==
    /\ (IF Len(h) = 0 THEN c ELSE h[1]) = first
    /\ \A k \in 1..Len(h) : h[k] # Following(h, c, k)

LEMMA ChainOfStates ==
    ASSUME NEW S, NEW h \in Seq(S), NEW c \in S, NEW first
    PROVE  (/\ Append(h, c)[1] = first
            /\ \A k \in 1..Len(h) : Append(h, c)[k] # Append(h, c)[k + 1])
           <=> Chain(h, c, first)
<1>. DEFINE states == Append(h, c)
<1>1. Len(h) \in Nat /\ states[Len(h) + 1] = c
  OBVIOUS
<1>2. \A k \in 1..Len(h) : states[k] = h[k]
  OBVIOUS
<1>3. states[1] = IF Len(h) = 0 THEN c ELSE h[1]
  <2>1. CASE Len(h) = 0
    BY <2>1, <1>1
  <2>2. CASE Len(h) # 0
    BY <2>2, <1>1, <1>2
  <2>. QED
    BY <2>1, <2>2
<1>4. \A k \in 1..Len(h) : states[k + 1] = Following(h, c, k)
  BY <1>1, <1>2 DEF Following
<1>. HIDE DEF states
<1>5. (states[1] = first /\ \A k \in 1..Len(h) : states[k] # states[k + 1]) <=> Chain(h, c, first)
  BY <1>2, <1>3, <1>4 DEF Chain
<1>. QED
  BY <1>5 DEF states

\* An undo state is pushed in front of a working set that differs from it.
LEMMA PushChain ==
    ASSUME NEW S, NEW h \in Seq(S), NEW c \in S, NEW d \in S, NEW first,
           Chain(h, c, first), d # c
    PROVE  Chain(Append(h, c), d, first)
<1>. DEFINE g == Append(h, c)
<1>1. Len(h) \in Nat /\ Len(g) = Len(h) + 1 /\ g[Len(h) + 1] = c
  OBVIOUS
<1>2. \A k \in 1..Len(h) : g[k] = h[k]
  OBVIOUS
<1>. HIDE DEF g
<1>3. (IF Len(g) = 0 THEN d ELSE g[1]) = first
  <2>1. CASE Len(h) = 0
    BY <2>1, <1>1 DEF Chain
  <2>2. CASE Len(h) # 0
    BY <2>2, <1>1, <1>2 DEF Chain
  <2>. QED
    BY <2>1, <2>2
<1>4. ASSUME NEW k \in 1..Len(g) PROVE g[k] # Following(g, d, k)
  <2>1. CASE k = Len(h) + 1
    BY <2>1, <1>1 DEF Following
  <2>2. CASE k = Len(h)
    BY <2>2, <1>1, <1>2, <1>4 DEF Following, Chain
  <2>3. CASE k < Len(h)
    <3>1. k \in 1..Len(h) /\ k + 1 \in 1..Len(h) /\ k < Len(g)
      BY <2>3, <1>1, <1>4
    <3>2. h[k] # h[k + 1]
      BY <2>3, <3>1 DEF Chain, Following
    <3>. QED
      BY <3>1, <3>2, <1>2 DEF Following
  <2>. QED
    BY <1>1, <1>4, <2>1, <2>2, <2>3
<1>5. Chain(g, d, first)
  BY <1>3, <1>4 DEF Chain
<1>. QED
  BY <1>5 DEF g

LEMMA FrontLength ==
    ASSUME NEW S, NEW h \in Seq(S), Len(h) # 0
    PROVE  Len(SubSeq(h, 1, Len(h) - 1)) = Len(h) - 1
<1>. DEFINE n == Len(h)
<1>1. n \in Nat /\ n # 0 /\ \A i \in 1..n : h[i] \in S
  OBVIOUS
<1>. HIDE DEF n
<1>2. n - 1 \in Int /\ \A i \in 1..(n - 1) : h[i] \in S
  BY <1>1
<1>3. Len(SubSeq(h, 1, n - 1)) = IF 1 <= n - 1 THEN (n - 1) - 1 + 1 ELSE 0
  BY <1>2, SubSeqProperties
<1>4. Len(SubSeq(h, 1, n - 1)) = n - 1
  BY <1>1, <1>3
<1>. QED
  BY <1>4 DEF n

\* An undo takes the last state off the chain.
LEMMA PopChain ==
    ASSUME NEW S, NEW h \in Seq(S), NEW c, NEW first, Len(h) # 0, Chain(h, c, first)
    PROVE  Chain(SubSeq(h, 1, Len(h) - 1), h[Len(h)], first)
<1>. DEFINE g == SubSeq(h, 1, Len(h) - 1)
<1>1. Len(h) \in Nat /\ Len(h) - 1 \in Nat
  OBVIOUS
<1>2. Len(g) = Len(h) - 1
  BY FrontLength
<1>3. \A k \in 1..(Len(h) - 1) : g[k] = h[k]
  BY <1>1
<1>. HIDE DEF g
<1>4. (IF Len(g) = 0 THEN h[Len(h)] ELSE g[1]) = first
  BY <1>1, <1>2, <1>3 DEF Chain
<1>5. ASSUME NEW k \in 1..Len(g) PROVE g[k] # Following(g, h[Len(h)], k)
  <2>1. k \in 1..Len(h) /\ k < Len(h) /\ h[k] # h[k + 1] /\ g[k] = h[k]
    BY <1>1, <1>2, <1>3, <1>5 DEF Chain, Following
  <2>2. Following(g, h[Len(h)], k) = h[k + 1]
    <3>1. CASE k < Len(g)
      BY <3>1, <1>1, <1>2, <1>3, <1>5 DEF Following
    <3>2. CASE k = Len(g)
      BY <3>2, <1>1, <1>2 DEF Following
    <3>. QED
      BY <3>1, <3>2, <1>1, <1>2, <1>5
  <2>. QED
    BY <2>1, <2>2
<1>6. Chain(g, h[Len(h)], first)
  BY <1>4, <1>5 DEF Chain
<1>. QED
  BY <1>6 DEF g

-----------------------------------------------------------------------------

\* What the methods of a session leave behind.
SessionInv ==
    /\ settings \in RepairConfigs
    /\ current \in Seq(Geometries)
    /\ history \in Seq(Seq(Geometries))
    /\ Chain(history, current, opened)
    /\ preview # None => preview.after \in Seq(Geometries) /\ preview.before = current
    /\ doing # "nothing" => originals = current

Inv == RepairInv /\ ReportInv /\ GapInv /\ SessionInv

LEMMA SessionInit == Init => Inv
<1>. SUFFICES ASSUME Init PROVE Inv
  OBVIOUS
<1>1. RepairInv
  BY InitInv DEF Init
<1>2. SessionInv
  BY SessionAssumption DEF Init, SessionInv, Chain
<1>3. ReportInv
  BY ReportInit DEF Init
<1>4. GapInv
  BY GapInit DEF Init
<1>. QED
  BY <1>1, <1>2, <1>3, <1>4 DEF Inv

\* Committing a result pushes an undo state when the working set changes.
LEMMA CommitKeeps ==
    ASSUME NEW result, result.after \in Seq(Geometries), SessionInv, Commit(result)
    PROVE  SessionInv'
<1>. USE DEF Commit, Pushed
<1>1. history' \in Seq(Seq(Geometries)) /\ current' \in Seq(Geometries)
  BY DEF SessionInv
<1>2. CASE result.after # current
  <2>1. Chain(Append(history, current), result.after, opened)
    BY <1>2, PushChain DEF SessionInv
  <2>. QED
    BY <1>1, <1>2, <2>1 DEF SessionInv
<1>3. CASE result.after = current
  BY <1>1, <1>3 DEF SessionInv
<1>. QED
  BY <1>2, <1>3

\* A finished call returns a sequence of geometries.
LEMMA ResultTyped ==
    ASSUME RepairInv
    PROVE  Result.after \in Seq(Geometries) /\ Result.before = originals
BY DEF Result, RepairInv, RepairTypeOK, Features

LEMMA SessionNext == Inv /\ [Next]_vars => Inv'
<1>. SUFFICES ASSUME Inv, [Next]_vars PROVE Inv'
  OBVIOUS
<1>. USE DEF Inv
<1>1. ASSUME NEW method \in {"preview", "apply"}, Ask(method) PROVE Inv'
  <2>1. RepairInv' /\ ReportInv' /\ GapInv'
    BY <1>1, CallKeepsInv, ReportCall, GapCall DEF Ask, SessionInv
  <2>2. SessionInv'
    BY <1>1 DEF Ask, Call, SessionInv
  <2>. QED
    BY <2>1, <2>2
<1>2. CASE ApplyPreview
  <2>1. RepairInv' /\ ReportInv' /\ GapInv'
    BY <1>2, RepairStepInv, ReportStepInv, GapStepInv DEF ApplyPreview
  <2>2. SessionInv'
    BY <1>2, CommitKeeps DEF ApplyPreview, Cached, SessionInv
  <2>. QED
    BY <2>1, <2>2
<1>3. CASE ShowPreview
  <2>1. RepairInv' /\ ReportInv' /\ GapInv'
    BY <1>3, ReturnInv, ReportReturn, GapReturn DEF ShowPreview
  <2>2. SessionInv'
    BY <1>3, ResultTyped DEF ShowPreview, SessionInv
  <2>. QED
    BY <2>1, <2>2
<1>4. CASE ApplyResult
  <2>1. RepairInv' /\ ReportInv' /\ GapInv'
    BY <1>4, ReturnInv, ReportReturn, GapReturn DEF ApplyResult
  <2>2. SessionInv'
    BY <1>4, ResultTyped, CommitKeeps DEF ApplyResult
  <2>. QED
    BY <2>1, <2>2
<1>5. CASE Undo
  <2>1. RepairInv' /\ ReportInv' /\ GapInv'
    BY <1>5, RepairStepInv, ReportStepInv, GapStepInv DEF Undo
  <2>2. Len(history) # 0 /\ history' \in Seq(Seq(Geometries)) /\ current' \in Seq(Geometries)
    BY <1>5, EmptySeq DEF Undo, SessionInv
  <2>3. Chain(SubSeq(history, 1, Len(history) - 1), history[Len(history)], opened)
    BY <2>2, PopChain DEF SessionInv
  <2>4. SessionInv'
    BY <1>5, <2>2, <2>3 DEF Undo, SessionInv
  <2>. QED
    BY <2>1, <2>4
<1>6. CASE Repairing
  <2>1. RepairInv' /\ ReportInv' /\ GapInv'
    BY <1>6, RepairStepInv, ReportStepInv, GapStepInv DEF Repairing
  <2>2. originals' = originals
    BY <1>6 DEF Repairing, RepairStep, RepairFeature, EraseOverlap, FindHoles, FillHole,
                RollBack, CheckSafety
  <2>3. SessionInv'
    BY <1>6, <2>2 DEF Repairing, sessionVars, SessionInv
  <2>. QED
    BY <2>1, <2>3
<1>7. CASE UNCHANGED vars
  <2>1. RepairInv' /\ ReportInv' /\ GapInv'
    BY <1>7, RepairStepInv, ReportStepInv, GapStepInv DEF vars
  <2>2. SessionInv'
    BY <1>7 DEF vars, sessionVars, repairVars, SessionInv
  <2>. QED
    BY <2>1, <2>2
<1>. QED
  BY <1>1, <1>2, <1>3, <1>4, <1>5, <1>6, <1>7 DEF Next

LEMMA SessionInvariant == Spec => []Inv
BY SessionInit, SessionNext, PTL DEF Spec

\* The working set and every undo state are sequences of geometries.
THEOREM SessionTypeCorrect == Spec => []TypeOK
<1>1. Inv => TypeOK
  <2>1. RepairInv => RepairTypeOK
    BY DEF RepairInv
  <2>2. SessionInv => settings \in RepairConfigs /\ current \in Seq(Geometries) /\ history \in Seq(Seq(Geometries))
    BY DEF SessionInv
  <2>. QED
    BY <2>1, <2>2 DEF Inv, TypeOK
<1>. QED
  BY <1>1, SessionInvariant, PTL

\* A call made from a session loses no coverage: every face of the mended
\* working set stays with the first feature that claims it.
THEOREM SessionKeepsFirstClaims == Spec => []FirstClaimKept
<1>1. Inv => FirstClaimKept
  BY RepairInvImplies DEF Inv
<1>. QED
  BY <1>1, SessionInvariant, PTL

\* A call made from a session leaves no overlap but in filled holes and where a
\* feature was put back.
THEOREM SessionExplainsOverlaps == Spec => []OverlapsExplained
<1>1. Inv => OverlapsExplained
  BY RepairInvImplies DEF Inv
<1>. QED
  BY <1>1, SessionInvariant, PTL

\* A call made from a session with gap filling leaves no enclosed gap below its
\* threshold, unless it put a feature back: filling a gap opens no other.
THEOREM SessionClosesGaps == Spec => []GapsClosed
<1>1. Inv => GapsClosed
  BY GapInvImplies DEF Inv
<1>. QED
  BY <1>1, SessionInvariant, PTL

\* The report of a call made from a session and the coverage it returns agree:
\* what is reported failed or unchanged is the original, and what differs from
\* its original is reported with an action.
THEOREM SessionReportsHonest == Spec => []ReportMatchesOutput
<1>1. Inv => ReportMatchesOutput
  BY ReportInvImplies DEF Inv
<1>. QED
  BY <1>1, SessionInvariant, PTL

\* Undoing everything reaches the working set the session was opened with, and
\* every undo changes it.
THEOREM SessionUndoReachesOpening == Spec => []UndoReachesOpening
<1>1. Inv => UndoReachesOpening
  <2>. SUFFICES ASSUME Inv PROVE UndoReachesOpening
    OBVIOUS
  <2>1. history \in Seq(Seq(Geometries)) /\ current \in Seq(Geometries) /\ Chain(history, current, opened)
    BY DEF Inv, SessionInv
  <2>2. (/\ Append(history, current)[1] = opened
         /\ \A k \in 1..Len(history) :
                Append(history, current)[k] # Append(history, current)[k + 1])
    BY <2>1, ChainOfStates
  <2>. QED
    BY <2>2 DEF UndoReachesOpening
<1>. QED
  BY <1>1, SessionInvariant, PTL

\* A preview that a session holds was computed from its working set.
THEOREM SessionPreviewFresh == Spec => []PreviewFresh
<1>1. Inv => PreviewFresh
  BY DEF Inv, SessionInv, PreviewFresh
<1>. QED
  BY <1>1, SessionInvariant, PTL
=============================================================================
