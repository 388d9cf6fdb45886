---------------------------- MODULE RepairSession ---------------------------
(***************************************************************************)
(* RepairSession and UndoEngine: a working set of geometries that is       *)
(* previewed, repaired and taken back.  A session made by                  *)
(* open_repair_session compares working sets as WKT that the repairer      *)
(* writes itself, so equal text is equal geometry.                         *)
(***************************************************************************)
EXTENDS CoverageRepair

CONSTANTS
    Coverages,      \* the working sets a session may be opened with
    Configs,        \* the configurations it may be opened with
    MaxHistory      \* bound: undo states a behaviour may collect

ASSUME SessionAssumption ==
    /\ Coverages \subseteq Seq(Geometries)
    /\ Configs \subseteq RepairConfigs
    /\ MaxHistory \in Nat

VARIABLES
    settings,   \* _config
    current,    \* _current
    history,    \* UndoEngine._history
    preview,    \* _preview: None or a CoverageRepairResult
    doing,      \* the method that runs
    opened      \* the working set the session was opened with

sessionVars == <<settings, current, history, preview, doing, opened>>
vars == <<repairVars, sessionVars>>

\* What a finished call returns.
Result == [before |-> originals, after |-> repaired, reported |-> [i \in Features |-> Status(i)]]

Init ==
    /\ RepairInit
    /\ settings \in Configs
    /\ opened \in Coverages
    /\ current = opened
    /\ history = <<>>
    /\ preview = None
    /\ doing = "nothing"

\* preview_result finds its cached result usable.
Cached ==
    /\ preview # None
    /\ preview.before = current

\* preview() or apply() asks for the candidate, which is not there yet.
Ask(method) ==
    /\ doing = "nothing"
    /\ ~Cached
    /\ Len(history) < MaxHistory
    /\ doing' = method
    /\ Call(current, settings)
    /\ UNCHANGED <<settings, current, history, preview, opened>>

PushedAlways(result) == Append(history, current)

\* apply() leaves an undo state behind exactly when it changes something.
Pushed(result) == IF result.after # current THEN Append(history, current) ELSE history

Commit(result) ==
    /\ history' = Pushed(result)
    /\ current' = result.after
    /\ preview' = None
    /\ doing' = "nothing"
    /\ UNCHANGED <<settings, opened>>

\* apply() after preview(): the previewed candidate is committed.
ApplyPreview ==
    /\ doing = "nothing"
    /\ Cached
    /\ Commit(preview)
    /\ UNCHANGED repairVars

\* The repairer returns to preview() or to apply().
ShowPreview ==
    /\ doing = "preview"
    /\ preview' = Result
    /\ doing' = "nothing"
    /\ Return
    /\ UNCHANGED <<settings, current, history, opened>>

ApplyResult ==
    /\ doing = "apply"
    /\ Return
    /\ Commit(Result)

Undo ==
    /\ doing = "nothing"
    /\ history # <<>>
    /\ current' = history[Len(history)]
    /\ history' = SubSeq(history, 1, Len(history) - 1)
    /\ preview' = None
    /\ UNCHANGED <<repairVars, settings, doing, opened>>

Repairing ==
    /\ RepairStep
    /\ UNCHANGED sessionVars

Next ==
    \/ Ask("preview") \/ Ask("apply")
    \/ ApplyPreview \/ ShowPreview \/ ApplyResult \/ Undo
    \/ Repairing

Spec == Init /\ [][Next]_vars

(***************************************************************************)
(* Properties                                                              *)
(***************************************************************************)
TypeOK ==
    /\ RepairTypeOK
    /\ settings \in RepairConfigs
    /\ current \in Seq(Geometries)
    /\ history \in Seq(Seq(Geometries))

\* Undoing everything ends at the working set the session was opened with, and
\* every undo on the way changes something: an apply that found nothing to
\* repair leaves no undo state behind (RepairSession.apply).
UndoReachesOpening ==
    LET states == Append(history, current) IN
    /\ states[1] = opened
    /\ \A k \in 1..Len(history) : states[k] # states[k + 1]

\* The result a session shows is a result for the working set it holds: no
\* undo or apply leaves a preview of another working set behind.
PreviewFresh == preview # None => preview.before = current
=============================================================================
