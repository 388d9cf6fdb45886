---------------------------- MODULE Publication -----------------------------
(***************************************************************************)
(* How a program puts one file in its place: it refuses an output that     *)
(* exists unless it may replace it, writes a temporary file beside it,     *)
(* renames that file over the output, and removes it when anything fails.  *)
(* The road repairer and the GeoParquet writer both work this way.         *)
(***************************************************************************)
CONSTANT None

ASSUME NoneAssumption == None \notin {"ok", "error", "killed"}

VARIABLES
    overwrite,      \* whether an existing output may be replaced
    before,         \* the output before the program: "absent" or "old"
    output,         \* the output: before, or the file that took its place
    temporary,      \* the temporary file: "none", "partial" or "whole"
    exit            \* how the program ended: "ok", "error" or "killed", None while it runs

fileVars == <<overwrite, before, output, temporary, exit>>

\* The options of the program: [existing, overwrite].
FileInit(options) ==
    /\ overwrite = options.overwrite
    /\ before = options.existing
    /\ output = before
    /\ temporary = "none"
    /\ exit = None

Running == exit = None

MayWrite == before = "absent" \/ overwrite

\* An error before there is a temporary file.
Refuse ==
    /\ exit' = "error"
    /\ UNCHANGED <<overwrite, before, output, temporary>>

WriteTo(state) ==
    /\ temporary' = state
    /\ UNCHANGED <<overwrite, before, output, exit>>

\* The rename; what follows it may still fail.
Replace ==
    /\ output' = temporary
    /\ temporary' = "none"
    /\ UNCHANGED <<overwrite, before, exit>>

AbandonLeavingTemporary ==
    /\ exit' = "error"
    /\ UNCHANGED <<overwrite, before, output, temporary>>

\* An error that the clean-up follows.
Abandon ==
    /\ temporary' = "none"
    /\ exit' = "error"
    /\ UNCHANGED <<overwrite, before, output>>

\* The same without one.
Leave(how) ==
    /\ exit' = how
    /\ UNCHANGED <<overwrite, before, output, temporary>>

End ==
    /\ exit' = "ok"
    /\ UNCHANGED <<overwrite, before, output, temporary>>
=============================================================================
