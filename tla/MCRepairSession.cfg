SPECIFICATION Spec
CONSTANTS
    west = west
    east = east
    lake = lake
    isle = isle
    pit = pit
    strip = strip
    out = out
    None = None
    Outside = out
    Faces <- MCFaces
    Border <- MCBorder
    Area <- MCArea
    Slivers <- MCSlivers
    Coverages <- MCCoverages
    Configs <- MCConfigs
    MaxHistory = 3
INVARIANTS
    FirstClaimKept
    OverlapsExplained
    GapsClosed
    ReportMatchesOutput
    UndoReachesOpening
