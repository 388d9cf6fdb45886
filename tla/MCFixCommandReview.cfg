SPECIFICATION Spec
CONSTANTS
    west = west
    east = east
    lake = lake
    isle = isle
    strip = strip
    out = out
    None = None
    Outside = out
    Faces <- MCFaces
    Border <- MCBorder
    Area <- MCArea
    Slivers <- MCSlivers
    Sources <- MCSources
INVARIANTS
    EveryOverlapFlagged
\* The command exits.
CHECK_DEADLOCK FALSE
