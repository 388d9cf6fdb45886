SPECIFICATION Spec
CONSTANTS
    None = None
    Geometry <- MCGeometry
    Fact <- MCFact
    Common <- MCCommon
    Apart <- MCApart
    Holes <- MCHoles
    Distance <- MCDistance
    Gap <- MCGap
    Meets <- MCMeets
    Junction <- MCJunction
    TailLength <- MCTailLength
    Scenarios <- MCScenarios
    Builtin <- MCBuiltin
    GenericPresets <- MCGenericPresets
INVARIANTS
    PassedMeansSound
    EndpointsReportedOnce
    OutputsHonest
\* The command exits.
CHECK_DEADLOCK FALSE
