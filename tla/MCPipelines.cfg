SPECIFICATION Spec
CONSTANTS
    None = None
    Null = Null
    Places <- Grid
    Dist <- MCDist
    On <- MCOn
    Networks <- MCNetworks
    Connections <- MCConnections
    Jobs <- MCJobs
    Issues <- MCIssues
    Unparsable <- MCUnparsable
    Vertices <- MCVertices
    Bytes <- MCBytes
    ChunkSize = 3
    SampleSize = 2
    MaximumFindings = 2
    Rule <- MCRule
    Limits <- MCLimits
    Shapes <- MCShapes
    Extent <- MCExtent
    Common <- MCCommon
    United <- MCUnited
    Hausdorff <- MCHausdorff
    Hypot <- MCHypot
    SpatialRequests <- MCSpatialRequests
    Expansion = 2
    FeatureBytes = 8
INVARIANTS
    EndsMoveBounded
    JoinsHold
    NetworkConnected
    ChunksAgree
    OutputWhole
    SpatialRepliesHonest
\* The programs end.
CHECK_DEADLOCK FALSE
