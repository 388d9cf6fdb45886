SPECIFICATION Spec
CONSTANTS
    k1 = k1
    k2 = k2
    a1 = a1
    a2 = a2
    None = None
    MaxRequests = 3
    Identities = {k1, k2, a1, a2}
    Limit <- MCLimit
    WindowSeconds = 2
    TicksPerSecond = 2
    MaxEntries = 2
    MaxClock = 5
    MaxUploadBytes = 13
    MaxFeatures = 2
    AllowedExtensions = {"shp", "gpkg"}
    AllowedDrivers = {"GPKG", "ESRI Shapefile"}
    h1 = h1
    h2 = h2
    Slots = {h1, h2}
    Calls <- MCCalls
    Uploads <- MCUploads
    Datasets <- MCDatasets
    Deployments <- MCDeployments
    MaxReported = 1
    MaxRepairFeatures = 1
SYMMETRY Symmetry
INVARIANTS
    BurstBounded
    HeadersHonest
    StagedIsOneDataset
    RepliesHonest
PROPERTY LiveWindowsKept
\* No request is left and the clock is at its bound.
CHECK_DEADLOCK FALSE
