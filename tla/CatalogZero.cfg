SPECIFICATION MCCatalogSpec
CONSTANTS
    Paths <- MCPaths
    Below <- MCBelow
    Definitions <- MCDefinitions
    Limits = {FALSE}
    MaxRequests = 3
    Callers = {e1, e2}
    BackfillJob = e2
    ThumbAssets = {1, 2, 3}
    Buckets = {128}
    ThumbChunk = 2
    QueueCapacity = 1
    Touched = {1}
    Requested <- MCRequested
    JobOptions <- MCJobOptions
    MaxFlights = 4
    MaxOutside = 1
    Stills = {"a"}
    Videos = {"v"}
    Corrupt <- MCCorrupt
    Hindered <- MCHindered
    ImageWorkers = {w1, w2}
    BatchSize = 2
    PassOptions <- MCPassOptions
    MaxImageVersion = 2
    MaxImagePasses = 2
    OcrImages = {"a", "b", "c"}
    Oversized = {"c"}
    Undecodable <- MCUndecodable
    Decoders = {d1}
    Replicas = {r1}
    DecodedCapacity = 1
    OutcomeCapacity = 1
    ChunkSize = 2
    OcrEdited = {"a"}
    MaxOcrVersion = 2
    MaxOcrPasses = 2
    MediaListing <- MCListing
    CatalogVideos = {"v", "w"}
    ZeroSized <- MCZeroPhoto
    Unprobed <- MCUnprobed
    MediaEdited = {"v"}
    MaxEdition = 2
    ProbeWorkers = 1
    ProbeBacklog = 1
    CommitChunk = 2
    MaxCatalogPasses = 1
    TextAssets = {1, 2}
    LostAssets = {3}
    Blank = {}
    TextLibraries = {"p", "q"}
    TextScope <- MCTextScope
    EmbedBatch = 1
    MaxRevision = 2
    MaxTextJobs = 3
    MaxBuilds = 2
    StoredAssets = {1, 2}
    Owners = {p, q}
    PurgeBatch = 1
    MaxStoreJobs = 2
    MaxEdits = 1
CHECK_DEADLOCK FALSE
INVARIANTS
    FilesNeverFailPass
