SPECIFICATION MCSpec
\* A request ends, and a decision takes no step.
CHECK_DEADLOCK FALSE
CONSTANTS
    Letters = {"a", "b"}
    MaxPattern = 4
    MaxText = 5
    Marked = 6
    NameBytes = {48, 49, 97}
    MaxName = 3
    Directories <- MCDirectories
    FilePaths <- MCFilePaths
    Assets = {1, 2, 3}
    Versions = 2
    Writes = 2
    Requests <- MCRequests
    Scope <- MCScope
    Frames <- MCFrames
    Taken <- MCTaken
    Words <- MCWords
    Direction <- MCDirection
    MaxLimit = 3
    MaxQueries = 3
    MaxComponents = 2
    MaxWeight = 2
    Scale = 60
    NoKey = NoKey
    NoText = NoText
    NoTime = NoTime
    Always = Always
    NoFuse = NoFuse
    NoCeiling = NoCeiling
    NoView = NoView
    NoScope = NoScope
    Sides = {1, 31, 48, 300, 735, 736, 960, 1008, 3000, 9000}
    Limits = {319, 320, 335, 336, 960, 8192}
    Columns = 4
    Rows = 3
    Weak = {0, 1, 2, 3}
    Tops = {0, 9, 10, 18}
    Lefts = {0, 1, 2}
    MaxBoxes = 3
    Shapes <- MCShapes
    BatchSizes = {1, 2}
    Characters <- MCCharacters
    MaxSteps = 4
    MaxBatch = 3
    MaxTokens = 9
    Sizes = {0, 1, 2, 3, 4, 5, 7, 9, 20}
    Geometries <- MCGeometries
    MaxCharacters = 4
    Exports <- MCExports
    Numbers = {0, 1, 127, 128, 200}
    Messages <- MCMessages
    Refused = Refused
    Recordings <- MCRecordings
    SpreadInterval = 3
    SpreadMin = 2
    SpreadMax = 3
    PacketBudget = 12
    Delay = 1
    NoTimestamp = NoTimestamp
    NoSamples = NoSamples
    Failed = Failed
    Longs = {1, 2, 3, 7, 8, 9, 20, 31, 32, 33, 64, 65, 127, 128, 200, 255, 256, 257, 1000}
    SmallSides = {1, 2, 3}
    BucketLists <- MCBucketLists
    GalleryPaths = {"p", "q"}
    GalleryFolders = {"f", "g"}
    FolderHolding <- MCFolderHolding
    LinkSpelling <- MCLinkSpelling
    GalleryEditions = 2
    GalleryIds = 2
    GalleryChanges = 3
    Buckets = {1, 2}
    Openers = {o1, o2}
    CatalogCurrent = 11
    ImagesCurrent = 4
    FoundVersions <- MCFoundVersions
    OldestMigrated <- MCOldestMigrated
    VacuumFrom <- MCVacuumFrom
    LibrariesFrom = 7
    OldVectors <- MCOldVectors
    OldLibraries = {l1, l2}
    MaxLaunches = 3
    MaxSampleId = 4
INVARIANTS
    FiltersAgree
    AnswersAgree
    LayoutIsRead
    BatchesAreOwn
    SamplesAreTrue
    PicturesUpright
    GalleryIsCurrent
    UpgradeIsSafe
