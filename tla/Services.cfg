SPECIFICATION MCSpec
CONSTANTS
    Clients = {c1, c2}
    Lanes = {literal, files}
    Searches = {s1, s2}
    Generations = {0, 1, 2}
    MaxSessions = 1
    MaxSearches = 3
    Slots = {image, ocr}
    Jobs = {job}
    Warmers = {warm}
    Available = {"directml", "openvino", "cpu"}
    Default = "directml"
    MaxBoots = 2
    Pictures = {1, 2, 4}
    Frames = {0}
    Inspectors = {i1, i2}
    Weight <- MCWeight
    Budget = 2
    MaxVersion = 2
    Stages = {"ocr", "text"}
    Window = 4
    Interval = 2
    MaxNow = 7
    MaxWork = 4
    Loaders = {l1, l2}
    Selected = {"dinov3", "pe-b16", "gemma-70", "ocr", "siglip-beta", "bge"}
    Compiles = {"directml", "cpu"}
    Replicas = 2
    Asks <- MCAsks
    MaxRequests = 2
SYMMETRY MCSymmetry
CHECK_DEADLOCK FALSE
INVARIANTS
    SearchesObey
    ProvidersAgree
    FilesAreWhole
    SessionsFitProvider
PROPERTIES
    SlotsHold
    PatchesCurrent
    ProgressIsTrue
