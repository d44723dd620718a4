SPECIFICATION ServingSpec
CONSTANTS
    m1 = m1
    m2 = m2
    m3 = m3
    q1 = q1
    q2 = q2
    d1 = d1
    d2 = d2
    ix = ix
    iy = iy
    iz = iz
    t1 = t1
    w1 = w1
    w2 = w2
    h1 = h1
    h2 = h2
    Sources <- MCSources
    Catalog <- MCCatalog
    MinTrain = 1
    Happened <- MCHappened
    Exported <- MCExported
    Mappings <- MCMappings
    MaxDatasets = 3
    DataBuilders <- OneBuilder
    Epochs = 4
    Patience = 2
    Curves <- MCCurves
    NoCheckpoint = NoCheckpoint
    Runners <- TwoRequests
    RunIds <- BothData
    Matrix <- MCMatrix
    ConfigOf <- MCConfigOf
    Metrics <- OneTwo
    NoRunner = NoRunner
    NoExperiment = NoExperiment
    NoRunRecord = NoRunRecord
    NoModel = NoModel
    Models <- ThreeModels
    Requests <- TwoRequests
    MaxCrashes = 1
    DataOf <- MCDataOf
    BundleUsers <- MCBundleUsers
    Titles <- MCTitles
    Signature <- MCSignature
    Servable <- BothData
    Shelf <- TwoOnShelf
    NoRow = NoRow
    NoResource = NoResource
    Unseeded = Unseeded
    Unmapped = Unmapped
    Items <- OneItem
    Indices <- ThreeIndices
    NoIndex = NoIndex
    Reindexes <- Chain
    TaskKeys <- OneKey
    Touched <- ItsItem
    Indexers <- TwoIndexers
    NoIndexer = NoIndexer
    MaxVersion = 2
    Matching <- ThreeItems
    PageLimit = 2
    CandidateLimit = 3
    Readers <- TwoReaders
    MaxProfile = 1
    MaxModel = 1
    MaxOps = 1
    MaxCommits = 1
    Alignments <- OnlyAligned
    NoValue = NoValue
    Stock <- ThreeItems
    RawScores <- MCRawScores
    ModelScores <- MCModelScores
    Topic <- MCTopic
    Likeness <- MCLikeness
    MaxPerTopic = 1
    TopN = 3
    RuleIds <- TwoRules
    Priorities <- ZeroOne
    Targets <- ZeroOne
    NoTarget = NoTarget
    SnapshotLength = 3
    PageLimits <- OneTwo
    Tabs <- TwoReaders
    NoCursor = NoCursor
    SnapshotRows = 3
    PageRows = 1
    MaxFirst = 3
    MaxProfiles = 2
    MaxActs = 1
    NoPosition = NoPosition
INVARIANTS
    QualityTrainable
CHECK_DEADLOCK FALSE
