SPECIFICATION AllSpec
CONSTANTS
    s1 = s1  s2 = s2  s3 = s3  m1 = m1  m2 = m2  a1 = a1
    j1 = j1  j2 = j2  j3 = j3  d1 = d1  d2 = d2
    ChunkConfigs <- MCChunkConfigs
    DocLength = 5
    LevelCount = 6
    Depth = 5
    ChunkChars = 8
    FrameChars = 3
    RunCount = 2
    MaxCalls = 2
    MaxRestarts = 1
    Searches <- ThreeSearches
    GateLimit = 2
    Migrators <- TwoMigrators
    Servers <- OneServer
    CurrentSchema = 2
    Tables <- TwoTables
    Parts <- FourParts
    TableOf <- TableOfPart
    Patched <- PatchedParts
    SetupJobs <- ThreeJobs
    ProcessOf <- TwoProcesses
    PoolSize = 2
    Docs <- TwoDocs
    RecordsOf <- TwoAndNone
    Concurrency = 2
    Redeliveries = 1
INVARIANTS
    AllTypesOK
    ChunksWithinLimit
    ChunksKeepText
    SectionsKept
    TopHeadingIsNearest
    PrefixPairsAreSections
    HeadingPairsArePaths
    QaChunksWithinLimit
    
    ThreadCoversRuns
    SlotsAccountedFor
    ReadyMeansMigrated
    ListedIsIndexed
    GraphJobComplete
PROPERTIES
    SlicingAdvances
    GraphJobsEnd
    SetupsEnd
CHECK_DEADLOCK FALSE
