SPECIFICATION MCSpec
CONSTANTS
    k1 = k1
    k2 = k2
    e1 = e1
    f1 = f1
    f2 = f2
    NoFile = NoFile
    NoConfig = NoConfig
    Keys <- MCKeys
    Files <- MCFiles
    Provides <- MCProvides
    EmbeddedFile <- MCEmbeddedFile
    Configs <- MCConfigs
    Tokens = {1, 2}
    Unsolicited = TRUE
    Types = {"A", "B", "E"}
    MapEntries = {"E"}
    MaxFields = 2
INVARIANTS
    TypeOK
    PendingHasCall
    NoDuplicateFetch
    PoolServesKey
    RegistersAll
    ConversionsKeepData
    PanicsOnlyOnKeys
PROPERTIES
    RegistrySpec
    WalkEnds
