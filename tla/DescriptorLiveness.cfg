SPECIFICATION FairSpec
CONSTANTS
    k1 = k1
    k2 = k2
    e1 = e1
    f1 = f1
    f2 = f2
    NoFile = NoFile
    NoConfig = NoConfig
    Keys <- MCKeys
    Files <- MCFiles
    Provides <- MCProvides
    EmbeddedFile <- MCEmbeddedFile
    Configs <- MCConfigs
    Tokens = {1, 2}
    Unsolicited = FALSE
INVARIANT
    EnvMatchesPool
PROPERTIES
    RegistrySpec
    EventuallyResolved
