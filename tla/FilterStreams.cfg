SPECIFICATION FairSpec
CONSTANTS
    Blueprints <- AllBlueprints
    HostMayReject = TRUE
    HostTimeouts = TRUE
    MaxRequestChunks = 2
    MaxResponseChunks = 2
INVARIANTS
    TypeOK
    BarrierBalanced
    LeadingGuardsDecided
    ActionsConserved
    ListsAreSequential
    TeardownBeforeDrop
    HeldIsAwaited
PROPERTIES
    GuardedForward
    TerminationIsFinal
    StreamSettles
CHECK_DEADLOCK FALSE
