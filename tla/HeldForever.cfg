SPECIFICATION FairSpec
CONSTANTS
    Blueprints <- ReportBlueprints
    HostMayReject = FALSE
    HostTimeouts = FALSE
    MaxRequestChunks = 1
    MaxResponseChunks = 1
PROPERTY
    StreamEnds
CHECK_DEADLOCK FALSE
