SPECIFICATION Spec
CONSTANTS
    Blueprints <- CheckBlueprints
    HostMayReject = FALSE
    HostTimeouts = FALSE
    MaxRequestChunks = 1
    MaxResponseChunks = 1
INVARIANT
    AllowedMeansAllowed
