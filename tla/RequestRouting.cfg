SPECIFICATION MCSpec
CONSTANTS
    NoHost = NoHost
    Labels = {"com", "org", "a", "b"}
    Hosts <- MCHosts
    Hostnames <- MCHostnames
    ActionSets = 2
    Configurations <- MCConfigurations
    Unparsable = {Missing, NotJson}
    Streams = {s1, s2}
    Unconfigured = Unconfigured
    NoAnswer = NoAnswer
    NoUpstream = NoUpstream
SYMMETRY StreamSymmetry
INVARIANTS
    RouteIsMostSpecific
    UnroutedIsUnmatched
    ConfigurationUsable
    LegacyCallsKept
    LegacyRepliesDecide
PROPERTY
    ActiveSpec
