SPECIFICATION MCSpec
CONSTANTS
    Length = 5
    Wide = {3}
    EventEnds = {1, 4, 5}
    Fields <- MCFields
    MaxAnswers = 3
    HostFails = TRUE
INVARIANTS
    ChunkingInvisible
    UsageIsSecondToLast
    BodyIsRead
PROPERTIES
    ParseEnds
CHECK_DEADLOCK FALSE
