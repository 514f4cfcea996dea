SPECIFICATION MCSpec
CONSTANTS
    Length = 2
    Wide = {}
    EventEnds = {1, 2}
    Fields <- SupportedFields
    MaxAnswers = 1
    HostFails = FALSE
INVARIANT FoundIsReturned
CHECK_DEADLOCK FALSE
