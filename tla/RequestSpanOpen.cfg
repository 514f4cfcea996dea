SPECIFICATION SpanSpec
CONSTANTS
    Streams <- MCStreams
    MaxTasks = 1
    MaxBufferSize = 3
INVARIANT
    RequestSpanEnds
CHECK_DEADLOCK FALSE
