\* The context of a stream: header maps, attributes, spans and expressions.
CONSTANTS
    v = v
    w = w
    Names = {"x-request-id", "k"}
    Vals = {v, w}
    RequestIdName = "x-request-id"
    Attributes = {}
    AuthPaths = {}
    Exports = {}
    Addresses <- NoClients
    Operations <- Ops
    MaxHeaders = 2
    MaxIds = 1
    Streams = {"s1", "s2"}
    MaxTasks = 2
    MaxBufferSize = 3
SPECIFICATION MCSpec
INVARIANTS
    SpansExportedOnce
    BufferKeepsNewest
    NoSpanLeaks
    ContextCoherent
    ExpressionsMean
    FunctionsAgree
PROPERTY
    EditsOnce
CHECK_DEADLOCK FALSE
