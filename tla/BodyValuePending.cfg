SPECIFICATION Spec
CONSTANTS
    Names = {"body", "absent"}
    Predicates = {"body"}
    Exprs <- Compound
    Host <- HostValues
    Late <- LatePaths
    Grpc <- GrpcRequest
    Reply <- ReplyVars
    Values <- Stores
    Pointers = {"/p"}
INVARIANT BodyFunctionsReturn
