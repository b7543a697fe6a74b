SPECIFICATION FairSidecarSpec
CONSTANTS
    r1 = r1
    r2 = r2
    idA = idA
    Requests <- MCRequests
    Ids = {idA}
    IdOf <- MCIdOf
    QueueCap = 1
    MaxBatchSize = 2
    Stoppers = {s1}
    HasCtx <- MCRequests
    CtxErrs = {"Canceled"}
    PythonBackend = TRUE
    MaxBody = 0
INVARIANTS SidecarTypeOK OnlyBackendErrorsInBody LostOnlyCancelled CallsCounted
PROPERTY CallsAndShutdownEnd
CHECK_DEADLOCK FALSE
