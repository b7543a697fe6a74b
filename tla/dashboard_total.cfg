SPECIFICATION Spec
CONSTANTS
    r1 = r1
    r2 = r2
    r3 = r3
    idA = idA
    idB = idB
    Requests <- MCTwo
    Ids = {idA}
    IdOf <- MCTwoIds
    QueueCap = 1
    MaxBatchSize = 2
    Stoppers = {}
    HasCtx = {r1}
    CtxErrs = {"canceled"}
    PythonBackend = FALSE
    MaxBody = 1
INVARIANT DashboardTotal
