SPECIFICATION FairSpec
CONSTANTS
    r1 = r1
    r2 = r2
    r3 = r3
    idA = idA
    idB = idB
    Requests <- MCTwo
    Ids = {idA}
    IdOf <- MCTwoIds
    QueueCap = 1
    MaxBatchSize = 2
    Stoppers = {s1}
    HasCtx = {}
    CtxErrs = {"canceled"}
    PythonBackend = FALSE
    MaxBody = 1
PROPERTY CollectedAreFlushed
