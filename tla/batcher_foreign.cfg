SPECIFICATION Spec
CONSTANTS
    r1 = r1
    r2 = r2
    r3 = r3
    idA = idA
    idB = idB
    Requests <- MCRequests
    Ids = {idA, idB}
    IdOf <- MCIdOf
    QueueCap = 1
    MaxBatchSize = 2
    Stoppers = {}
    HasCtx = {}
    CtxErrs = {"canceled"}
    PythonBackend = FALSE
    MaxBody = 2
SYMMETRY MCSymmetry
INVARIANTS IndInv CorrelatedAnswer
