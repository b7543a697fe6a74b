SPECIFICATION Spec
CONSTANTS
    r1 = r1
    r2 = r2
    r3 = r3
    idA = idA
    idB = idB
    Requests <- MCRequests
    Ids = {idA, idB}
    IdOf <- MCIdOf
    QueueCap = 1
    MaxBatchSize = 2
    Stoppers = {s1}
    HasCtx = {r3}
    CtxErrs = {"canceled"}
    PythonBackend = TRUE
    MaxBody = 0
SYMMETRY MCSymmetry
INVARIANTS AtMostOneResult NoRequestStranded OwnAnswer OutcomesCounted
PROPERTIES KeepsLedger
