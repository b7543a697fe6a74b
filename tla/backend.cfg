SPECIFICATION FairSpec
CONSTANTS
    b1 = b1
    b2 = b2
    Batches <- MCBatches
    Size <- MCSize
    Concurrency = 2
    OllamaTimeout = 1
    BatchTimeout = 2
    Horizon = 12
INVARIANTS TypeOK PermitsAccounted TasksAccounted BoundedService FitsIsAnswered
PROPERTIES ImplementsService HandlersReturn
