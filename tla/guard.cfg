SPECIFICATION FairSpec
CONSTANTS
    NumGpus = 3
    Total <- MCTotalBroken
    Levels <- MCLevelsBroken
    Bits = 7
    Quotient <- MCQuotient
    Percent <- MCPercent
    Point <- MCPoint
    OomPct <- MCOomPctBroken
    ClosePct = 0
    Checkers = {}
INVARIANTS BreakerAgrees WorstGpuPublished GuardInv
PROPERTIES NoBlindCloseSmi PressureOpens ReliefCloses StopEndsPolling
