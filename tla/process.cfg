SPECIFICATION FairProcessSpec
CONSTANTS
    NumGpus = 1
    Total <- MCTotal
    Levels <- MCLevels
    Quotient <- MCQuotient
    Percent <- MCPercent
    Point = 1
    OomPct = 90
    ClosePct = 85
    Checkers = {c1}
INVARIANT CallsSeeLiveGuard
PROPERTIES ShutdownEnds GaugeFollows
CHECK_DEADLOCK FALSE
