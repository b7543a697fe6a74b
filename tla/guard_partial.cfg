SPECIFICATION FairSpec
CONSTANTS
    NumGpus = 2
    Total <- MCTotal
    Levels <- MCLevels
    Bits = 8
    Quotient <- MCQuotient
    Percent <- MCPercent
    Point <- MCPoint
    OomPct <- MCOomPct
    ClosePct <- MCClosePct
    Checkers = {}
PROPERTY NoBlindClose
