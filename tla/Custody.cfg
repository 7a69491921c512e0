SPECIFICATION Spec
CONSTANTS
    u1 = u1
    u2 = u2
    d1 = d1
    op1 = op1
    op2 = op2
    holder = holder
    sponsor = sponsor
    author = author
    judge1 = judge1
    judge2 = judge2
    judge3 = judge3
    fact1 = fact1
    fact2 = fact2
    pipeline1 = pipeline1
CHECK_DEADLOCK FALSE
INVARIANTS
    TrainingStaysAccounted
PROPERTIES
    SharesKeepTheirValue
    StakeNeverLost
