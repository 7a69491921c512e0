SPECIFICATION Spec
SYMMETRY Symmetry
CONSTANTS
    g1 = g1
    g2 = g2
    Ids = {g1, g2, c1, c2, c3}
    Genesis = {g1, g2}
    GenesisDeps <- OneDependency
    Texts = {t1, t2}
    MaxRelations = 1
    EpochBlocks = 99
    MaxHeight = 4
CHECK_DEADLOCK FALSE
INVARIANTS
    Unopposed
    RefutedByChallenge
