SPECIFICATION Spec
CONSTANTS
    g1 = g1
    g2 = g2
    Ids = {g1, c1, c2}
    Genesis = {g1}
    GenesisDeps <- OneDependency
    Texts = {t1}
    MaxRelations = 1
    EpochBlocks = 1
    MaxHeight = 5
CHECK_DEADLOCK FALSE
PROPERTIES
    ExpiredNotChallenged
