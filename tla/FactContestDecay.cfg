SPECIFICATION Spec
SYMMETRY Symmetry
CONSTANTS
    g1 = g1
    g2 = g2
    Ids = {g1, c1, c2, c3}
    Genesis = {g1}
    GenesisDeps <- OneDependency
    Texts = {t1}
    MaxRelations = 1
    EpochBlocks = 2
    MaxHeight = 5
CHECK_DEADLOCK FALSE
INVARIANTS
    TypeOK
    ChallengedIffOpen
    Unopposed
    QuestionStaysOpen
    NoTwin
PROPERTIES
    FallenForGood
