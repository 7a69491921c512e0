SPECIFICATION Spec
SYMMETRY AccountSymmetry
CONSTANTS
    Rounds = {1}
    Accounts = {a1, a2, a3, a4}
    VoteOptions = {"accept", "reject", "malformed"}
    Payments = {1, 7}
    MinVerifiersChoices = {2, 3}
    MinHeadcountAgreement = 1
    ConfidenceThreshold = 770000
    CommitPhaseBlocks = 1
    RevealPhaseBlocks = 2
    AggregationPhaseBlocks = 1
    CommitSeatHardCap = 3
    PendingBatchSize = 1
    EpochBlocks = 2
    BountyReward = 2
    BountyLifetime = 2
    MaxHeight = 5
INVARIANTS
    TypeOK
    CustodyCovers
    SettledTogether
    VerdictJustified
PROPERTIES
    NoCommitAfterReveal
    FinalIsFrozen
