SPECIFICATION Spec
SYMMETRY AccountSymmetry
CONSTANTS
    Rounds = {1, 2}
    Accounts = {a1, a2, a3}
    VoteOptions = {"accept"}
    Payments = {7}
    MinVerifiersChoices = {1}
    MinHeadcountAgreement = 1
    ConfidenceThreshold = 770000
    CommitPhaseBlocks = 1
    RevealPhaseBlocks = 1
    AggregationPhaseBlocks = 0
    CommitSeatHardCap = 2
    PendingBatchSize = 1
    EpochBlocks = 2
    BountyReward = 2
    BountyLifetime = 1
    MaxHeight = 4
INVARIANTS
    Solvent
    PaidExactlyOnce
    PendingIndexExact
PROPERTIES
    ImplementsEscrow
