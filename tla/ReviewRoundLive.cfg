SPECIFICATION FairSpec
CONSTANTS
    Rounds = {1, 2}
    Accounts = {a1, a2}
    VoteOptions = {"accept"}
    Payments = {7}
    MinVerifiersChoices = {1}
    MinHeadcountAgreement = 2
    ConfidenceThreshold = 770000
    CommitPhaseBlocks = 1
    RevealPhaseBlocks = 1
    AggregationPhaseBlocks = 1
    CommitSeatHardCap = 1
    PendingBatchSize = 2
    EpochBlocks = 6
    BountyReward = 2
    BountyLifetime = 1
    MaxHeight = 4
PROPERTIES
    EveryClaimDecided
    EveryObligationPaid
