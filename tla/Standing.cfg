SPECIFICATION Spec
SYMMETRY Symmetry
CONSTANTS
    f1 = f1
    f2 = f2
    f3 = f3
    x = x
    g1 = g1
    g2 = g2
    s1 = s1
    s2 = s2
    e1 = e1
    e2 = e2
    d1 = d1
    d2 = d2
    v1 = v1
    v2 = v2
    auth = auth
    Void = Void
    Protocol = Protocol
CHECK_DEADLOCK FALSE
PROPERTIES
    RewardsFollowSurvival
    VetoesHold
    BountiesPaidOnce
    StandingIsEarned
    CaptureIsHeard
