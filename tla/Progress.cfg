SPECIFICATION Spec
CONSTANTS
    f1 = f1
    f2 = f2
    text1 = text1
    g1 = g1
    g2 = g2
    d1 = d1
    v1 = v1
    v2 = v2
    auth = auth
    s1 = s1
    unsourced = unsourced
    w1 = w1
    op1 = op1
    holder = holder
    p1 = p1
    cand = cand
    Void = Void
    Protocol = Protocol
    Nobody = Nobody
CHECK_DEADLOCK FALSE
PROPERTIES
    EverythingEnds
