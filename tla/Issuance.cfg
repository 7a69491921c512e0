SPECIFICATION Spec
SYMMETRY Symmetry
CONSTANTS
    c1 = c1
    f1 = f1
    r1 = r1
    s1 = s1
    unsourced = unsourced
    w1 = w1
    a1 = a1
    a2 = a2
    a3 = a3
    h1 = h1
    h2 = h2
    h3 = h3
    Void = Void
    Gov = Gov
CHECK_DEADLOCK FALSE
PROPERTIES
    VestingPaysTheCurve
    BridgeMintsOnce
    PotsKeepTheirBudget
    TokenSupplyAccounted
