SPECIFICATION Spec
SYMMETRY Symmetry
CONSTANTS
    g1 = g1
    g2 = g2
    g3 = g3
    c1 = c1
    p1 = p1
    v1 = v1
    v2 = v2
    a = a
    b = b
    f1 = f1
    f2 = f2
    f3 = f3
    Nobody = Nobody
CHECK_DEADLOCK FALSE
PROPERTIES
    EmergencyStaysLawful
    LipsDoAsVoted
    FundPaysAsDecided
