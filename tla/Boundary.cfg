SPECIFICATION Spec
SYMMETRY Symmetry
CONSTANTS
    ch1 = ch1
    d1 = d1
    d2 = d2
    a1 = a1
    a2 = a2
    k1 = k1
    k2 = k2
    read = read
    pay = pay
    i1 = i1
    i2 = i2
    None = None
CHECK_DEADLOCK FALSE
INVARIANTS
    FlowsStayCapped
    InvocationBondsOnce
PROPERTIES
    KeysRotateOnce
    HomesStayGuarded
