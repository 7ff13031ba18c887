CONSTANTS
    t1 = t1
    t2 = t2
    Thread = {t1, t2}
    Node = {n1, n2, n3, n4, n5}
    Null = Null
    None = None
    Value = {1, 2, 3, 4}
    HPCount = 5
    MaxRetired = 2
    Setups <- Busy
SPECIFICATION Spec
INVARIANTS
    Accounted
    NoUseAfterFree
PROPERTY KeepsOrder
