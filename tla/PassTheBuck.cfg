\* Guards are copied to guards that liberate examines later.
CONSTANTS
    Thread = {t1, t2}
    Node = {n1, n2, n3}
    Link = {l1}
    Null = Null
    MaxGuard = 2
    InitialGuards = 1
    Threshold = 2
    Copies <- Down
SYMMETRY Symmetric
SPECIFICATION Spec
INVARIANTS
    TypeOK
    OnePlace
    LiberateComplete
PROPERTY Reclaims
